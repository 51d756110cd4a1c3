--------------------------- MODULE UserDirectory ---------------------------
(***************************************************************************)
(* The user module of example 08: handler, service and repository.  The    *)
(* Postgres repository reads users by ID through a Redis cache that Update *)
(* and Delete evict from after they have written the row, and whose errors *)
(* it ignores; the memory repository is a map under a lock.  Each call of  *)
(* a request on the table or on the cache is a step.                       *)
(***************************************************************************)
EXTENDS Naturals, FiniteSets

CONSTANTS
  DIds,       \* IDs that new users draw
  DNames, DEmails,
  DRequests,  \* requests in flight
  Unset,      \* a field that an update request leaves out; no user, no ID
  DSetups     \* repository; bounds: requests, cache calls that fail

DSetupType == [repo : {"postgres", "cached", "memory"}, calls : Nat, faults : Nat]

ASSUME DirectoryAssumption == Unset \notin DIds /\ Unset \notin DNames /\ Unset \notin DEmails /\ DSetups \subseteq DSetupType

VARIABLES
  dset,
  rows,     \* the table or map: user per ID, or Unset
  copies,   \* the cache
  dreq,     \* requests
  dlog      \* history: IDs drawn, the fields last acknowledged, IDs whose requests
            \* overlapped or whose eviction failed; bounds used

dvars == <<dset, rows, copies, dreq, dlog>>

User == [name : DNames, email : DEmails]
NoUsers == [i \in DIds |-> Unset]
Idle == [op |-> "none", pc |-> "idle", id |-> Unset, name |-> Unset, email |-> Unset, user |-> Unset]

DInit ==
  /\ dset \in DSetups
  /\ rows = NoUsers /\ copies = NoUsers
  /\ dreq = [r \in DRequests |-> Idle]
  /\ dlog = [calls |-> 0, faults |-> 0, drawn |-> {}, last |-> NoUsers, raced |-> {}]

DTypeOK ==
  /\ dset \in DSetups
  /\ rows \in [DIds -> User \cup {Unset}] /\ copies \in [DIds -> User \cup {Unset}]
  /\ dlog.drawn \subseteq DIds /\ dlog.raced \subseteq DIds

Cached == dset.repo = "cached"

\* The requests on an ID that have begun to read or write it.
Others(r, i) == { q \in DRequests \ {r} : dreq[q].id = i }

\* HandleCreate, HandleGetByID, HandleUpdate and HandleDelete, up to the first call of the
\* repository; an ID in the path may be anyone's.
HandleCreate(r, id, name, email) ==
  /\ dreq[r].pc = "idle" /\ dlog.calls < dset.calls /\ id \notin dlog.drawn
  /\ dlog' = [dlog EXCEPT !.calls = @ + 1, !.drawn = @ \cup {id},
                !.raced = IF Others(r, id) # {} THEN @ \cup {id} ELSE @]
  /\ dreq' = [dreq EXCEPT ![r] = [Idle EXCEPT !.op = "create", !.pc = "write", !.id = id,
                                               !.name = name, !.email = email]]
  /\ UNCHANGED <<dset, rows, copies>>

HandleRequest(r, op, id, name, email) ==
  /\ dreq[r].pc = "idle" /\ dlog.calls < dset.calls
  /\ op # "update" => name = Unset /\ email = Unset
  /\ dlog' = [dlog EXCEPT !.calls = @ + 1, !.raced = IF Others(r, id) # {} THEN @ \cup {id} ELSE @]
  /\ dreq' = [dreq EXCEPT ![r] =
       [Idle EXCEPT !.op = op, !.id = id, !.name = name, !.email = email,
          !.pc = IF op = "delete" THEN "write" ELSE IF Cached THEN "peek" ELSE "read"]]
  /\ UNCHANGED <<dset, rows, copies>>

HandleGetByID(r, id) == HandleRequest(r, "get", id, Unset, Unset)
HandleUpdate(r, id, name, email) == HandleRequest(r, "update", id, name, email)
HandleDelete(r, id) == HandleRequest(r, "delete", id, Unset, Unset)

\* GetByEmail: the user found is copied to the cache in the same way.
FindByEmail(r, email) ==
  /\ dreq[r].pc = "idle" /\ dlog.calls < dset.calls
  /\ \E i \in DIds :
       /\ rows[i] # Unset /\ rows[i].email = email
       /\ dlog' = [dlog EXCEPT !.calls = @ + 1, !.raced = IF Others(r, i) # {} THEN @ \cup {i} ELSE @]
       /\ dreq' = [dreq EXCEPT ![r] = IF Cached
            THEN [Idle EXCEPT !.op = "get", !.pc = "fill", !.id = i, !.user = rows[i]] ELSE Idle]
  /\ UNCHANGED <<dset, rows, copies>>

Answers(r) == dreq' = [dreq EXCEPT ![r] = Idle]

\* The reader has a user: it answers, or goes on to change it.
Got(r, user) ==
  IF dreq[r].op = "get" THEN Idle ELSE [dreq[r] EXCEPT !.user = user, !.pc = "write"]

\* FindByID looks in the cache first.
Peek(r) ==
  /\ dreq[r].pc = "peek"
  /\ dreq' = [dreq EXCEPT ![r] =
       IF copies[dreq[r].id] # Unset THEN Got(r, copies[dreq[r].id]) ELSE [@ EXCEPT !.pc = "read"]]
  /\ UNCHANGED <<dset, rows, copies, dlog>>

FindByID(r) ==
  /\ dreq[r].pc = "read"
  /\ LET user == rows[dreq[r].id] IN
     dreq' = [dreq EXCEPT ![r] =
       IF user = Unset THEN Idle  \* ErrUserNotFound
       ELSE IF Cached THEN [@ EXCEPT !.user = user, !.pc = "fill"]
       ELSE Got(r, user)]
  /\ UNCHANGED <<dset, rows, copies, dlog>>

Fill(r) ==
  /\ dreq[r].pc = "fill"
  /\ copies' = [copies EXCEPT ![dreq[r].id] = dreq[r].user]
  /\ dreq' = [dreq EXCEPT ![r] = IF @.op = "create" THEN Idle ELSE Got(r, dreq[r].user)]
  /\ UNCHANGED <<dset, rows, dlog>>

\* What Update makes of the user it read: a field left empty stays.
Patched(req) ==
  [name |-> IF req.name = Unset THEN req.user.name ELSE req.name,
   email |-> IF req.email = Unset THEN req.user.email ELSE req.email]

\* The column is UNIQUE; the memory repository checks it in Create only.
EmailTaken(id, email) == \E i \in DIds \ {id} : rows[i] # Unset /\ rows[i].email = email

PostgresUpdates(q) == rows[q.id] # Unset /\ ~EmailTaken(q.id, Patched(q).email)
MemoryUpdates(q) == rows[q.id] # Unset
Updates(q) == IF dset.repo = "memory" THEN MemoryUpdates(q) ELSE PostgresUpdates(q)

InsertRow(r) ==
  /\ dreq[r].pc = "write" /\ dreq[r].op = "create"
  /\ LET q == dreq[r]
         user == [name |-> q.name, email |-> q.email]
         ok == ~EmailTaken(q.id, q.email)
     IN /\ rows' = IF ok THEN [rows EXCEPT ![q.id] = user] ELSE rows
        /\ dlog' = IF ok THEN [dlog EXCEPT !.last[q.id] = user] ELSE dlog
        /\ IF ok /\ Cached THEN dreq' = [dreq EXCEPT ![r].pc = "fill", ![r].user = user] ELSE Answers(r)
  /\ UNCHANGED <<dset, copies>>

\* History: the request's fields over those acknowledged before, whatever Update read.
WriteRow(r) ==
  /\ dreq[r].pc = "write" /\ dreq[r].op = "update"
  /\ LET q == dreq[r]
         ok == Updates(q)
     IN /\ rows' = IF ok THEN [rows EXCEPT ![q.id] = Patched(q)] ELSE rows
        /\ dlog' = IF ok THEN [dlog EXCEPT !.last[q.id] = Patched([q EXCEPT !.user = dlog.last[q.id]])] ELSE dlog
        /\ IF ok /\ Cached THEN dreq' = [dreq EXCEPT ![r].pc = "evict"] ELSE Answers(r)
  /\ UNCHANGED <<dset, copies>>

DeleteRow(r) ==
  /\ dreq[r].pc = "write" /\ dreq[r].op = "delete"
  /\ LET ok == rows[dreq[r].id] # Unset IN
     /\ rows' = [rows EXCEPT ![dreq[r].id] = Unset]
     /\ dlog' = [dlog EXCEPT !.last[dreq[r].id] = Unset]
     /\ IF ok /\ Cached THEN dreq' = [dreq EXCEPT ![r].pc = "evict"] ELSE Answers(r)
  /\ UNCHANGED <<dset, copies>>

Evict(r) ==
  /\ dreq[r].pc = "evict"
  /\ copies' = [copies EXCEPT ![dreq[r].id] = Unset]
  /\ Answers(r)
  /\ UNCHANGED <<dset, rows, dlog>>

\* A Get on the cache fails and counts as a miss; a Set or a Delete fails and is ignored.
CacheFails(r) ==
  /\ dreq[r].pc \in {"peek", "fill", "evict"} /\ dlog.faults < dset.faults
  /\ dlog' = [dlog EXCEPT !.faults = @ + 1,
                !.raced = IF dreq[r].pc = "evict" THEN @ \cup {dreq[r].id} ELSE @]
  /\ dreq' = [dreq EXCEPT ![r] =
       IF dreq[r].pc = "peek" THEN [@ EXCEPT !.pc = "read"]
       ELSE IF dreq[r].pc = "fill" /\ dreq[r].op = "update" THEN [@ EXCEPT !.pc = "write"] ELSE Idle]
  /\ UNCHANGED <<dset, rows, copies>>

DNext ==
  \E r \in DRequests :
    \/ \E i \in DIds :
         \/ \E n \in DNames, e \in DEmails : HandleCreate(r, i, n, e)
         \/ \E n \in DNames \cup {Unset}, e \in DEmails \cup {Unset} : HandleUpdate(r, i, n, e)
         \/ HandleGetByID(r, i) \/ HandleDelete(r, i)
    \/ \E e \in DEmails : FindByEmail(r, e)
    \/ Peek(r) \/ FindByID(r) \/ Fill(r) \/ InsertRow(r) \/ WriteRow(r) \/ DeleteRow(r)
    \/ Evict(r) \/ CacheFails(r)

DSpec == DInit /\ [][DNext]_dvars

-----------------------------------------------------------------------------
(* Properties                                                              *)

\* Unless requests on a user overlapped, or the cache failed to forget one, the row
\* holds in every field the value last acknowledged, and no copy outlives it: a stale
\* copy would be read by Update, which writes all fields back.
UsersCurrent ==
  \A i \in DIds \ dlog.raced :
    /\ rows[i] = dlog.last[i]
    /\ copies[i] # Unset /\ (\A r \in DRequests : dreq[r].id # i) => copies[i] = rows[i]

\* No two users share an e-mail address in Postgres; Update of the memory repository
\* does not look.
EmailsUnique ==
  dset.repo # "memory" => \A i \in DIds : rows[i] # Unset => ~EmailTaken(i, rows[i].email)
=============================================================================
