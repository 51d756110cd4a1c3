----------------------------- MODULE MCExamples -----------------------------
(***************************************************************************)
(* Instances for TLC of the applications under examples/: the event bus    *)
(* and the WebSocket hub, the repositories behind one interface, the       *)
(* workspace, user, account and job services, and the generated client of  *)
(* the tables.  They share no variables: a behaviour runs one of them,     *)
(* named by part, and leaves the others as they started.                   *)
(***************************************************************************)
EXTENDS AppEvents, AppHub, RepoPairs, Workspaces, Jobs, Accounts, UserDirectory, EntClient

VARIABLE part

MCAppTimes == <<10, 12, 25>>
MCAppSetups ==
  { [version |-> "06", store |-> "sqlite", cap |-> 1, faults |-> 1],
    [version |-> "08", store |-> "memory", cap |-> 1, faults |-> 1] }

MCHubSetups ==
  { [version |-> "04", cap |-> 1, bcap |-> 2, messages |-> 2],
    [version |-> "08", cap |-> 1, bcap |-> 2, messages |-> 3] }

MCWSetups == { [kind |-> k, faults |-> 1, ops |-> 4] : k \in {"workspace", "task", "comment"} }

JobSetup(app, workers, stops, restarts) ==
  [app |-> app, workers |-> workers, queue |-> 1, stops |-> stops, restarts |-> restarts, faults |-> TRUE]
MCJSetups ==
  { JobSetup("manager", 1, FALSE, 1), [JobSetup("manager", 2, TRUE, 0) EXCEPT !.faults = FALSE],
    JobSetup("export", 1, TRUE, 1) }

MCDSetups ==
  { [repo |-> "cached", calls |-> 3, faults |-> 1], [repo |-> "memory", calls |-> 3, faults |-> 0],
    [repo |-> "postgres", calls |-> 3, faults |-> 0] }

TaskValues == [title |-> {"t"}, description |-> {"d"}, status |-> {"bogus"}, created_at |-> {9}]
TaskSetup ==
  [kind |-> "task", kinds |-> {"create", "update", "updateOne", "delete", "deleteOne"}, ops |-> 3, calls |-> 2,
   tx |-> FALSE, bulk |-> FALSE, order |-> <<"title", "description", "status", "created_at">>, values |-> TaskValues,
   over |-> [status |-> "bogus"], hooks |-> <<>>,
   where |-> {{}, {[on |-> "id", op |-> "GT", value |-> 1]},
              {[on |-> "text", field |-> "description", op |-> "IsNil", value |-> ""]}},
   selects |-> {"description"}]
UserSetup ==
  [kind |-> "user", kinds |-> {"create", "updateOne"}, ops |-> 3, calls |-> 4, tx |-> FALSE, bulk |-> FALSE,
   order |-> <<"name", "email", "role">>, values |-> [name |-> {"n"}, email |-> {"e", "f"}, role |-> {"r"}],
   over |-> NoFields, hooks |-> <<>>, where |-> {{}, {[on |-> "text", field |-> "email", op |-> "EQ", value |-> "e"]}},
   selects |-> {"email"}]
\* Rejects deletes; completes a task whose description is cleared, and spoils one that sets it.
Always == [all |-> {}, some |-> {}, none |-> {}]
TaskHooks ==
  <<[if |-> [Always EXCEPT !.some = {[on |-> "op", arg |-> {"delete"}], [on |-> "op", arg |-> {"deleteOne"}]}],
     do |-> "reject", set |-> NoFields],
    [if |-> [Always EXCEPT !.all = {[on |-> "cleared", arg |-> {"description"}]}], do |-> "set",
     set |-> [status |-> "completed"]],
    [if |-> [Always EXCEPT !.all = {[on |-> "fields", arg |-> {"description"}]},
                           !.none = {[on |-> "op", arg |-> {"update"}]}], do |-> "set", set |-> [status |-> "bogus"]]>>
MCEntSetups ==
  {TaskSetup,
   [TaskSetup EXCEPT !.kinds = {"create", "update"}, !.ops = 2, !.tx = TRUE, !.bulk = TRUE,
                     !.values = [title |-> {"t"}, status |-> {"bogus"}], !.where = {{}}, !.selects = {}],
   [TaskSetup EXCEPT !.ops = 2, !.hooks = TaskHooks],
   [UserSetup EXCEPT !.ops = 2, !.kinds = {"create", "updateOne", "update", "deleteOne"}],
   [UserSetup EXCEPT !.ops = 2, !.kinds = {"create", "delete"}, !.calls = 5, !.bulk = TRUE,
                     !.values = [name |-> {"n"}, email |-> {"e"}], !.where = {{}}, !.selects = {}]}

examplesVars == <<part, avars, hvars, rvars, wvars, jvars, accVars, dvars, entvars>>

\* The part that runs starts in any of its initial states, the others in a fixed one.
Pinned(p, setup, setups) == part # p => setup = CHOOSE s \in setups : TRUE
ExamplesInit ==
  /\ part \in {"events", "hub", "repositories", "workspaces", "jobs", "accounts", "users", "ent"}
  /\ AppInit /\ Pinned("events", aset, AppSetups)
  /\ HubInit /\ Pinned("hub", hset, HubSetups)
  /\ RepoInit /\ Pinned("repositories", rkind, RKinds)
  /\ WInit /\ Pinned("workspaces", wset, WSetups)
  /\ JInit /\ Pinned("jobs", jset, JSetups)
  /\ AInit
  /\ DInit /\ Pinned("users", dset, DSetups)
  /\ EntInit /\ Pinned("ent", eset, EntSetups)

ExamplesNext ==
  /\ UNCHANGED part
  /\ \/ part = "events" /\ AppNext /\ UNCHANGED <<hvars, rvars, wvars, jvars, accVars, dvars, entvars>>
     \/ part = "hub" /\ HubNext /\ UNCHANGED <<avars, rvars, wvars, jvars, accVars, dvars, entvars>>
     \/ part = "repositories" /\ RepoNext /\ UNCHANGED <<avars, hvars, wvars, jvars, accVars, dvars, entvars>>
     \/ part = "workspaces" /\ WNext /\ UNCHANGED <<avars, hvars, rvars, jvars, accVars, dvars, entvars>>
     \/ part = "jobs" /\ JNext /\ UNCHANGED <<avars, hvars, rvars, wvars, accVars, dvars, entvars>>
     \/ part = "accounts" /\ ANext /\ UNCHANGED <<avars, hvars, rvars, wvars, jvars, dvars, entvars>>
     \/ part = "users" /\ DNext /\ UNCHANGED <<avars, hvars, rvars, wvars, jvars, accVars, entvars>>
     \/ part = "ent" /\ EntNext /\ UNCHANGED <<avars, hvars, rvars, wvars, jvars, accVars, dvars>>

ExamplesSpec == ExamplesInit /\ [][ExamplesNext]_examplesVars

\* The two requests, clients or jobs of a part are alike, and so are the two account IDs.
\* One part runs and the others stay in an initial state, so those of all parts may change
\* places at once.
Pairs == {HubClients, WRequests, JobIDs, AClients, DRequests, AccountIDs}
OtherOf(x) == CHOOSE y \in UNION Pairs : y # x /\ {x, y} \in Pairs
Symmetry ==
  { [x \in UNION Pairs |-> IF IF x \in AccountIDs THEN ids ELSE swap THEN OtherOf(x) ELSE x] : swap, ids \in BOOLEAN }

-----------------------------------------------------------------------------
(* What the parts with several properties promise                          *)

\* No accepted event is dropped (AcceptedAccounted), the stores replay what was saved, each
\* as far as its order and its keys allow (ReplayInOrder), and the hub never sends to a
\* client that left (NoSendOnClosed).
RealtimeSound == AcceptedAccounted /\ ReplayInOrder /\ NoSendOnClosed

\* The owner of a workspace stays its one owner (OwnerStays), and no row that was deleted
\* comes back with a request that had read it, nor into the cache unless that request was
\* under way or an eviction failed (DeletedStaysDeleted).
WorkspacesSound == OwnerStays /\ DeletedStaysDeleted

\* The row of a job never says more than happened (RowHonest), one that stays unfinished
\* was left so by a failed write, a stop or a restart (StuckNeedsCause), and otherwise a
\* finished job is reported as finished (FinishedIsReported).
JobsSound == JTypeOK /\ RowHonest /\ StuckNeedsCause /\ FinishedIsReported

\* A refresh token works once and a deleted user has no session, but for overlaps and a
\* failed delete (SessionsFollowTokens); a user's row and its cached copy are what was last
\* acknowledged, but for overlaps and failed evictions (UsersCurrent), and the database lets
\* no two users share an address (EmailsUnique).
PeopleSound ==
  ATypeOK /\ SessionsFollowTokens /\ DTypeOK /\ UsersCurrent /\ EmailsUnique

\* Rows written through the generated builders are complete and valid (RowsSound), and a
\* query builder that was only cloned still answers for every row (UnspentQueryComplete).
EntSound == RowsSound /\ UnspentQueryComplete
=============================================================================
