----------------------------- MODULE CacheStore -----------------------------
(***************************************************************************)
(* data/cache: typed caches over one Redis server.  A cache is plain, one  *)
(* Redis string per field under the cache's key, or hashed.  In a hashed   *)
(* cache Key(field) is the field itself, so every field is a hash of its   *)
(* own, and the cache's key does not enter.  Every operation is one Redis  *)
(* command but the pipeline of SetMultiple, whose SETs others may run      *)
(* between and a failure may cut short.  Redis and the JSON coding are     *)
(* external; values round-trip, so only who wrote what is kept.            *)
(***************************************************************************)
EXTENDS Naturals, FiniteSets, FiniteSetsExt, Functions

CONSTANTS
  Fields, Values,
  CSetups      \* per setup, the caches: name -> [key, useHash]; a bound on writes

CONSTANT NoValue   \* a miss

\* Plain caches are made with keys, and no two with the same one: a cache without a key
\* shares its fields with every hashed one.
ASSUME CacheAssumption ==
  /\ NoValue \notin Values
  /\ \A s \in CSetups :
       /\ s.writes \in Nat
       /\ \A c \in DOMAIN s.caches :
            /\ DOMAIN s.caches[c] = {"key", "useHash"} /\ s.caches[c].useHash \in BOOLEAN
            /\ ~s.caches[c].useHash =>
                 /\ s.caches[c].key # ""
                 /\ \A d \in DOMAIN s.caches \ {c} :
                      s.caches[d].useHash \/ s.caches[d].key # s.caches[c].key

VARIABLES
  cset,    \* the setup
  redis,   \* Redis keys present: key -> [hash : BOOLEAN, at : [fields -> values]]
  ttl,     \* keys with an expiry
  pipe,    \* per cache, the pipelined SETs not yet run
  wrote,   \* history: what each cache last wrote to each field and did not remove
  writes   \* how many writes there were

cvars == <<cset, redis, ttl, pipe, wrote, writes>>

Caches == DOMAIN cset.caches
IsHash(c) == cset.caches[c].useHash

\* Mutant of CacheKey: the cache's own key is left out.
CacheKeyBare(c, f) == <<"", f>>

CacheKey(c, f) == IF IsHash(c) THEN <<"", f>> ELSE <<cset.caches[c].key, f>>

CInit ==
  /\ cset \in CSetups
  /\ redis = [k \in {} |-> {}] /\ ttl = {} /\ writes = 0
  /\ pipe = [c \in Caches |-> [f \in {} |-> NoValue]]
  /\ wrote = [c \in Caches |-> [f \in Fields |-> NoValue]]

CTypeOK ==
  /\ cset \in CSetups /\ writes \in 0..cset.writes
  /\ ttl \subseteq DOMAIN redis
  /\ wrote \in [Caches -> [Fields -> Values \cup {NoValue}]]
  /\ \A k \in DOMAIN redis : redis[k].hash \in BOOLEAN /\ DOMAIN redis[k].at \subseteq Fields

-----------------------------------------------------------------------------
(* Redis (external)                                                        *)

WrongType(k, hash) == k \in DOMAIN redis /\ redis[k].hash # hash

HSet(k, items) ==
  LET old == IF k \in DOMAIN redis THEN redis[k].at ELSE [f \in {} |-> NoValue]
  IN  [j \in DOMAIN redis \cup {k} |->
         IF j # k THEN redis[j]
         ELSE [hash |-> TRUE, at |-> [f \in DOMAIN old \cup DOMAIN items |->
                                        IF f \in DOMAIN items THEN items[f] ELSE old[f]]]]

SetKey(k, f, v) ==
  [j \in DOMAIN redis \cup {k} |->
     IF j = k THEN [hash |-> FALSE, at |-> [g \in {f} |-> v]] ELSE redis[j]]

Without(k) == Restrict(redis, DOMAIN redis \ {k})

\* What HGET, or GET, of field f under key k returns.
CacheFetch(k, f) == IF k \in DOMAIN redis /\ f \in DOMAIN redis[k].at THEN redis[k].at[f] ELSE NoValue

\* The server drops a key whose time has come.
RedisExpires(k) ==
  /\ k \in ttl
  /\ redis' = Without(k) /\ ttl' = ttl \ {k}
  /\ wrote' = [c \in Caches |-> [f \in Fields |-> IF CacheKey(c, f) = k THEN NoValue ELSE wrote[c][f]]]
  /\ UNCHANGED <<cset, pipe, writes>>

-----------------------------------------------------------------------------
(* The operations                                                          *)

\* Get, GetArray: the value, a miss, or the error of a key of the wrong type.
CacheGet(c, f) == IF WrongType(CacheKey(c, f), IsHash(c)) THEN NoValue ELSE CacheFetch(CacheKey(c, f), f)

CacheExists(c, f) ==
  IF IsHash(c) THEN ~WrongType(CacheKey(c, f), TRUE) /\ CacheFetch(CacheKey(c, f), f) # NoValue
  ELSE CacheKey(c, f) \in DOMAIN redis

\* GetMultiple: MGET of every field's key, or HMGET on the first field's hash.
CacheGetMultiple(c, fields, first) ==
  [f \in {g \in fields :
            LET k == CacheKey(c, IF IsHash(c) THEN first ELSE g)
            IN ~WrongType(k, IsHash(c)) /\ CacheFetch(k, g) # NoValue} |->
     CacheFetch(CacheKey(c, IF IsHash(c) THEN first ELSE f), f)]

CacheWrite == writes < cset.writes /\ writes' = writes + 1

\* Set and SetArray; a hashed cache ignores the expiry.
CacheSet(c, f, v) ==
  /\ CacheWrite /\ UNCHANGED <<cset, pipe>>
  /\ IF ~IsHash(c)
     THEN /\ redis' = SetKey(CacheKey(c, f), f, v)
          /\ \E expire \in BOOLEAN :
               ttl' = IF expire THEN ttl \cup {CacheKey(c, f)} ELSE ttl \ {CacheKey(c, f)}
          /\ wrote' = [wrote EXCEPT ![c][f] = v]
     ELSE IF WrongType(CacheKey(c, f), TRUE) THEN UNCHANGED <<redis, ttl, wrote>>
     ELSE /\ redis' = HSet(CacheKey(c, f), [g \in {f} |-> v])
          /\ wrote' = [wrote EXCEPT ![c][f] = v]
          /\ UNCHANGED ttl

CacheDelete(c, f) ==
  /\ UNCHANGED <<cset, pipe, writes>>
  /\ LET k == CacheKey(c, f) IN
     /\ ~(IsHash(c) /\ WrongType(k, TRUE)) /\ CacheFetch(k, f) # NoValue
     /\ LET gone == ~IsHash(c) \/ DOMAIN redis[k].at = {f} IN
        /\ redis' = IF gone THEN Without(k)
                    ELSE [redis EXCEPT ![k].at = Restrict(@, DOMAIN @ \ {f})]
        /\ ttl' = IF gone THEN ttl \ {k} ELSE ttl
     /\ wrote' = [wrote EXCEPT ![c][f] = NoValue]

\* SetMultiple: all fields into the hash of one of them, in map order the first;
\* or a pipeline of SETs.
CacheSetMultiple(c, items) ==
  /\ CacheWrite /\ pipe[c] = [f \in {} |-> NoValue] /\ UNCHANGED cset
  /\ IF ~IsHash(c) THEN pipe' = [pipe EXCEPT ![c] = items] /\ UNCHANGED <<redis, ttl, wrote>>
     ELSE \E first \in DOMAIN items :
            /\ UNCHANGED <<pipe, ttl>>
            /\ IF WrongType(CacheKey(c, first), TRUE) THEN UNCHANGED <<redis, wrote>>
               ELSE /\ redis' = HSet(CacheKey(c, first), items)
                    /\ wrote' = [wrote EXCEPT ![c] =
                                   [f \in Fields |-> IF f \in DOMAIN items THEN items[f] ELSE @[f]]]

PipelineSet(c) ==
  \E f \in DOMAIN pipe[c] :
    /\ redis' = SetKey(CacheKey(c, f), f, pipe[c][f])
    /\ \E expire \in BOOLEAN :
         ttl' = IF expire THEN ttl \cup {CacheKey(c, f)} ELSE ttl \ {CacheKey(c, f)}
    /\ wrote' = [wrote EXCEPT ![c][f] = pipe[c][f]]
    /\ pipe' = [pipe EXCEPT ![c] = Restrict(@, DOMAIN @ \ {f})]
    /\ UNCHANGED <<cset, writes>>

\* The connection fails under the pipeline; SetMultiple returns an error.
PipelineFails(c) ==
  /\ pipe[c] # [f \in {} |-> NoValue]
  /\ pipe' = [pipe EXCEPT ![c] = [f \in {} |-> NoValue]]
  /\ UNCHANGED <<cset, redis, ttl, wrote, writes>>

CacheExpire(c, f) ==
  /\ CacheKey(c, f) \in DOMAIN redis
  /\ ttl' = ttl \cup {CacheKey(c, f)}
  /\ UNCHANGED <<cset, redis, pipe, wrote, writes>>

CNext ==
  \/ \E c \in Caches, f \in Fields :
       \/ \E v \in Values : CacheSet(c, f, v)
       \/ CacheDelete(c, f) \/ CacheExpire(c, f)
  \/ \E c \in Caches :
       \/ \E items \in [Fields -> Values] : CacheSetMultiple(c, items)
       \/ PipelineSet(c) \/ PipelineFails(c)
  \/ \E k \in DOMAIN redis : RedisExpires(k)

CSpec == CInit /\ [][CNext]_cvars

-----------------------------------------------------------------------------
(* Properties                                                              *)

\* A plain cache reads back what it last wrote, alone or among several, until it
\* is removed or expires, whatever caches with other keys do meanwhile; and
\* GetMultiple, Get and Exists tell the same story.
PlainReadsBack ==
  \A c \in Caches : ~IsHash(c) =>
    \A f \in Fields :
      /\ CacheGet(c, f) = wrote[c][f]
      /\ CacheExists(c, f) = (CacheGet(c, f) # NoValue)
      /\ CacheGetMultiple(c, Fields, f) =
           [g \in {h \in Fields : CacheGet(c, h) # NoValue} |-> CacheGet(c, g)]
=============================================================================
