--------------------------- MODULE ExpressionCache ---------------------------
(***************************************************************************)
(* The cache of evaluated expressions, validation/expression/cache.go, and *)
(* the Evaluate calls that share it (EvaluateParallel runs them at once).  *)
(* Set, Remove, Clear and the cleanup hold c.mu for writing: they are one  *)
(* step, or a lock, a loop and an unlock.  Get holds it for reading, yet   *)
(* moves its element to the front of the list, so those moves run assign-  *)
(* ment by assignment; and it gives the lock up to remove what expired.    *)
(***************************************************************************)
EXTENDS Integers, Sequences, FiniteSets, SequencesExt, FiniteSetsExt

CONSTANTS
  XKeys,     \* cache keys: an expression with its variables
  XCallers,  \* goroutines
  XSizes,    \* what estimateSize says of a result
  MaxSize,   \* config.MaxSize
  XSetups    \* ops: which calls are made; calls: bound on them; elems: bound on list elements

VARIABLES
  xset,      \* the setup
  items,     \* c.items: the element of each key
  lru,       \* c.evictList: next and prev of each node, e.list = l, len
  entries,   \* the cacheEntry of each element
  usedSize,  \* c.stats.Size
  xcall,     \* each goroutine's call
  recent,    \* the keys by last use, latest first
  raced,     \* a move overlapped another, or a removal came too late
  xcalls     \* calls made

xvars == <<xset, items, lru, entries, usedSize, xcall, recent, raced, xcalls>>

Root == 0       \* l.root; in items: no element
NilNode == -1
Elements == DOMAIN entries
NoXCall == [pc |-> "idle", key |-> "", elem |-> Root, size |-> 0, step |-> 0]

XInit ==
  /\ xset \in XSetups
  /\ items = [k \in XKeys |-> Root]
  /\ lru = [next |-> [n \in 0..xset.elems |-> IF n = Root THEN Root ELSE NilNode],
            prev |-> [n \in 0..xset.elems |-> IF n = Root THEN Root ELSE NilNode],
            in |-> {}, len |-> 0]
  /\ entries = <<>> /\ usedSize = 0 /\ recent = <<>> /\ raced = FALSE /\ xcalls = 0
  /\ xcall = [c \in XCallers |-> NoXCall]

-----------------------------------------------------------------------------
(* container/list                                                          *)

ListRemove(l, e) ==
  IF e \notin l.in THEN l
  ELSE [next |-> [l.next EXCEPT ![l.prev[e]] = l.next[e], ![e] = NilNode],
        prev |-> [l.prev EXCEPT ![l.next[e]] = l.prev[e], ![e] = NilNode],
        in |-> l.in \ {e}, len |-> l.len - 1]

PushFront(l, e) ==
  LET first == l.next[Root]
  IN [next |-> [l.next EXCEPT ![e] = first, ![Root] = e],
      prev |-> [l.prev EXCEPT ![e] = Root, ![first] = e],
      in |-> l.in \cup {e}, len |-> l.len + 1]

\* The assignments of move(e, root), each one read and written where it stands.
MoveAssignment(l, e, step) ==
  CASE step = 1 -> [l EXCEPT !.next[l.prev[e]] = l.next[e]]
    [] step = 2 -> [l EXCEPT !.prev[l.next[e]] = l.prev[e]]
    [] step = 3 -> [l EXCEPT !.prev[e] = Root]
    [] step = 4 -> [l EXCEPT !.next[e] = l.next[Root]]
    [] step = 5 -> [l EXCEPT !.next[l.prev[e]] = e]
    [] step = 6 -> [l EXCEPT !.prev[l.next[e]] = e]

-----------------------------------------------------------------------------
(* The lock                                                                *)

Moving == { c \in XCallers : xcall[c].pc = "move" }
Locked == \E c \in XCallers : xcall[c].pc \in {"evict", "purge"}
MayRead == ~Locked
MayWrite == ~Locked /\ Moving = {}

XCall(c, op) ==
  /\ xcall[c].pc = "idle" /\ op \in xset.ops /\ xcalls < xset.calls
  /\ xcalls' = xcalls + 1

XAt(c, pc) == xcall[c].pc = pc /\ UNCHANGED xcalls
XGoes(c, pc) == xcall' = [xcall EXCEPT ![c].pc = pc]
XEnds(c) == xcall' = [xcall EXCEPT ![c] = NoXCall]

\* removeElement: the list forgets the element only if it is its own, the map the key
\* in any case, and the size is taken off in any case.
removeElement(e) ==
  /\ lru' = ListRemove(lru, e)
  /\ items' = [items EXCEPT ![entries[e].key] = Root]
  /\ usedSize' = usedSize - entries[e].size
  /\ recent' = SelectSeq(recent, LAMBDA k : k # entries[e].key)

-----------------------------------------------------------------------------
(* Get                                                                     *)

\* A miss lets Evaluate go on; other callers of Get are done.
XGet(c, k) ==
  /\ MayRead
  /\ LET e == items[k] IN
     IF e = Root THEN xcall' = [xcall EXCEPT ![c] = [NoXCall EXCEPT !.pc = "compute", !.key = k]]
     ELSE xcall' = [xcall EXCEPT ![c] = [NoXCall EXCEPT !.pc = IF entries[e].expired THEN "expired" ELSE "move",
                                                        !.key = k, !.elem = e]]
  /\ UNCHANGED <<xset, items, lru, entries, usedSize, recent, raced>>

\* Mutant of GetExpired: only the map is told.
GetExpiredUnlinked(c) ==
  /\ XAt(c, "expired") /\ MayWrite
  /\ items' = [items EXCEPT ![xcall[c].key] = Root]
  /\ XGoes(c, "compute")
  /\ UNCHANGED <<xset, lru, entries, usedSize, recent, raced>>

\* Between RUnlock and Lock others may have removed or replaced the element.
GetExpired(c) ==
  /\ XAt(c, "expired") /\ MayWrite
  /\ removeElement(xcall[c].elem)
  /\ raced' = (raced \/ items[xcall[c].key] # xcall[c].elem)
  /\ XGoes(c, "compute")
  /\ UNCHANGED <<xset, entries>>

\* MoveToFront looks whether there is anything to do ...
MoveToFront(c) ==
  /\ XAt(c, "move") /\ xcall[c].step = 0
  /\ LET e == xcall[c].elem IN
     IF e \notin lru.in \/ lru.next[Root] = e
     THEN XEnds(c) /\ UNCHANGED <<recent, raced>>
     ELSE /\ xcall' = [xcall EXCEPT ![c].step = 1]
          /\ recent' = <<entries[e].key>> \o SelectSeq(recent, LAMBDA k : k # entries[e].key)
          /\ raced' = (raced \/ \E d \in Moving : xcall[d].step > 0)
  /\ UNCHANGED <<xset, items, lru, entries, usedSize>>

\* ... and moves, with other readers beside it.
MoveStep(c) ==
  /\ XAt(c, "move") /\ xcall[c].step > 0
  /\ lru' = MoveAssignment(lru, xcall[c].elem, xcall[c].step)
  /\ IF xcall[c].step = 6 THEN XEnds(c) ELSE xcall' = [xcall EXCEPT ![c].step = @ + 1]
  /\ UNCHANGED <<xset, items, entries, usedSize, recent, raced>>

-----------------------------------------------------------------------------
(* Set                                                                     *)

\* What is too large is refused; an entry under the same key is removed first.
SetBegin(c, k, size) ==
  /\ MayWrite /\ Len(entries) < xset.elems
  /\ IF size > MaxSize THEN XEnds(c) /\ UNCHANGED <<items, lru, usedSize, recent>>
     ELSE /\ xcall' = [xcall EXCEPT ![c] = [NoXCall EXCEPT !.pc = "evict", !.key = k, !.size = size]]
          /\ IF items[k] # Root THEN removeElement(items[k]) ELSE UNCHANGED <<items, lru, usedSize, recent>>
  /\ UNCHANGED <<xset, entries, raced>>

\* evictOldest while there is no room; an empty list ends the loop with an error.  Back is
\* the root itself, whose nil value panics, if length and links have come apart.
evictOldest(c) ==
  /\ XAt(c, "evict") /\ usedSize + xcall[c].size > MaxSize
  /\ IF lru.len # 0 /\ lru.prev[Root] # Root THEN removeElement(lru.prev[Root]) /\ UNCHANGED xcall
     ELSE /\ IF lru.len = 0 THEN XEnds(c) ELSE XGoes(c, "panic")
          /\ UNCHANGED <<items, lru, usedSize, recent>>
  /\ UNCHANGED <<xset, entries, raced>>

SetEnd(c) ==
  /\ XAt(c, "evict") /\ usedSize + xcall[c].size <= MaxSize
  /\ LET e == Len(entries) + 1 IN
     /\ entries' = Append(entries, [key |-> xcall[c].key, size |-> xcall[c].size, expired |-> FALSE])
     /\ lru' = PushFront(lru, e)
     /\ items' = [items EXCEPT ![xcall[c].key] = e]
  /\ usedSize' = usedSize + xcall[c].size
  /\ recent' = <<xcall[c].key>> \o recent
  /\ XEnds(c)
  /\ UNCHANGED <<xset, raced>>

-----------------------------------------------------------------------------
(* The other calls                                                         *)

\* Evaluate: Get; on a miss evaluate, which may fail or run out of time, and Set.
Evaluate(c, k) == XCall(c, "evaluate") /\ XGet(c, k)
EvaluateStores(c) == XAt(c, "compute") /\ \E size \in XSizes : SetBegin(c, xcall[c].key, size)
EvaluateFails(c) ==
  /\ XAt(c, "compute") /\ XEnds(c)
  /\ UNCHANGED <<xset, items, lru, entries, usedSize, recent, raced>>

AddToCache(c, k) == XCall(c, "add") /\ \E size \in XSizes : SetBegin(c, k, size)

XRemove(c, k) ==
  /\ XCall(c, "remove") /\ MayWrite
  /\ IF items[k] # Root THEN removeElement(items[k]) ELSE UNCHANGED <<items, lru, usedSize, recent>>
  /\ UNCHANGED <<xset, entries, xcall, raced>>

\* Clear: Init resets the root, and not the elements, which still name the list as theirs.
Clear(c) ==
  /\ XCall(c, "clear") /\ MayWrite
  /\ items' = [k \in XKeys |-> Root]
  /\ lru' = [lru EXCEPT !.next[Root] = Root, !.prev[Root] = Root, !.len = 0]
  /\ usedSize' = 0 /\ recent' = <<>>
  /\ UNCHANGED <<xset, entries, xcall, raced>>

\* PurgeExpired and cleanupExpired go through the map under the lock.
ExpiredKeys == { k \in XKeys : items[k] # Root /\ entries[items[k]].expired }
PurgeExpired(c) ==
  /\ XCall(c, "purge") /\ MayWrite
  /\ XGoes(c, "purge")
  /\ UNCHANGED <<xset, items, lru, entries, usedSize, recent, raced>>
PurgeStep(c) ==
  /\ XAt(c, "purge")
  /\ \/ \E k \in ExpiredKeys : removeElement(items[k]) /\ UNCHANGED xcall
     \/ ExpiredKeys = {} /\ XEnds(c) /\ UNCHANGED <<items, lru, usedSize, recent>>
  /\ UNCHANGED <<xset, entries, raced>>

\* The time to live of an entry runs out.
Expire(e) ==
  /\ "expire" \in xset.ops /\ ~entries[e].expired
  /\ entries' = [entries EXCEPT ![e].expired = TRUE]
  /\ UNCHANGED <<xset, items, lru, usedSize, xcall, recent, raced, xcalls>>

XNext ==
  \/ \E c \in XCallers :
       \/ \E k \in XKeys : Evaluate(c, k) \/ AddToCache(c, k) \/ XRemove(c, k)
       \/ GetExpired(c) \/ MoveToFront(c) \/ MoveStep(c)
       \/ EvaluateStores(c) \/ EvaluateFails(c) \/ evictOldest(c) \/ SetEnd(c)
       \/ Clear(c) \/ PurgeExpired(c) \/ PurgeStep(c)
  \/ \E e \in Elements : Expire(e)

XSpec == XInit /\ [][XNext]_xvars

-----------------------------------------------------------------------------
(* Properties                                                              *)

XTypeOK ==
  /\ items \in [XKeys -> {Root} \cup Elements] /\ lru.in \subseteq Elements
  /\ xcalls \in 0..xset.calls /\ Len(entries) <= xset.elems
  /\ \A c \in XCallers : xcall[c].pc \in {"idle", "compute", "expired", "move", "evict", "purge", "panic"}

\* The keys from the front of the list to its back, as far as the links lead.
Walk(links) ==
  LET n == Len(entries)
      at[i \in 0..n] == IF i = 0 THEN links[Root]
                        ELSE IF at[i - 1] \in {Root, NilNode} THEN Root ELSE links[at[i - 1]]
      stop == Min({ i \in 0..n : at[i] \in {Root, NilNode} } \cup {n})
  IN  [i \in 1..stop |-> entries[at[i - 1]].key]
Forward == Walk(lru.next)
Backward == Walk(lru.prev)

StoredSize == MapThenSumSet(LAMBDA k : entries[items[k]].size, { k \in XKeys : items[k] # Root })

Consistent ==
  /\ Forward = recent /\ Backward = Reverse(recent) /\ lru.len = Len(recent)
  /\ ToSet(recent) = { k \in XKeys : items[k] # Root }
  /\ usedSize = StoredSize
  /\ usedSize <= MaxSize

\* As long as no two moves overlapped and no Get came too late to remove what had
\* expired, map, list and size agree whenever no reader is moving: the list holds the
\* keys of the map by last use, so that what is evicted was used longest ago, their sizes
\* add up to Size, within the limit, and no call panics.
LruUnlessRaced ==
  ~raced => /\ \A c \in XCallers : xcall[c].pc # "panic"
            /\ Moving = {} => Consistent

\* "Cache implements a thread-safe LRU cache with memory limits" (cache.go:20): Size is
\* what the entries add up to, whoever calls what at the same time.
SizeThreadSafe == Moving = {} => usedSize = StoredSize
=============================================================================
