------------------------- MODULE ConcurrencyManager -------------------------
(***************************************************************************)
(* concurrency/concurrency.go: a semaphore, kept as a channel of MaxSlots  *)
(* tokens, and three atomic counters that are changed after it.            *)
(***************************************************************************)
EXTENDS Integers, FiniteSets

CONSTANTS
  SlotUsers,   \* goroutines
  MaxSlots,    \* maxConcurrent
  SlotCalls,   \* bound on Acquire and TryAcquire
  Extra        \* bound on Release calls by goroutines that hold nothing

ASSUME SlotsAssumption ==
  IsFiniteSet(SlotUsers) /\ MaxSlots \in Nat \ {0}  \* NewManager refuses others

VARIABLES
  tokens,      \* len(m.semaphore)
  slotCounts,  \* current, totalExecutions, rejectedCount
  slotUser,    \* what each goroutine is about to do
  slotUsed     \* calls made, extra releases made

slotVars == <<tokens, slotCounts, slotUser, slotUsed>>

SlotInit ==
  /\ tokens = 0 /\ slotCounts = [current |-> 0, total |-> 0, rejected |-> 0]
  /\ slotUser = [u \in SlotUsers |-> "out"] /\ slotUsed = [calls |-> 0, extra |-> 0]

GoesTo(u, pc) == slotUser' = [slotUser EXCEPT ![u] = pc]
Begins == slotUsed.calls < SlotCalls /\ slotUsed' = [slotUsed EXCEPT !.calls = @ + 1]

\* Acquire waits for room or for its context; TryAcquire takes a token or returns false.
Acquire(u) ==
  /\ slotUser[u] = "out" /\ Begins
  /\ \/ tokens < MaxSlots /\ tokens' = tokens + 1 /\ GoesTo(u, "current") /\ UNCHANGED slotCounts
     \/ GoesTo(u, "rejected") /\ UNCHANGED <<tokens, slotCounts>>

TryAcquire(u) ==
  /\ slotUser[u] = "out" /\ Begins
  /\ IF tokens < MaxSlots THEN tokens' = tokens + 1 /\ GoesTo(u, "current")
     ELSE UNCHANGED <<tokens, slotUser>>
  /\ UNCHANGED slotCounts

CountCurrent(u) ==
  /\ slotUser[u] = "current" /\ GoesTo(u, "total")
  /\ slotCounts' = [slotCounts EXCEPT !.current = @ + 1]
  /\ UNCHANGED <<tokens, slotUsed>>

CountTotal(u) ==
  /\ slotUser[u] = "total" /\ GoesTo(u, "in")
  /\ slotCounts' = [slotCounts EXCEPT !.total = @ + 1]
  /\ UNCHANGED <<tokens, slotUsed>>

CountRejected(u) ==
  /\ slotUser[u] = "rejected" /\ GoesTo(u, "out")
  /\ slotCounts' = [slotCounts EXCEPT !.rejected = @ + 1]
  /\ UNCHANGED <<tokens, slotUsed>>

\* Release takes a token, whosever it is, and panics if there is none.
Release(u) ==
  /\ \/ slotUser[u] = "in" /\ UNCHANGED slotUsed
     \/ slotUser[u] = "out" /\ slotUsed.extra < Extra /\ slotUsed' = [slotUsed EXCEPT !.extra = @ + 1]
  /\ IF tokens > 0 THEN tokens' = tokens - 1 /\ GoesTo(u, "release") ELSE GoesTo(u, "panic") /\ UNCHANGED tokens
  /\ UNCHANGED slotCounts

ReleaseCount(u) ==
  /\ slotUser[u] = "release" /\ GoesTo(u, "out")
  /\ slotCounts' = [slotCounts EXCEPT !.current = @ - 1]
  /\ UNCHANGED <<tokens, slotUsed>>

SlotNext ==
  \E u \in SlotUsers :
    Acquire(u) \/ TryAcquire(u) \/ CountCurrent(u) \/ CountTotal(u) \/ CountRejected(u)
    \/ Release(u) \/ ReleaseCount(u)

SlotSpec == SlotInit /\ [][SlotNext]_slotVars

Available == MaxSlots - slotCounts.current

-----------------------------------------------------------------------------
(* Properties                                                              *)

SlotsAt(at) == { u \in SlotUsers : slotUser[u] \in at }
Inside == SlotsAt({"current", "total", "in"})

\* At most MaxSlots goroutines are between Acquire and Release, and no Release of one
\* that acquired panics, unless some Release was called once too often: it then frees the
\* slot of another.  Available trails the channel by exactly the goroutines between their
\* token and their count, and so may fall below zero by those that are releasing.
SlotsExact ==
  /\ Cardinality(Inside) <= MaxSlots + slotUsed.extra
  /\ slotUsed.extra = 0 => tokens = Cardinality(Inside) /\ SlotsAt({"panic"}) = {}
  /\ Available = MaxSlots - tokens + Cardinality(SlotsAt({"current"})) - Cardinality(SlotsAt({"release"}))
=============================================================================
