----------------------------- MODULE RateLimiter -----------------------------
(***************************************************************************)
(* ratelimit.py: SlidingWindowLimiter, and how _enforce answers the login  *)
(* and register endpoints with it.  The dependencies that call it run on   *)
(* the event loop and never await, so one call is one action.  Each        *)
(* endpoint has a limiter of its own; this module is one of them.          *)
(***************************************************************************)
EXTENDS Integers, Sequences, FiniteSets

CONSTANTS Keys,             \* client addresses
          Limit,            \* attempts allowed ...
          Window,           \* ... in this many clock ticks
          MaxKeys,          \* how many buckets the table may hold
          TicksPerSecond,   \* resolution of the clock against Retry-After's
          MaxTime           \* bound: the clock stops there

(* config.py: limit ge=1, window gt=0. *)
ASSUME LimiterAssumption ==
    /\ Limit \in Nat \ {0}
    /\ Window \in Nat \ {0}
    /\ MaxKeys \in Nat
    /\ TicksPerSecond \in Nat \ {0}
    /\ MaxTime \in Nat

VARIABLES
    now,       \* time.monotonic()
    tracked,   \* the keys of self._hits
    hits,      \* the deques of self._hits; <<>> for a key that has none
    answer,    \* the last answer given, and to whom
    admitted   \* history: when each key's tracked attempts were let through

vars == <<now, tracked, hits, answer, admitted>>

Outcomes == {"none", "admitted", "refused", "untracked"}

NoAnswer == [outcome |-> "none", wait |-> 0, seconds |-> 0]

Init ==
    /\ now = 0
    /\ tracked = {}
    /\ hits = [k \in Keys |-> <<>>]
    /\ answer = [k \in Keys |-> NoAnswer]
    /\ admitted = [k \in Keys |-> <<>>]

(* How many hits at the head of a deque are at or before the cutoff. *)
Expired(h, cutoff) ==
    CHOOSE n \in 0 .. Len(h) :
       /\ \A i \in 1 .. n : h[i] <= cutoff
       /\ n = Len(h) \/ h[n + 1] > cutoff

(* Mutants: a window one tick short, and one that keeps a hit at the cutoff. *)
MutPopsEarly(h, cutoff) == SubSeq(h, Expired(h, cutoff + 1) + 1, Len(h))
MutPopsLate(h, cutoff) == SubSeq(h, Expired(h, cutoff - 1) + 1, Len(h))

(* while hits and hits[0] <= cutoff: hits.popleft() *)
PopExpired(h, cutoff) == SubSeq(h, Expired(h, cutoff) + 1, Len(h))

(* The buckets _make_room drops: empty, or newest hit at the cutoff or before. *)
Stale(cutoff) ==
    {k \in tracked : hits[k] = <<>> \/ hits[k][Len(hits[k])] <= cutoff}

(* Mutant: nothing is ever evicted. *)
MutNoEviction(cutoff) == tracked

(* The table _make_room leaves. *)
RoomMade(cutoff) ==
    IF Cardinality(tracked) < MaxKeys THEN tracked ELSE tracked \ Stale(cutoff)

(* _enforce: Retry-After in whole seconds, rounded up, never 0. *)
CeilSeconds(wait) == (wait + TicksPerSecond - 1) \div TicksPerSecond
RetryAfterHeader(wait) == IF CeilSeconds(wait) > 1 THEN CeilSeconds(wait) ELSE 1

Reply(k, outcome, wait, seconds) ==
    answer' = [answer EXCEPT ![k] =
                 [outcome |-> outcome, wait |-> wait, seconds |-> seconds]]

(* Mutant: the deques that are left, and nothing for the other keys. *)
MutHitsOnly(keys) == [k \in keys |-> hits[k]]

(* The deques of a table reduced to `keys`. *)
HitsOf(keys) == [k \in Keys |-> IF k \in keys THEN hits[k] ELSE <<>>]

(* The end of retry_after, once k's bucket is `bucket` in the table `table`. *)
Decide(k, table, bucket) ==
    /\ tracked' = table \cup {k}
    /\ \/ /\ Len(bucket) >= Limit
          /\ hits' = [HitsOf(table) EXCEPT ![k] = bucket]
          /\ LET wait == bucket[1] + Window - now IN
             Reply(k, "refused", wait, RetryAfterHeader(wait))
          /\ UNCHANGED admitted
       \/ /\ Len(bucket) < Limit
          /\ hits' = [HitsOf(table) EXCEPT ![k] = Append(bucket, now)]
          /\ Reply(k, "admitted", 0, 0)
          /\ admitted' = [admitted EXCEPT ![k] = Append(@, now)]

(* A key that has a bucket: what left the window is popped first. *)
KnownKey(k) ==
    /\ k \in tracked
    /\ Decide(k, tracked, PopExpired(hits[k], now - Window))
    /\ UNCHANGED now

(* Mutant: the answer of _make_room is ignored. *)
MutNewKeyAlways(k) ==
    /\ k \notin tracked
    /\ Decide(k, RoomMade(now - Window), <<>>)
    /\ UNCHANGED now

(* A key without one, and room for it. *)
NewKey(k) ==
    /\ k \notin tracked
    /\ Cardinality(RoomMade(now - Window)) < MaxKeys
    /\ Decide(k, RoomMade(now - Window), <<>>)
    /\ UNCHANGED now

(* No room: let through and not counted. *)
NoRoom(k) ==
    /\ k \notin tracked
    /\ Cardinality(RoomMade(now - Window)) >= MaxKeys
    /\ tracked' = RoomMade(now - Window)
    /\ hits' = HitsOf(RoomMade(now - Window))
    /\ Reply(k, "untracked", 0, 0)
    /\ UNCHANGED <<now, admitted>>

(* clear, which the tests call between cases: the past is forgotten. *)
Clear ==
    /\ tracked' = {}
    /\ hits' = [k \in Keys |-> <<>>]
    /\ admitted' = [k \in Keys |-> <<>>]
    /\ answer' = [k \in Keys |-> NoAnswer]
    /\ UNCHANGED now

(* Answers are about the moment they were given: none outlives a tick. *)
Tick ==
    /\ now < MaxTime
    /\ now' = now + 1
    /\ answer' = [k \in Keys |-> NoAnswer]
    /\ UNCHANGED <<tracked, hits, admitted>>

RetryAfter(k) == KnownKey(k) \/ NewKey(k) \/ NoRoom(k)

Next == Tick \/ Clear \/ \E k \in Keys : RetryAfter(k)

Spec == Init /\ [][Next]_vars

-----------------------------------------------------------------------------
(* Types. *)
TypeOK ==
    /\ now \in Nat
    /\ tracked \subseteq Keys
    /\ hits \in [Keys -> Seq(Nat)]
    /\ answer \in [Keys -> [outcome : Outcomes, wait : Int, seconds : Int]]
    /\ admitted \in [Keys -> Seq(Nat)]

(* Any Limit + 1 consecutive times of a history span at least a Window. *)
Spaced(a) == \A i \in 1 .. Len(a) - Limit : a[i + Limit] - a[i] >= Window

(***************************************************************************)
(* The promise of the class: no Limit + 1 attempts of a key that the       *)
(* limiter counted were let through within one Window, wherever that       *)
(* window starts, and across the popping of hits, the eviction of stale    *)
(* buckets and the return of an evicted key.                               *)
(***************************************************************************)
SlidingWindow == \A k \in Keys : Spaced(admitted[k])

(* The memory bound: never more buckets than max_keys. *)
TableBounded == Cardinality(tracked) <= MaxKeys

(* A client is let through uncounted only when the table is full of        *)
(* buckets that are all still live, as _make_room says.                    *)
FailsOpenOnlyWhenFull ==
    \A k \in Keys : answer[k].outcome = "untracked" =>
       /\ Cardinality(tracked) = MaxKeys
       /\ \A j \in tracked :
             hits[j] # <<>> /\ hits[j][Len(hits[j])] > now - Window

(* Whether an attempt of k at `moment` would find its bucket full. *)
FullAt(k, moment) == Len(PopExpired(hits[k], moment - Window)) >= Limit

(* Retry-After tells the truth: k is still refused one tick before the     *)
(* wait it was given is over, and no longer refused when it is over.       *)
WaitIsExact ==
    \A k \in Keys : answer[k].outcome = "refused" =>
       /\ answer[k].wait \in 1 .. Window
       /\ FullAt(k, now + answer[k].wait - 1)
       /\ ~FullAt(k, now + answer[k].wait)

(* The header rounds up, by less than a second: a client that obeys it is  *)
(* never refused for coming back too early.                                *)
HeaderRoundsUp ==
    \A k \in Keys : answer[k].outcome = "refused" =>
       /\ answer[k].seconds * TicksPerSecond >= answer[k].wait
       /\ (answer[k].seconds - 1) * TicksPerSecond < answer[k].wait

-----------------------------------------------------------------------------
(* The inductive invariant behind SlidingWindow: a bucket is the recent    *)
(* end of what was admitted, and all it no longer holds has left the       *)
(* window.                                                                 *)

RecentEnd(a, h, cutoff) ==
    /\ Len(h) <= Limit
    /\ Len(h) <= Len(a)
    /\ \A i \in 1 .. Len(h) : h[i] = a[i + (Len(a) - Len(h))]
    /\ \A i \in 1 .. Len(a) - Len(h) : a[i] <= cutoff

OrderedUpTo(a, moment) ==
    /\ \A i, j \in 1 .. Len(a) : i <= j => a[i] <= a[j]
    /\ \A i \in 1 .. Len(a) : a[i] <= moment

WindowInv ==
    \A k \in Keys :
       /\ RecentEnd(admitted[k], hits[k], now - Window)
       /\ OrderedUpTo(admitted[k], now)
       /\ Spaced(admitted[k])
       /\ k \notin tracked => hits[k] = <<>>

(* What a refusal leaves behind, until the clock moves on. *)
RefusalInv ==
    \A k \in Keys : answer[k].outcome = "refused" =>
       /\ Len(hits[k]) = Limit
       /\ hits[k][1] > now - Window
       /\ answer[k].wait = hits[k][1] + Window - now
       /\ answer[k].seconds = RetryAfterHeader(answer[k].wait)
=============================================================================
