-------------------------- MODULE RateLimiterProofs --------------------------
(***************************************************************************)
(* What RateLimiter's runs check on small numbers, proved for every set of *)
(* keys, limit, window, table size and clock resolution.                   *)
(***************************************************************************)
EXTENDS RateLimiter, TLAPS, WellFoundedInduction, FiniteSetTheorems

-----------------------------------------------------------------------------
(* Deques. *)

(* A nonempty set of naturals has a least element. *)
LEMMA LeastNatural ==
    ASSUME NEW S \in SUBSET Nat, S # {}
    PROVE  \E n \in S : \A m \in S : n <= m
<1>1. IsWellFoundedOn(OpToRel(<, Nat), Nat)
  BY NatLessThanWellFounded
<1>2. PICK n \in S : \A m \in S : <<m, n>> \notin OpToRel(<, Nat)
  BY <1>1, WFMin
<1>3. \A m \in S : ~ (m < n)
  BY <1>2 DEF OpToRel
<1> QED
  BY <1>3

(* Expired is what its CHOOSE asks for: the popleft loop stops, either on  *)
(* an empty deque or at the first hit inside the window.                   *)
LEMMA ExpiredIsPrefix ==
    ASSUME NEW h \in Seq(Nat), NEW cutoff \in Int
    PROVE  /\ Expired(h, cutoff) \in 0 .. Len(h)
           /\ \A i \in 1 .. Expired(h, cutoff) : h[i] <= cutoff
           /\ \/ Expired(h, cutoff) = Len(h)
              \/ h[Expired(h, cutoff) + 1] > cutoff
<1> DEFINE Ends == {n \in 0 .. Len(h) : n = Len(h) \/ h[n + 1] > cutoff}
<1>1. Len(h) \in Ends /\ Ends \in SUBSET Nat
  OBVIOUS
<1>2. PICK n \in Ends : \A m \in Ends : n <= m
  <2> HIDE DEF Ends
  <2> QED BY <1>1, LeastNatural
<1>3. \A i \in 1 .. n : h[i] <= cutoff
  <2> SUFFICES ASSUME NEW i \in 1 .. n, h[i] > cutoff PROVE FALSE
    BY DEF Ends
  <2>1. i - 1 \in Ends
    BY n \in Ends
  <2>2. n <= i - 1
    BY <1>2, <2>1
  <2>3. n \in Nat /\ i \in Int /\ i <= n
    BY n \in Ends
  <2> QED
    BY <2>2, <2>3 DEF RecentEnd, OrderedUpTo
<1>4. \E k \in 0 .. Len(h) : /\ \A i \in 1 .. k : h[i] <= cutoff
                             /\ k = Len(h) \/ h[k + 1] > cutoff
  BY <1>2, <1>3
<1> QED
  BY <1>4 DEF Expired

(* What popping leaves: the end of the deque, whose head is in the window. *)
LEMMA PopExpiredKeepsEnd ==
    ASSUME NEW h \in Seq(Nat), NEW cutoff \in Int
    PROVE  /\ PopExpired(h, cutoff) \in Seq(Nat)
           /\ Len(PopExpired(h, cutoff)) = Len(h) - Expired(h, cutoff)
           /\ \A i \in 1 .. Len(PopExpired(h, cutoff)) :
                 PopExpired(h, cutoff)[i] = h[i + Expired(h, cutoff)]
           /\ Len(PopExpired(h, cutoff)) > 0 => PopExpired(h, cutoff)[1] > cutoff
<1> DEFINE e == Expired(h, cutoff)
<1>1. /\ e \in 0 .. Len(h)
      /\ e = Len(h) \/ h[e + 1] > cutoff
  BY ExpiredIsPrefix
<1> HIDE DEF e
<1>2. SubSeq(h, e + 1, Len(h)) \in Seq(Nat)
  BY <1>1
<1>3. Len(SubSeq(h, e + 1, Len(h))) = Len(h) - e
  BY <1>1
<1>4. \A i \in 1 .. Len(h) - e : SubSeq(h, e + 1, Len(h))[i] = h[i + e]
  BY <1>1
<1> QED
  BY <1>1, <1>2, <1>3, <1>4, SMTT(30) DEF PopExpired, e

-----------------------------------------------------------------------------
(* How each thing that happens to a bucket keeps it the recent end of the  *)
(* history of its key.                                                     *)

(* Popping. *)
LEMMA PopKeepsRecentEnd ==
    ASSUME NEW a \in Seq(Nat), NEW h \in Seq(Nat), NEW cutoff \in Int,
           RecentEnd(a, h, cutoff)
    PROVE  RecentEnd(a, PopExpired(h, cutoff), cutoff)
<1> DEFINE e == Expired(h, cutoff)
           b == PopExpired(h, cutoff)
<1>1. /\ e \in 0 .. Len(h)
      /\ \A i \in 1 .. e : h[i] <= cutoff
  BY ExpiredIsPrefix
<1>2. /\ b \in Seq(Nat)
      /\ Len(b) = Len(h) - e
      /\ \A i \in 1 .. Len(b) : b[i] = h[i + e]
  BY PopExpiredKeepsEnd
<1> HIDE DEF e, b
<1>3. Len(b) <= Limit /\ Len(b) <= Len(a)
  BY <1>1, <1>2, LimiterAssumption DEF RecentEnd
<1>4. \A i \in 1 .. Len(b) : b[i] = a[i + (Len(a) - Len(b))]
  BY <1>1, <1>2, SMTT(30) DEF RecentEnd
<1>5. \A i \in 1 .. Len(a) - Len(b) : a[i] <= cutoff
  <2> SUFFICES ASSUME NEW i \in 1 .. Len(a) - Len(b) PROVE a[i] <= cutoff
    OBVIOUS
  <2>1. CASE i <= Len(a) - Len(h)
    BY <2>1, <1>2 DEF RecentEnd
  <2>2. CASE i > Len(a) - Len(h)
    <3> DEFINE j == i - (Len(a) - Len(h))
    <3>1. j \in 1 .. e
      BY <1>1, <1>2, <2>2
    <3>2. h[j] = a[i]
      BY <1>1, <3>1 DEF RecentEnd
    <3> QED
      BY <1>1, <3>1, <3>2
  <2> QED
    BY <2>1, <2>2
<1> QED
  BY <1>3, <1>4, <1>5 DEF RecentEnd, b

(* Eviction by _make_room: a stale bucket held nothing recent. *)
LEMMA EvictionKeepsRecentEnd ==
    ASSUME NEW a \in Seq(Nat), NEW h \in Seq(Nat), NEW cutoff \in Int,
           NEW moment \in Int,
           RecentEnd(a, h, cutoff), OrderedUpTo(a, moment),
           h = <<>> \/ h[Len(h)] <= cutoff
    PROVE  RecentEnd(a, <<>>, cutoff)
<1>1. CASE h = <<>>
  BY <1>1
<1>2. CASE h # <<>> /\ h[Len(h)] <= cutoff
  <2>1. Len(h) \in 1 .. Len(h) /\ Len(h) <= Len(a)
    BY <1>2 DEF RecentEnd
  <2>2. a[Len(a)] <= cutoff
    <3>1. h[Len(h)] = a[Len(h) + (Len(a) - Len(h))]
      BY <2>1 DEF RecentEnd
    <3>2. Len(h) + (Len(a) - Len(h)) = Len(a)
      OBVIOUS
    <3> QED
      BY <1>2, <3>1, <3>2
  <2>3. \A i \in 1 .. Len(a) : a[i] <= a[Len(a)] /\ a[i] \in Nat /\ a[Len(a)] \in Nat
    BY <2>1 DEF OrderedUpTo
  <2>4. \A i \in 1 .. Len(a) : a[i] <= cutoff
    BY <2>2, <2>3
  <2> QED
    BY <2>4, LimiterAssumption DEF RecentEnd
<1> QED
  BY <1>1, <1>2

(* Admission: with room in the bucket, the attempt Limit places before the *)
(* new one is no longer in it, hence out of the window.                    *)
LEMMA AdmissionKeepsSpacing ==
    ASSUME NEW a \in Seq(Nat), NEW h \in Seq(Nat), NEW moment \in Nat,
           RecentEnd(a, h, moment - Window), OrderedUpTo(a, moment), Spaced(a),
           Len(h) < Limit
    PROVE  /\ RecentEnd(Append(a, moment), Append(h, moment), moment - Window)
           /\ OrderedUpTo(Append(a, moment), moment)
           /\ Spaced(Append(a, moment))
<1> DEFINE aa == Append(a, moment)
           hh == Append(h, moment)
<1>1. /\ aa \in Seq(Nat) /\ hh \in Seq(Nat)
      /\ Len(aa) = Len(a) + 1 /\ Len(hh) = Len(h) + 1
      /\ \A i \in 1 .. Len(a) : aa[i] = a[i]
      /\ \A i \in 1 .. Len(h) : hh[i] = h[i]
      /\ aa[Len(a) + 1] = moment /\ hh[Len(h) + 1] = moment
  OBVIOUS
<1> HIDE DEF aa, hh
<1>2. RecentEnd(aa, hh, moment - Window)
  <2>1. Len(hh) <= Limit /\ Len(hh) <= Len(aa)
    BY <1>1, LimiterAssumption DEF RecentEnd
  <2>2. \A i \in 1 .. Len(hh) : hh[i] = aa[i + (Len(aa) - Len(hh))]
    <3> SUFFICES ASSUME NEW i \in 1 .. Len(hh)
                 PROVE  hh[i] = aa[i + (Len(aa) - Len(hh))]
      OBVIOUS
    <3>1. CASE i = Len(h) + 1
      BY <1>1, <3>1
    <3>2. CASE i \in 1 .. Len(h)
      <4>1. /\ i + (Len(a) - Len(h)) \in 1 .. Len(a)
            /\ Len(aa) - Len(hh) = Len(a) - Len(h)
        BY <1>1, <3>2 DEF RecentEnd
      <4>2. hh[i] = h[i] /\ h[i] = a[i + (Len(a) - Len(h))]
        BY <1>1, <3>2 DEF RecentEnd
      <4>3. aa[i + (Len(a) - Len(h))] = a[i + (Len(a) - Len(h))]
        BY <1>1, <4>1
      <4> QED
        BY <4>1, <4>2, <4>3
    <3> QED
      BY <1>1, <3>1, <3>2
  <2>3. \A i \in 1 .. Len(aa) - Len(hh) : aa[i] <= moment - Window
    <3> SUFFICES ASSUME NEW i \in 1 .. Len(a) - Len(h)
                 PROVE  aa[i] <= moment - Window
      BY <1>1
    <3>1. i \in 1 .. Len(a)
      OBVIOUS
    <3> QED
      BY <1>1, <3>1 DEF RecentEnd
  <2> QED
    BY <2>1, <2>2, <2>3 DEF RecentEnd
<1>3. OrderedUpTo(aa, moment)
  <2>1. \A i \in 1 .. Len(aa) : i \in 1 .. Len(a) \/ i = Len(a) + 1
    BY <1>1
  <2>2. \A i \in 1 .. Len(aa) : aa[i] <= moment
    <3> SUFFICES ASSUME NEW i \in 1 .. Len(aa) PROVE aa[i] <= moment
      OBVIOUS
    <3>1. CASE i \in 1 .. Len(a)
      BY <1>1, <3>1 DEF OrderedUpTo
    <3>2. CASE i = Len(a) + 1
      BY <1>1, <3>2
    <3> QED
      BY <2>1, <3>1, <3>2
  <2>3. \A i, j \in 1 .. Len(aa) : i <= j => aa[i] <= aa[j]
    <3> SUFFICES ASSUME NEW i \in 1 .. Len(aa), NEW j \in 1 .. Len(aa), i <= j
                 PROVE  aa[i] <= aa[j]
      OBVIOUS
    <3>1. CASE j = Len(a) + 1
      BY <1>1, <2>2, <3>1
    <3>2. CASE j \in 1 .. Len(a)
      <4>1. i \in 1 .. Len(a)
        BY <3>2
      <4> QED
        BY <1>1, <3>2, <4>1 DEF OrderedUpTo
    <3> QED
      BY <2>1, <3>1, <3>2
  <2> QED
    BY <2>2, <2>3 DEF OrderedUpTo
<1>4. Spaced(aa)
  <2> SUFFICES ASSUME NEW i \in 1 .. Len(aa) - Limit
               PROVE  aa[i + Limit] - aa[i] >= Window
    BY DEF Spaced
  <2>0. Limit \in Nat /\ Limit >= 1 /\ Window \in Nat /\ i \in Nat /\ i >= 1
    BY <1>1, LimiterAssumption
  <2>1. CASE i + Limit <= Len(a)
    <3>1. i \in 1 .. Len(a) - Limit /\ i \in 1 .. Len(a) /\ i + Limit \in 1 .. Len(a)
      BY <2>0, <2>1
    <3> QED
      BY <1>1, <3>1 DEF Spaced
  <2>2. CASE i + Limit = Len(a) + 1
    <3>1. i \in 1 .. Len(a) - Len(h) /\ i \in 1 .. Len(a)
      BY <2>0, <2>2 DEF RecentEnd
    <3>2. a[i] <= moment - Window /\ a[i] \in Nat
      BY <3>1 DEF RecentEnd
    <3>3. aa[i] = a[i] /\ aa[i + Limit] = moment
      BY <1>1, <2>2, <3>1
    <3> QED
      BY <2>0, <3>2, <3>3
  <2>3. i + Limit <= Len(a) \/ i + Limit = Len(a) + 1
    <3>1. Len(a) \in Nat /\ i <= Len(a) + 1 - Limit
      BY <1>1, <2>0
    <3>2. i + Limit <= Len(a) + 1
      BY <2>0, <3>1
    <3> QED
      BY <2>0, <3>1, <3>2, SMTT(20)
  <2> QED
    BY <2>1, <2>2, <2>3
<1> QED
  BY <1>2, <1>3, <1>4 DEF aa, hh

(* The clock moving on. *)
LEMMA TickKeepsRecentEnd ==
    ASSUME NEW a \in Seq(Nat), NEW h \in Seq(Nat), NEW moment \in Nat,
           RecentEnd(a, h, moment - Window), OrderedUpTo(a, moment)
    PROVE  /\ RecentEnd(a, h, moment + 1 - Window)
           /\ OrderedUpTo(a, moment + 1)
<1>1. \A i \in 1 .. Len(a) : a[i] \in Nat
  OBVIOUS
<1>2. \A i \in 1 .. Len(a) - Len(h) :
         a[i] <= moment - Window => a[i] <= moment + 1 - Window
  BY <1>1, LimiterAssumption
<1> QED
  BY <1>1, <1>2 DEF RecentEnd, OrderedUpTo

-----------------------------------------------------------------------------
(* Type correctness. *)

(* A wait, its header and the answers made of them are integers. *)
LEMMA ReplyType ==
    ASSUME TypeOK, NEW k \in Keys, NEW outcome \in Outcomes,
           NEW wait \in Int, NEW seconds \in Int, Reply(k, outcome, wait, seconds)
    PROVE  answer' \in [Keys -> [outcome : Outcomes, wait : Int, seconds : Int]]
  BY DEF TypeOK, Reply

(* The header of a wait of ticks is a natural number of seconds. *)
LEMMA HeaderType ==
    ASSUME NEW wait \in Int
    PROVE  RetryAfterHeader(wait) \in Int
  BY LimiterAssumption DEF RetryAfterHeader, CeilSeconds

(* The common end of KnownKey and NewKey. *)
LEMMA DecideType ==
    ASSUME TypeOK, NEW k \in Keys, NEW table \in SUBSET tracked,
           NEW bucket \in Seq(Nat), Decide(k, table, bucket), UNCHANGED now
    PROVE  TypeOK'
<1> USE LimiterAssumption
<1>1. now' \in Nat /\ tracked' \in SUBSET Keys
  BY DEF TypeOK, Decide
<1>2. HitsOf(table) \in [Keys -> Seq(Nat)]
  BY DEF TypeOK, HitsOf
<1>3. CASE Len(bucket) >= Limit
  <2>1. hits' = [HitsOf(table) EXCEPT ![k] = bucket] /\ UNCHANGED admitted
    BY <1>3 DEF Decide
  <2>2. bucket[1] + Window - now \in Int
    BY <1>3 DEF TypeOK
  <2>3. Reply(k, "refused", bucket[1] + Window - now,
              RetryAfterHeader(bucket[1] + Window - now))
    BY <1>3 DEF Decide
  <2>4. answer' \in [Keys -> [outcome : Outcomes, wait : Int, seconds : Int]]
    BY <2>2, <2>3, HeaderType, ReplyType DEF Outcomes
  <2> QED
    BY <1>1, <1>2, <2>1, <2>4 DEF TypeOK
<1>4. CASE Len(bucket) < Limit
  <2>1. /\ hits' = [HitsOf(table) EXCEPT ![k] = Append(bucket, now)]
        /\ admitted' = [admitted EXCEPT ![k] = Append(@, now)]
        /\ Reply(k, "admitted", 0, 0)
    BY <1>4 DEF Decide
  <2>2. answer' \in [Keys -> [outcome : Outcomes, wait : Int, seconds : Int]]
    BY <2>1, ReplyType DEF Outcomes
  <2>3. Append(bucket, now) \in Seq(Nat) /\ Append(admitted[k], now) \in Seq(Nat)
    BY DEF TypeOK
  <2> QED
    BY <1>1, <1>2, <2>1, <2>2, <2>3 DEF TypeOK
<1> QED
  BY <1>3, <1>4

(* Making room only ever removes buckets. *)
LEMMA RoomMadeIsSubset == ASSUME NEW c PROVE RoomMade(c) \in SUBSET tracked
  BY DEF RoomMade

(* Every step of the limiter preserves its types. *)
LEMMA TypeStep == TypeOK /\ [Next]_vars => TypeOK'
<1> SUFFICES ASSUME TypeOK, [Next]_vars PROVE TypeOK'
  OBVIOUS
<1> USE LimiterAssumption
<1>1. CASE Tick
  BY <1>1 DEF Tick, TypeOK, NoAnswer, Outcomes
<1>2. CASE Clear
  BY <1>2 DEF Clear, TypeOK, NoAnswer, Outcomes
<1>3. ASSUME NEW k \in Keys, KnownKey(k) PROVE TypeOK'
  <2>1. PopExpired(hits[k], now - Window) \in Seq(Nat)
    BY PopExpiredKeepsEnd DEF TypeOK
  <2> QED
    BY <1>3, <2>1, DecideType DEF KnownKey
<1>4. ASSUME NEW k \in Keys, NewKey(k) PROVE TypeOK'
  <2>1. <<>> \in Seq(Nat)
    OBVIOUS
  <2> QED
    BY <1>4, <2>1, RoomMadeIsSubset, DecideType DEF NewKey
<1>5. ASSUME NEW k \in Keys, NoRoom(k) PROVE TypeOK'
  <2>1. answer' \in [Keys -> [outcome : Outcomes, wait : Int, seconds : Int]]
    BY <1>5, ReplyType DEF NoRoom, Outcomes
  <2>2. tracked' \in SUBSET Keys /\ hits' \in [Keys -> Seq(Nat)]
    BY <1>5, RoomMadeIsSubset DEF NoRoom, HitsOf, TypeOK
  <2> QED
    BY <1>5, <2>1, <2>2 DEF NoRoom, TypeOK
<1>6. CASE UNCHANGED vars
  BY <1>6 DEF vars, TypeOK
<1> QED
  BY <1>1, <1>2, <1>3, <1>4, <1>5, <1>6 DEF Next, RetryAfter

(* Every reachable state of the limiter is well typed. *)
THEOREM TypeCorrect == Spec => []TypeOK
<1>1. Init => TypeOK
  BY DEF Init, TypeOK, NoAnswer, Outcomes
<1> QED
  BY <1>1, TypeStep, PTL DEF Spec

-----------------------------------------------------------------------------
(* The sliding window. *)

KeyInv(k) == /\ RecentEnd(admitted[k], hits[k], now - Window)
             /\ OrderedUpTo(admitted[k], now)
             /\ Spaced(admitted[k])
             /\ k \notin tracked => hits[k] = <<>>

(* The buckets of a table that _make_room may have trimmed. *)
LEMMA TrimmedTable ==
    ASSUME TypeOK, WindowInv, NEW k \in Keys,
           NEW table, table = tracked \/ table = RoomMade(now - Window)
    PROVE  RecentEnd(admitted[k], HitsOf(table)[k], now - Window)
<1>1. admitted[k] \in Seq(Nat) /\ hits[k] \in Seq(Nat) /\ now - Window \in Int /\ now \in Int
  BY LimiterAssumption DEF TypeOK
<1>2. /\ RecentEnd(admitted[k], hits[k], now - Window)
      /\ OrderedUpTo(admitted[k], now)
      /\ k \notin tracked => hits[k] = <<>>
  BY DEF WindowInv
<1>3. CASE k \in table
  BY <1>2, <1>3 DEF HitsOf
<1>4. CASE k \notin table
  <2>1. HitsOf(table)[k] = <<>>
    BY <1>4 DEF HitsOf
  <2>2. hits[k] = <<>> \/ hits[k][Len(hits[k])] <= now - Window
    BY <1>2, <1>4 DEF RoomMade, Stale
  <2> QED
    BY <1>1, <1>2, <2>1, <2>2, EvictionKeepsRecentEnd
<1> QED
  BY <1>3, <1>4

(* Deciding an attempt keeps buckets the recent ends of the histories. *)
LEMMA DecideKeepsWindow ==
    ASSUME TypeOK, WindowInv, NEW k \in Keys,
           NEW table, table = tracked \/ table = RoomMade(now - Window),
           NEW bucket \in Seq(Nat),
           RecentEnd(admitted[k], bucket, now - Window),
           Decide(k, table, bucket), UNCHANGED now
    PROVE  WindowInv'
<1> SUFFICES ASSUME NEW j \in Keys PROVE KeyInv(j)'
  BY DEF WindowInv, KeyInv
<1>1. /\ OrderedUpTo(admitted[j], now)
      /\ Spaced(admitted[j])
      /\ admitted[k] \in Seq(Nat) /\ now \in Nat /\ hits \in [Keys -> Seq(Nat)]
      /\ admitted \in [Keys -> Seq(Nat)]
      /\ Limit \in Nat
  BY LimiterAssumption DEF WindowInv, TypeOK
<1>2. HitsOf(table) \in [Keys -> Seq(Nat)] /\ tracked' = table \cup {k}
  BY <1>1 DEF HitsOf, Decide
<1>3. CASE j # k
  <2>1. hits'[j] = HitsOf(table)[j] /\ admitted'[j] = admitted[j]
    BY <1>1, <1>2, <1>3 DEF Decide
  <2>2. j \notin tracked' => HitsOf(table)[j] = <<>>
    BY <1>2, <1>3 DEF HitsOf
  <2> QED
    BY <1>1, <2>1, <2>2, TrimmedTable DEF KeyInv
<1>4. CASE j = k
  <2>1. CASE Len(bucket) >= Limit
    <3>1. hits'[k] = bucket /\ admitted' = admitted
      BY <1>1, <1>2, <2>1 DEF Decide
    <3> QED
      BY <1>1, <1>2, <1>4, <3>1 DEF KeyInv
  <2>2. CASE Len(bucket) < Limit
    <3>1. /\ hits'[k] = Append(bucket, now)
          /\ admitted'[k] = Append(admitted[k], now)
      BY <1>1, <1>2, <2>2 DEF Decide
    <3>2. /\ RecentEnd(Append(admitted[k], now), Append(bucket, now), now - Window)
          /\ OrderedUpTo(Append(admitted[k], now), now)
          /\ Spaced(Append(admitted[k], now))
      BY <1>1, <1>4, <2>2, AdmissionKeepsSpacing
    <3> QED
      BY <1>2, <1>4, <3>1, <3>2 DEF KeyInv
  <2>3. Len(bucket) \in Nat
    OBVIOUS
  <2> QED
    BY <1>1, <2>1, <2>2, <2>3
<1> QED
  BY <1>3, <1>4

(* Every step keeps buckets the recent ends of the histories. *)
LEMMA WindowStep == TypeOK /\ WindowInv /\ [Next]_vars => WindowInv'
<1> SUFFICES ASSUME TypeOK, WindowInv, [Next]_vars PROVE WindowInv'
  OBVIOUS
<1>1. CASE Tick
  <2> SUFFICES ASSUME NEW k \in Keys PROVE KeyInv(k)'
    BY DEF WindowInv, KeyInv
  <2>1. admitted[k] \in Seq(Nat) /\ hits[k] \in Seq(Nat) /\ now \in Nat
    BY DEF TypeOK
  <2>2. /\ RecentEnd(admitted[k], hits[k], now + 1 - Window)
        /\ OrderedUpTo(admitted[k], now + 1)
    BY <2>1, TickKeepsRecentEnd DEF WindowInv
  <2>3. now' = now + 1 /\ hits' = hits /\ admitted' = admitted /\ tracked' = tracked
    BY <1>1 DEF Tick
  <2>4. now' - Window = now + 1 - Window
    BY <2>1, <2>3, LimiterAssumption
  <2>5. RecentEnd(admitted'[k], hits'[k], now' - Window)
    BY <2>2, <2>3, <2>4
  <2>6. OrderedUpTo(admitted'[k], now')
    BY <2>2, <2>3
  <2>7. Spaced(admitted'[k]) /\ (k \notin tracked' => hits'[k] = <<>>)
    BY <2>3 DEF WindowInv
  <2> QED
    BY <2>5, <2>6, <2>7 DEF KeyInv
<1>2. CASE Clear
  BY <1>2, LimiterAssumption DEF Clear, WindowInv, RecentEnd, OrderedUpTo, Spaced
<1>3. ASSUME NEW k \in Keys, KnownKey(k) PROVE WindowInv'
  <2>1. /\ hits[k] \in Seq(Nat) /\ admitted[k] \in Seq(Nat)
        /\ now - Window \in Int
    BY LimiterAssumption DEF TypeOK
  <2>2. PopExpired(hits[k], now - Window) \in Seq(Nat)
    BY <2>1, PopExpiredKeepsEnd
  <2>3. RecentEnd(admitted[k], PopExpired(hits[k], now - Window), now - Window)
    BY <2>1, PopKeepsRecentEnd DEF WindowInv
  <2> QED
    BY <1>3, <2>2, <2>3, DecideKeepsWindow DEF KnownKey
<1>4. ASSUME NEW k \in Keys, NewKey(k) PROVE WindowInv'
  <2>1. hits[k] = <<>>
    BY <1>4 DEF NewKey, WindowInv
  <2>2. RecentEnd(admitted[k], <<>>, now - Window) /\ <<>> \in Seq(Nat)
    BY <2>1 DEF WindowInv
  <2> QED
    BY <1>4, <2>2, DecideKeepsWindow DEF NewKey
<1>5. ASSUME NEW k \in Keys, NoRoom(k) PROVE WindowInv'
  <2> SUFFICES ASSUME NEW j \in Keys PROVE KeyInv(j)'
    BY DEF WindowInv, KeyInv
  <2>1. RecentEnd(admitted[j], HitsOf(RoomMade(now - Window))[j], now - Window)
    BY TrimmedTable
  <2>2. j \notin RoomMade(now - Window) => HitsOf(RoomMade(now - Window))[j] = <<>>
    BY DEF HitsOf
  <2> QED
    BY <1>5, <2>1, <2>2 DEF NoRoom, KeyInv, WindowInv
<1>6. CASE UNCHANGED vars
  BY <1>6 DEF vars, WindowInv, RecentEnd, OrderedUpTo, Spaced
<1> QED
  BY <1>1, <1>2, <1>3, <1>4, <1>5, <1>6 DEF Next, RetryAfter

(* The empty table holds the recent ends of empty histories. *)
LEMMA WindowInit == Init => WindowInv
  BY LimiterAssumption DEF Init, WindowInv, RecentEnd, OrderedUpTo, Spaced

(* The buckets always are the recent ends of the histories. *)
THEOREM BucketsAreRecent == Spec => []WindowInv
<1>1. Init => WindowInv
  BY WindowInit
<1>2. TypeOK /\ WindowInv /\ [Next]_vars => WindowInv'
  BY WindowStep
<1> QED
  BY <1>1, <1>2, TypeCorrect, PTL DEF Spec

(* The promise of SlidingWindowLimiter: whatever its limit, its window,    *)
(* the size of its table and the keys that compete for it, no Limit + 1    *)
(* counted attempts of a key get through within one window.                *)
THEOREM WindowIsKept == Spec => []SlidingWindow
<1>1. WindowInv => SlidingWindow
  BY DEF WindowInv, SlidingWindow
<1> QED
  BY <1>1, BucketsAreRecent, PTL

-----------------------------------------------------------------------------
(* The memory bound. *)

FiniteTable == IsFiniteSet(tracked) /\ Cardinality(tracked) <= MaxKeys

(* After _make_room the table has a place for the new bucket, or is full. *)
LEMMA RoomMadeBounded ==
    ASSUME FiniteTable, NEW c
    PROVE  /\ IsFiniteSet(RoomMade(c))
           /\ Cardinality(RoomMade(c)) \in Nat
           /\ Cardinality(RoomMade(c)) <= MaxKeys
<1>1. RoomMade(c) \in SUBSET tracked
  BY RoomMadeIsSubset
<1>2. IsFiniteSet(RoomMade(c)) /\ Cardinality(RoomMade(c)) <= Cardinality(tracked)
  BY <1>1, FS_Subset DEF FiniteTable
<1>3. Cardinality(RoomMade(c)) \in Nat /\ Cardinality(tracked) \in Nat
  BY <1>2, FS_CardinalityType DEF FiniteTable
<1> QED
  BY <1>2, <1>3, LimiterAssumption DEF FiniteTable

(* No step takes the table over max_keys. *)
LEMMA TableStep == FiniteTable /\ [Next]_vars => FiniteTable'
<1> SUFFICES ASSUME FiniteTable, [Next]_vars PROVE FiniteTable'
  OBVIOUS
<1>1. CASE Tick
  BY <1>1 DEF Tick, FiniteTable
<1>2. CASE Clear
  BY <1>2, FS_EmptySet, LimiterAssumption DEF Clear, FiniteTable
<1>3. ASSUME NEW k \in Keys, KnownKey(k) PROVE FiniteTable'
  <2>1. tracked' = tracked
    BY <1>3 DEF KnownKey, Decide
  <2> QED
    BY <2>1 DEF FiniteTable
<1>4. ASSUME NEW k \in Keys, NewKey(k) PROVE FiniteTable'
  <2> DEFINE table == RoomMade(now - Window)
  <2>1. tracked' = table \cup {k} /\ Cardinality(table) < MaxKeys
    BY <1>4 DEF NewKey, Decide
  <2>2. IsFiniteSet(table) /\ Cardinality(table) \in Nat
    BY RoomMadeBounded
  <2> HIDE DEF table
  <2>3. /\ IsFiniteSet(table \cup {k})
        /\ Cardinality(table \cup {k}) =
              IF k \in table THEN Cardinality(table) ELSE Cardinality(table) + 1
    BY <2>2, FS_AddElement
  <2>4. Cardinality(table \cup {k}) \in Nat
    BY <2>3, FS_CardinalityType
  <2> QED
    BY <2>1, <2>2, <2>3, <2>4, LimiterAssumption DEF FiniteTable
<1>5. ASSUME NEW k \in Keys, NoRoom(k) PROVE FiniteTable'
  BY <1>5, RoomMadeBounded DEF NoRoom, FiniteTable
<1>6. CASE UNCHANGED vars
  BY <1>6 DEF vars, FiniteTable
<1> QED
  BY <1>1, <1>2, <1>3, <1>4, <1>5, <1>6 DEF Next, RetryAfter

(* However many addresses come, the table keeps at most MaxKeys buckets. *)
THEOREM TableIsBounded == Spec => []TableBounded
<1>1. Init => FiniteTable
  BY FS_EmptySet, LimiterAssumption DEF Init, FiniteTable
<1>2. FiniteTable => TableBounded
  BY DEF FiniteTable, TableBounded
<1> QED
  BY <1>1, <1>2, TableStep, PTL DEF Spec

-----------------------------------------------------------------------------
(* Retry-After. *)

(* What a refused key's bucket says about later moments. *)
LEMMA RefusedBucket ==
    ASSUME NEW h \in Seq(Nat), Len(h) = Limit,
           \A i, j \in 1 .. Len(h) : i <= j => h[i] <= h[j]
    PROVE  /\ Len(PopExpired(h, h[1] - 1)) >= Limit
           /\ ~ (Len(PopExpired(h, h[1])) >= Limit)
<1>1. /\ Limit \in Nat /\ Limit >= 1 /\ 1 \in 1 .. Len(h)
      /\ h[1] \in Nat /\ h[1] \in Int /\ h[1] - 1 \in Int
  BY LimiterAssumption
<1>2. Expired(h, h[1] - 1) = 0
  <2>1. /\ Expired(h, h[1] - 1) \in 0 .. Len(h)
        /\ \A i \in 1 .. Expired(h, h[1] - 1) : h[i] <= h[1] - 1
    BY <1>1, ExpiredIsPrefix
  <2>2. ~ (1 \in 1 .. Expired(h, h[1] - 1))
    BY <1>1, <2>1
  <2> QED
    BY <2>1, <2>2
<1>3. Expired(h, h[1]) # 0
  <2>1. Expired(h, h[1]) = Len(h) \/ h[Expired(h, h[1]) + 1] > h[1]
    BY <1>1, ExpiredIsPrefix
  <2> QED
    BY <1>1, <2>1
<1>4. /\ Len(PopExpired(h, h[1] - 1)) = Len(h) - Expired(h, h[1] - 1)
      /\ Len(PopExpired(h, h[1])) = Len(h) - Expired(h, h[1])
      /\ Expired(h, h[1]) \in 0 .. Len(h)
  BY <1>1, PopExpiredKeepsEnd, ExpiredIsPrefix
<1> QED
  BY <1>1, <1>2, <1>3, <1>4

(* A bucket is ordered, as the recent end of an ordered history. *)
LEMMA BucketOrdered ==
    ASSUME TypeOK, WindowInv, NEW k \in Keys
    PROVE  /\ \A i, j \in 1 .. Len(hits[k]) : i <= j => hits[k][i] <= hits[k][j]
           /\ \A i \in 1 .. Len(hits[k]) : hits[k][i] <= now
<1> DEFINE a == admitted[k]
           h == hits[k]
           d == Len(a) - Len(h)
<1>1. /\ a \in Seq(Nat) /\ h \in Seq(Nat)
      /\ RecentEnd(a, h, now - Window) /\ OrderedUpTo(a, now)
  BY DEF TypeOK, WindowInv
<1> HIDE DEF a, h
<1>2. d \in Nat /\ \A i \in 1 .. Len(h) : i + d \in 1 .. Len(a) /\ h[i] = a[i + d]
  BY <1>1 DEF RecentEnd
<1>3. \A i, j \in 1 .. Len(h) : i <= j => h[i] <= h[j]
  <2> SUFFICES ASSUME NEW i \in 1 .. Len(h), NEW j \in 1 .. Len(h), i <= j
               PROVE  h[i] <= h[j]
    OBVIOUS
  <2>1. i + d \in 1 .. Len(a) /\ j + d \in 1 .. Len(a) /\ i + d <= j + d
    BY <1>2
  <2> HIDE DEF d
  <2>2. a[i + d] <= a[j + d]
    BY <1>1, <2>1 DEF OrderedUpTo
  <2> QED
    BY <1>2, <2>2
<1>4. \A i \in 1 .. Len(h) : h[i] <= now
  BY <1>1, <1>2 DEF OrderedUpTo
<1> QED
  BY <1>3, <1>4 DEF a, h

(* The refusal just given is in RefusalInv's terms. *)
LEMMA DecideRefusal ==
    ASSUME TypeOK, NEW k \in Keys, NEW table, NEW bucket \in Seq(Nat),
           Len(bucket) <= Limit,
           Len(bucket) > 0 => bucket[1] > now - Window,
           Decide(k, table, bucket), UNCHANGED now,
           answer'[k].outcome = "refused"
    PROVE  /\ hits'[k] = bucket
           /\ Len(bucket) = Limit
           /\ bucket[1] > now - Window
           /\ answer'[k].wait = bucket[1] + Window - now
           /\ answer'[k].seconds = RetryAfterHeader(answer'[k].wait)
<1>1. /\ answer \in [Keys -> [outcome : Outcomes, wait : Int, seconds : Int]]
      /\ Limit \in Nat /\ Limit >= 1 /\ Len(bucket) \in Nat
  BY LimiterAssumption DEF TypeOK
<1>2. CASE Len(bucket) < Limit
  <2>1. Reply(k, "admitted", 0, 0)
    BY <1>1, <1>2 DEF Decide
  <2> QED
    BY <1>1, <2>1 DEF Reply
<1>3. CASE Len(bucket) >= Limit
  <2>1. /\ hits' = [HitsOf(table) EXCEPT ![k] = bucket]
        /\ Reply(k, "refused", bucket[1] + Window - now,
                 RetryAfterHeader(bucket[1] + Window - now))
    BY <1>1, <1>3 DEF Decide
  <2>2. hits'[k] = bucket
    BY <2>1 DEF HitsOf
  <2>3. /\ answer'[k].wait = bucket[1] + Window - now
        /\ answer'[k].seconds = RetryAfterHeader(bucket[1] + Window - now)
    BY <1>1, <2>1 DEF Reply
  <2> QED
    BY <1>1, <1>3, <2>2, <2>3
<1> QED
  BY <1>1, <1>2, <1>3

RefusedAs(k) ==
    /\ Len(hits[k]) = Limit
    /\ hits[k][1] > now - Window
    /\ answer[k].wait = hits[k][1] + Window - now
    /\ answer[k].seconds = RetryAfterHeader(answer[k].wait)

(* A bucket full of live hits is not stale. *)
LEMMA RefusedIsLive ==
    ASSUME TypeOK, WindowInv, NEW j \in Keys, RefusedAs(j)
    PROVE  j \in tracked /\ j \in RoomMade(now - Window)
<1>1. /\ hits[j] \in Seq(Nat) /\ Limit \in Nat /\ Limit >= 1
      /\ now \in Nat /\ Window \in Nat /\ Len(hits[j]) = Limit
  BY LimiterAssumption DEF TypeOK, RefusedAs
<1>2. hits[j] # <<>> /\ 1 \in 1 .. Len(hits[j]) /\ Len(hits[j]) \in 1 .. Len(hits[j])
  BY <1>1
<1>3. j \in tracked
  BY <1>2 DEF WindowInv
<1>4. hits[j][1] <= hits[j][Len(hits[j])]
  BY <1>1, <1>2, BucketOrdered
<1>5. ~ (hits[j][Len(hits[j])] <= now - Window)
  BY <1>1, <1>2, <1>4 DEF RefusedAs
<1> QED
  BY <1>2, <1>3, <1>5 DEF RoomMade, Stale

(* Another key's attempt leaves a refused key's bucket and answer alone. *)
LEMMA DecideKeepsRefusals ==
    ASSUME TypeOK, WindowInv, RefusalInv, NEW k \in Keys,
           NEW table, table = tracked \/ table = RoomMade(now - Window),
           NEW bucket \in Seq(Nat), Len(bucket) <= Limit,
           Len(bucket) > 0 => bucket[1] > now - Window,
           Decide(k, table, bucket), UNCHANGED now
    PROVE  RefusalInv'
<1> SUFFICES ASSUME NEW j \in Keys, answer'[j].outcome = "refused"
             PROVE  RefusedAs(j)'
  BY DEF RefusalInv, RefusedAs
<1>1. /\ answer \in [Keys -> [outcome : Outcomes, wait : Int, seconds : Int]]
      /\ hits \in [Keys -> Seq(Nat)]
  BY DEF TypeOK
<1>2. CASE j = k
  <2>1. /\ hits'[k] = bucket
        /\ Len(bucket) = Limit
        /\ bucket[1] > now - Window
        /\ answer'[k].wait = bucket[1] + Window - now
        /\ answer'[k].seconds = RetryAfterHeader(answer'[k].wait)
    BY <1>2, DecideRefusal
  <2> QED
    BY <1>2, <2>1 DEF RefusedAs
<1>3. CASE j # k
  <2>1. answer'[j] = answer[j] /\ hits'[j] = HitsOf(table)[j]
    BY <1>1, <1>3 DEF Decide, Reply, HitsOf
  <2>2. RefusedAs(j)
    BY <2>1 DEF RefusalInv, RefusedAs
  <2>3. HitsOf(table)[j] = hits[j]
    BY <2>2, RefusedIsLive DEF HitsOf
  <2> QED
    BY <2>1, <2>2, <2>3 DEF RefusedAs
<1> QED
  BY <1>2, <1>3

(* Every step keeps each standing refusal backed by a full bucket. *)
LEMMA RefusalStep ==
    TypeOK /\ WindowInv /\ RefusalInv /\ [Next]_vars => RefusalInv'
<1> SUFFICES ASSUME TypeOK, WindowInv, RefusalInv, [Next]_vars PROVE RefusalInv'
  OBVIOUS
<1>1. CASE Tick
  BY <1>1 DEF Tick, RefusalInv, NoAnswer
<1>2. CASE Clear
  BY <1>2 DEF Clear, RefusalInv, NoAnswer
<1>3. ASSUME NEW k \in Keys, KnownKey(k) PROVE RefusalInv'
  <2> DEFINE bucket == PopExpired(hits[k], now - Window)
  <2>1. hits[k] \in Seq(Nat) /\ now - Window \in Int
    BY LimiterAssumption DEF TypeOK
  <2>2. bucket \in Seq(Nat) /\ (Len(bucket) > 0 => bucket[1] > now - Window)
    BY <2>1, PopExpiredKeepsEnd
  <2>3. Len(bucket) <= Limit
    <3>1. admitted[k] \in Seq(Nat) /\ RecentEnd(admitted[k], hits[k], now - Window)
      BY DEF TypeOK, WindowInv
    <3>2. RecentEnd(admitted[k], bucket, now - Window)
      BY <2>1, <3>1, PopKeepsRecentEnd
    <3> QED
      BY <3>2 DEF RecentEnd
  <2> HIDE DEF bucket
  <2>4. Decide(k, tracked, bucket) /\ UNCHANGED now
    BY <1>3 DEF KnownKey, bucket
  <2> QED
    BY <2>2, <2>3, <2>4, DecideKeepsRefusals
<1>4. ASSUME NEW k \in Keys, NewKey(k) PROVE RefusalInv'
  <2>1. <<>> \in Seq(Nat) /\ Len(<<>>) <= Limit /\ ~ (Len(<<>>) > 0)
    BY LimiterAssumption
  <2> QED
    BY <1>4, <2>1, DecideKeepsRefusals DEF NewKey
<1>5. ASSUME NEW k \in Keys, NoRoom(k) PROVE RefusalInv'
  <2> SUFFICES ASSUME NEW j \in Keys, answer'[j].outcome = "refused"
               PROVE  RefusedAs(j)'
    BY DEF RefusalInv, RefusedAs
  <2>1. /\ hits' = HitsOf(RoomMade(now - Window)) /\ UNCHANGED now
        /\ Reply(k, "untracked", 0, 0)
        /\ answer \in [Keys -> [outcome : Outcomes, wait : Int, seconds : Int]]
    BY <1>5 DEF NoRoom, TypeOK
  <2>2. answer'[j] = answer[j]
    BY <2>1 DEF Reply
  <2>3. RefusedAs(j)
    BY <2>2 DEF RefusalInv, RefusedAs
  <2>4. hits'[j] = hits[j]
    BY <2>1, <2>3, RefusedIsLive DEF HitsOf
  <2> QED
    BY <2>1, <2>2, <2>3, <2>4 DEF RefusedAs
<1>6. CASE UNCHANGED vars
  BY <1>6 DEF vars, RefusalInv
<1> QED
  BY <1>1, <1>2, <1>3, <1>4, <1>5, <1>6 DEF Next, RetryAfter

(* A refusal is only given, and only stands, while the bucket is full. *)
THEOREM RefusalsAreFull == Spec => []RefusalInv
<1>1. Init => RefusalInv
  BY DEF Init, RefusalInv, NoAnswer
<1> QED
  BY <1>1, RefusalStep, TypeCorrect, BucketsAreRecent, PTL DEF Spec

(* The wait a refusal announces is exactly the time until the key's next   *)
(* attempt may pass: not one tick less, not one more.                      *)
THEOREM WaitsAreExact == Spec => []WaitIsExact
<1>1. TypeOK /\ WindowInv /\ RefusalInv => WaitIsExact
  <2> SUFFICES ASSUME TypeOK, WindowInv, RefusalInv, NEW k \in Keys,
                      answer[k].outcome = "refused"
               PROVE  /\ answer[k].wait \in 1 .. Window
                      /\ FullAt(k, now + answer[k].wait - 1)
                      /\ ~ FullAt(k, now + answer[k].wait)
    BY DEF WaitIsExact
  <2>1. /\ Len(hits[k]) = Limit /\ hits[k][1] > now - Window
        /\ answer[k].wait = hits[k][1] + Window - now
    BY DEF RefusalInv
  <2>2. hits[k] \in Seq(Nat) /\ now \in Nat /\ Window \in Nat
        /\ 1 \in 1 .. Len(hits[k])
    BY <2>1, LimiterAssumption DEF TypeOK
  <2>3. hits[k][1] <= now /\ hits[k][1] \in Nat
    BY <2>2, BucketOrdered
  <2>4. answer[k].wait \in 1 .. Window
    BY <2>1, <2>2, <2>3
  <2>5. /\ Len(PopExpired(hits[k], hits[k][1] - 1)) >= Limit
        /\ ~ (Len(PopExpired(hits[k], hits[k][1])) >= Limit)
    BY <2>1, <2>2, BucketOrdered, RefusedBucket
  <2>6. /\ (now + answer[k].wait - 1) - Window = hits[k][1] - 1
        /\ (now + answer[k].wait) - Window = hits[k][1]
    BY <2>1, <2>2, <2>3, SMTT(30)
  <2> QED
    BY <2>4, <2>5, <2>6 DEF FullAt
<1> QED
  BY <1>1, TypeCorrect, BucketsAreRecent, RefusalsAreFull, PTL

(* The Retry-After header is that wait in seconds, rounded up. *)
THEOREM HeadersRoundUp == Spec => []HeaderRoundsUp
<1>1. TypeOK /\ RefusalInv /\ WaitIsExact => HeaderRoundsUp
  <2> SUFFICES ASSUME RefusalInv, WaitIsExact, NEW k \in Keys,
                      answer[k].outcome = "refused"
               PROVE  /\ answer[k].seconds * TicksPerSecond >= answer[k].wait
                      /\ (answer[k].seconds - 1) * TicksPerSecond < answer[k].wait
    BY DEF HeaderRoundsUp
  <2>1. /\ answer[k].wait \in Nat /\ answer[k].wait >= 1
        /\ answer[k].seconds = RetryAfterHeader(answer[k].wait)
    BY LimiterAssumption DEF RefusalInv, WaitIsExact
  <2>2. \A w \in Nat, t \in Nat : w >= 1 /\ t >= 1 =>
           /\ (w + t - 1) \div t \in Nat
           /\ (w + t - 1) \div t >= 1
           /\ ((w + t - 1) \div t) * t >= w
           /\ (((w + t - 1) \div t) - 1) * t < w
    OBVIOUS
  <2>3. RetryAfterHeader(answer[k].wait) = CeilSeconds(answer[k].wait)
    BY <2>1, <2>2, LimiterAssumption DEF RetryAfterHeader, CeilSeconds
  <2> QED
    BY <2>1, <2>2, <2>3, LimiterAssumption DEF CeilSeconds
<1> QED
  BY <1>1, TypeCorrect, RefusalsAreFull, WaitsAreExact, PTL

-----------------------------------------------------------------------------
(* Letting a client through uncounted. *)

FullOfLive ==
    /\ Cardinality(tracked) = MaxKeys
    /\ \A j \in tracked : hits[j] # <<>> /\ hits[j][Len(hits[j])] > now - Window

(* A full table of live buckets has nothing for _make_room to drop. *)
LEMMA LiveTableStays ==
    ASSUME TypeOK, FullOfLive
    PROVE  RoomMade(now - Window) = tracked
<1>1. ASSUME NEW j \in tracked PROVE j \notin Stale(now - Window)
  <2>1. hits[j] \in Seq(Nat) /\ now \in Nat /\ Window \in Nat
    BY LimiterAssumption DEF TypeOK
  <2>2. hits[j] # <<>> /\ hits[j][Len(hits[j])] > now - Window
    BY DEF FullOfLive
  <2>3. Len(hits[j]) \in 1 .. Len(hits[j])
    BY <2>1, <2>2
  <2> QED
    BY <2>1, <2>2, <2>3 DEF Stale
<1> QED
  BY <1>1 DEF RoomMade

(* Where _make_room finds no room, it has left live buckets only. *)
LEMMA NoRoomIsFull ==
    ASSUME TypeOK, FiniteTable, NEW k \in Keys, NoRoom(k)
    PROVE  FullOfLive'
<1> DEFINE table == RoomMade(now - Window)
<1>1. /\ tracked' = table /\ hits' = HitsOf(table) /\ now' = now
      /\ Cardinality(table) >= MaxKeys
  BY DEF NoRoom
<1>2. Cardinality(table) = MaxKeys
  BY <1>1, RoomMadeBounded, LimiterAssumption
<1>3. table = tracked \ Stale(now - Window)
  <2>1. Cardinality(tracked) < MaxKeys => table = tracked
    BY DEF RoomMade
  <2>2. ~(Cardinality(tracked) < MaxKeys)
    <3> HIDE DEF table
    <3> QED
      BY <1>2, <2>1, LimiterAssumption
  <2> QED
    BY <2>2 DEF RoomMade
<1>4. ASSUME NEW j \in table
      PROVE  hits'[j] # <<>> /\ hits'[j][Len(hits'[j])] > now - Window
  <2>1. /\ j \in Keys /\ hits[j] \in Seq(Nat) /\ now \in Nat /\ Window \in Nat
        /\ j \in tracked /\ j \notin Stale(now - Window)
    BY <1>3, LimiterAssumption DEF TypeOK
  <2>2. hits[j] # <<>> /\ ~(hits[j][Len(hits[j])] <= now - Window)
    BY <2>1 DEF Stale
  <2>3. Len(hits[j]) \in 1 .. Len(hits[j])
    BY <2>1, <2>2
  <2>4. hits'[j] = hits[j]
    BY <1>1, <2>1 DEF HitsOf
  <2> QED
    BY <2>1, <2>2, <2>3, <2>4
<1> HIDE DEF table
<1> QED
  BY <1>1, <1>2, <1>4 DEF FullOfLive

LEMMA AppendEnds ==
    ASSUME NEW h \in Seq(Nat), NEW moment \in Nat
    PROVE  Append(h, moment) # <<>> /\ Append(h, moment)[Len(Append(h, moment))] = moment
<1>1. Append(h, moment)[Len(h) + 1] = moment
  OBVIOUS
<1>2. Len(Append(h, moment)) = Len(h) + 1 /\ Len(h) \in Nat
  OBVIOUS
<1>3. Len(<<>>) = 0
  OBVIOUS
<1> QED
  BY <1>1, <1>2, <1>3

(* An attempt of a known key leaves its bucket a live end: the newest hit  *)
(* it had, or the attempt itself.                                           *)
LEMMA KnownKeyStaysLive ==
    ASSUME TypeOK, FullOfLive, NEW k \in Keys, KnownKey(k)
    PROVE  FullOfLive'
<1> DEFINE h == hits[k]
           bucket == PopExpired(h, now - Window)
<1>1. /\ now' = now /\ tracked' = tracked /\ k \in tracked
      /\ Decide(k, tracked, bucket)
  BY DEF KnownKey, Decide
<1>2. /\ h \in Seq(Nat) /\ h # <<>> /\ h[Len(h)] > now - Window
      /\ now \in Nat /\ now - Window \in Int /\ Window \in Nat /\ Window > 0
      /\ Limit \in Nat /\ Limit > 0
  BY <1>1, LimiterAssumption DEF TypeOK, FullOfLive
<1>3. /\ bucket \in Seq(Nat) /\ Len(bucket) = Len(h) - Expired(h, now - Window)
      /\ \A i \in 1 .. Len(bucket) : bucket[i] = h[i + Expired(h, now - Window)]
      /\ Expired(h, now - Window) \in 0 .. Len(h)
  BY <1>2, PopExpiredKeepsEnd, ExpiredIsPrefix
<1>4. HitsOf(tracked) \in [Keys -> Seq(Nat)] /\ \A j \in tracked : HitsOf(tracked)[j] = hits[j]
  BY DEF HitsOf, TypeOK
<1> HIDE DEF h, bucket
<1>5. hits'[k] # <<>> /\ hits'[k][Len(hits'[k])] > now - Window
  <2>1. CASE Len(bucket) >= Limit /\ hits' = [HitsOf(tracked) EXCEPT ![k] = bucket]
    <3>1. hits'[k] = bucket /\ bucket # <<>> /\ Len(bucket) \in 1 .. Len(bucket)
      BY <1>2, <1>3, <1>4, <2>1, SMTT(30)
    <3>2. bucket[Len(bucket)] = h[Len(h)]
      BY <1>2, <1>3, <3>1
    <3> QED
      BY <1>2, <3>1, <3>2
  <2>2. CASE hits' = [HitsOf(tracked) EXCEPT ![k] = Append(bucket, now)]
    <3>1. hits'[k] = Append(bucket, now)
      BY <1>4, <2>2
    <3>2. hits'[k] # <<>> /\ hits'[k][Len(hits'[k])] = now
      BY <1>2, <1>3, <3>1, AppendEnds
    <3> QED
      BY <1>2, <3>2
  <2> QED
    BY <1>1, <2>1, <2>2 DEF Decide
<1>6. ASSUME NEW j \in tracked, j # k
      PROVE  hits'[j] = hits[j]
  <2>1. \E b : hits' = [HitsOf(tracked) EXCEPT ![k] = b]
    BY <1>1 DEF Decide
  <2> QED
    BY <1>4, <1>6, <2>1
<1> QED
  BY <1>1, <1>5, <1>6 DEF FullOfLive

(* The table stays as it is found, until the clock moves on. *)
LEMMA FailOpenStep ==
    TypeOK /\ FiniteTable /\ FailsOpenOnlyWhenFull /\ [Next]_vars => FailsOpenOnlyWhenFull'
<1> SUFFICES ASSUME TypeOK, FiniteTable, FailsOpenOnlyWhenFull, [Next]_vars,
                    NEW k \in Keys, answer'[k].outcome = "untracked"
             PROVE  FullOfLive'
  BY DEF FailsOpenOnlyWhenFull, FullOfLive
<1>1. CASE Tick \/ Clear
  BY <1>1 DEF Tick, Clear, NoAnswer
<1>2. CASE UNCHANGED vars
  BY <1>2 DEF vars, FailsOpenOnlyWhenFull, FullOfLive
<1>3. ASSUME NEW j \in Keys, NoRoom(j) PROVE FullOfLive'
  BY <1>3, NoRoomIsFull
<1>4. ASSUME NEW j \in Keys, NEW table, NEW bucket, Decide(j, table, bucket)
      PROVE  FullOfLive
  <2>1. \E o \in {"refused", "admitted"} : \E w, s : Reply(j, o, w, s)
    BY <1>4 DEF Decide
  <2>2. j # k /\ answer'[k] = answer[k]
    BY <2>1 DEF Reply, TypeOK
  <2> QED
    BY <2>2 DEF FailsOpenOnlyWhenFull, FullOfLive
<1>5. ASSUME NEW j \in Keys, KnownKey(j) PROVE FullOfLive'
  BY <1>4, <1>5, KnownKeyStaysLive DEF KnownKey
<1>6. ASSUME NEW j \in Keys, NewKey(j) PROVE FullOfLive'
  <2>1. FullOfLive /\ Cardinality(RoomMade(now - Window)) < MaxKeys
    BY <1>4, <1>6 DEF NewKey
  <2>2. FALSE
    BY <2>1, LiveTableStays, LimiterAssumption DEF FullOfLive
  <2> QED
    BY <2>2
<1> QED
  BY <1>1, <1>2, <1>3, <1>5, <1>6 DEF Next, RetryAfter

(* A client is let through uncounted only while max_keys other addresses   *)
(* have attempts inside the window (_make_room, "all still live").          *)
THEOREM FailsOpenWhenFull == Spec => []FailsOpenOnlyWhenFull
<1>1. Init => FailsOpenOnlyWhenFull
  BY DEF Init, NoAnswer, FailsOpenOnlyWhenFull
<1>2. Init => FiniteTable
  BY FS_EmptySet, LimiterAssumption DEF Init, FiniteTable
<1> QED
  BY <1>1, <1>2, FailOpenStep, TableStep, TypeCorrect, PTL DEF Spec
=============================================================================
