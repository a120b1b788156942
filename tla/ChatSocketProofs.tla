-------------------------- MODULE ChatSocketProofs --------------------------
(***************************************************************************)
(* Proofs about ChatSocket, for every set of tabs, accounts and submissions: *)
(* a submission becomes one row at most, and a confirmation stands for its    *)
(* own row unless another page load stored one under the same id.            *)
(***************************************************************************)
EXTENDS ChatSocket, SequenceTheorems, TLAPS

IInv == TypeOK /\ SocketInv

-----------------------------------------------------------------------------
(* Sequences. *)

LEMMA Appended ==
    ASSUME NEW S, NEW q \in Seq(S), NEW f \in S
    PROVE  /\ Append(q, f) \in Seq(S) /\ Len(Append(q, f)) = Len(q) + 1
           /\ Append(q, f)[Len(q) + 1] = f
           /\ \A i \in 1..Len(q) : Append(q, f)[i] = q[i]
           /\ \A i \in 1..Len(Append(q, f)) : i \in 1..Len(q) \/ i = Len(q) + 1
<1>1. Len(q) \in Nat
  BY LenProperties
<1> QED
  BY <1>1, AppendProperties

LEMMA Shortened ==
    ASSUME NEW S, NEW q \in Seq(S), q # <<>>
    PROVE  /\ Head(q) \in S /\ Head(q) = q[1] /\ 1 \in 1..Len(q)
           /\ Tail(q) \in Seq(S) /\ Len(Tail(q)) = Len(q) - 1
           /\ \A i \in 1..Len(Tail(q)) : Tail(q)[i] = q[i + 1] /\ i + 1 \in 1..Len(q)
<1>1. Len(q) \in Nat \ {0}
  BY EmptySeq
<1>2. /\ Head(q) \in S /\ Tail(q) \in Seq(S) /\ Len(Tail(q)) = Len(q) - 1
      /\ \A i \in 1..Len(Tail(q)) : Tail(q)[i] = q[i + 1]
  BY HeadTailProperties
<1>3. Head(q) = q[1]
  OBVIOUS
<1> QED
  BY <1>1, <1>2, <1>3

-----------------------------------------------------------------------------
(* Frames to the server. *)

LEMMA AppendedLine ==
    ASSUME NEW q \in Seq(Up), NEW f \in Up
    PROVE  /\ Append(q, f) \in Seq(Up)
           /\ \A s : Carries(Append(q, f), s) <=> Carries(q, s) \/ f.send = s
           /\ \A s : CarriesOnce(q, s) /\ (f.send = s => ~Carries(q, s))
                        => CarriesOnce(Append(q, f), s)
           /\ (\A i \in 1..Len(q) : WellFormed(q[i])) /\ WellFormed(f)
                 => \A i \in 1..Len(Append(q, f)) : WellFormed(Append(q, f)[i])
<1>1. /\ Append(q, f) \in Seq(Up) /\ Len(Append(q, f)) = Len(q) + 1
      /\ Append(q, f)[Len(q) + 1] = f
      /\ \A i \in 1..Len(q) : Append(q, f)[i] = q[i]
      /\ \A i \in 1..Len(Append(q, f)) : i \in 1..Len(q) \/ i = Len(q) + 1
  BY Appended
<1>2. Len(q) \in Nat
  BY LenProperties
<1>3. \A s : Carries(Append(q, f), s) <=> Carries(q, s) \/ f.send = s
  BY <1>1, <1>2 DEF Carries
<1>4. \A s : CarriesOnce(q, s) /\ (f.send = s => ~Carries(q, s))
                => CarriesOnce(Append(q, f), s)
  BY <1>1, <1>2 DEF Carries, CarriesOnce
<1>5. (\A i \in 1..Len(q) : WellFormed(q[i])) /\ WellFormed(f)
         => \A i \in 1..Len(Append(q, f)) : WellFormed(Append(q, f)[i])
  BY <1>1, <1>2
<1> QED
  BY <1>1, <1>3, <1>4, <1>5

LEMMA ShortenedLine ==
    ASSUME NEW q \in Seq(Up), q # <<>>
    PROVE  /\ Head(q) \in Up /\ Tail(q) \in Seq(Up)
           /\ Carries(q, Head(q).send)
           /\ \A s : Carries(Tail(q), s) => Carries(q, s)
           /\ \A s : CarriesOnce(q, s) => /\ CarriesOnce(Tail(q), s)
                                          /\ Head(q).send = s => ~Carries(Tail(q), s)
           /\ (\A i \in 1..Len(q) : WellFormed(q[i]))
                 => /\ WellFormed(Head(q))
                    /\ \A i \in 1..Len(Tail(q)) : WellFormed(Tail(q)[i])
<1>1. /\ Head(q) \in Up /\ Head(q) = q[1] /\ 1 \in 1..Len(q)
      /\ Tail(q) \in Seq(Up) /\ Len(Tail(q)) = Len(q) - 1
      /\ \A i \in 1..Len(Tail(q)) : Tail(q)[i] = q[i + 1] /\ i + 1 \in 1..Len(q)
  BY Shortened
<1>2. Len(q) \in Nat
  BY LenProperties
<1>3. Carries(q, Head(q).send) /\ \A s : Carries(Tail(q), s) => Carries(q, s)
  BY <1>1 DEF Carries
<1>4. ASSUME NEW s, CarriesOnce(q, s)
      PROVE  /\ CarriesOnce(Tail(q), s)
             /\ Head(q).send = s => ~Carries(Tail(q), s)
  <2>1. CarriesOnce(Tail(q), s)
    <3> SUFFICES ASSUME NEW i \in 1..Len(Tail(q)), NEW j \in 1..Len(Tail(q)),
                        Tail(q)[i].send = s, Tail(q)[j].send = s
                 PROVE  i = j
      BY DEF CarriesOnce
    <3>1. i + 1 = j + 1
      BY <1>1, <1>4 DEF CarriesOnce
    <3> QED
      BY <3>1
  <2>2. Head(q).send = s => ~Carries(Tail(q), s)
    <3> SUFFICES ASSUME Head(q).send = s, NEW i \in 1..Len(Tail(q)), Tail(q)[i].send = s
                 PROVE  FALSE
      BY DEF Carries
    <3>1. i + 1 = 1
      BY <1>1, <1>4 DEF CarriesOnce
    <3> QED
      BY <3>1
  <2> QED
    BY <2>1, <2>2
<1>5. (\A i \in 1..Len(q) : WellFormed(q[i]))
         => WellFormed(Head(q)) /\ \A i \in 1..Len(Tail(q)) : WellFormed(Tail(q)[i])
  BY <1>1
<1> QED
  BY <1>1, <1>3, <1>4, <1>5

LEMMA EmptyLine ==
    /\ <<>> \in Seq(Up)
    /\ \A s : ~Carries(<<>>, s) /\ CarriesOnce(<<>>, s)
    /\ \A i \in 1..Len(<<>>) : WellFormed(<<>>[i])
  BY EmptySeq DEF Carries, CarriesOnce

(* One tab's lines become q and w, and carry nothing they did not, but for f. *)
Becomes(t, q, w, f) ==
    /\ up' = [up EXCEPT ![t] = q] /\ queue' = [queue EXCEPT ![t] = w]
    /\ UNCHANGED late
    /\ q \in Seq(Up) /\ \A i \in 1..Len(q) : WellFormed(q[i])
    /\ w \in Seq(Up) /\ \A i \in 1..Len(w) : WellFormed(w[i])
    /\ \A s \in Sends : /\ CarriesOnce(q, s) /\ CarriesOnce(w, s)
                        /\ ~(Carries(q, s) /\ Carries(w, s))
                        /\ Carries(q, s) \/ Carries(w, s) =>
                              \/ Carries(up[t], s) \/ Carries(queue[t], s)
                              \/ s = f /\ ~OnTheWay(s)

LEMMA OneLine ==
    ASSUME TypeOK, LineInv, NEW t \in Tabs, NEW q, NEW w, NEW f, Becomes(t, q, w, f)
    PROVE  /\ LineInv' /\ up' \in [Tabs -> Seq(Up)] /\ queue' \in [Tabs -> Seq(Up)]
           /\ \A s \in Sends : OnTheWay(s)' => OnTheWay(s) \/ s = f
           /\ \A s \in Sends : /\ ~Carries(q, s) /\ ~Carries(w, s)
                               /\ Carries(up[t], s) \/ Carries(queue[t], s)
                               => ~OnTheWay(s)'
<1>1. /\ up' \in [Tabs -> Seq(Up)] /\ queue' \in [Tabs -> Seq(Up)]
      /\ up'[t] = q /\ queue'[t] = w
      /\ \A x \in Tabs : x # t => up'[x] = up[x] /\ queue'[x] = queue[x]
  BY DEF TypeOK, Becomes
<1>2. ASSUME NEW x \in Tabs
      PROVE  /\ \A i \in 1..Len(up'[x]) : WellFormed(up'[x][i])
             /\ \A i \in 1..Len(queue'[x]) : WellFormed(queue'[x][i])
  BY <1>1 DEF LineInv, Becomes
<1>3. ASSUME NEW s \in Sends, NEW x \in Tabs
      PROVE  CarriesOnce(up'[x], s) /\ CarriesOnce(queue'[x], s)
  BY <1>1 DEF LineInv, Becomes
<1>4. ASSUME NEW s \in Sends, NEW x \in Tabs, NEW y \in Tabs
      PROVE  /\ Carries(up'[x], s) => ~Carries(queue'[y], s)
             /\ Carries(up'[x], s) /\ Carries(up'[y], s) => x = y
             /\ Carries(queue'[x], s) /\ Carries(queue'[y], s) => x = y
             /\ late'[s] # NoUser => ~Carries(up'[x], s) /\ ~Carries(queue'[x], s)
  BY <1>1 DEF LineInv, OnTheWay, Becomes
<1>5. LineInv'
  BY <1>2, <1>3, <1>4 DEF LineInv
<1>6. \A s \in Sends : OnTheWay(s)' => OnTheWay(s) \/ s = f
  <2> SUFFICES ASSUME NEW s \in Sends,
                      \/ \E x \in Tabs : Carries(up'[x], s) \/ Carries(queue'[x], s)
                      \/ late[s] # NoUser
               PROVE  OnTheWay(s) \/ s = f
    BY DEF OnTheWay, Carries, Becomes
  <2>1. CASE late[s] # NoUser
    BY <2>1 DEF OnTheWay
  <2>2. ASSUME NEW x \in Tabs, Carries(up'[x], s) \/ Carries(queue'[x], s)
        PROVE  OnTheWay(s) \/ s = f
    <3>1. CASE x = t
      BY <1>1, <2>2, <3>1 DEF OnTheWay, Becomes
    <3>2. CASE x # t
      BY <1>1, <2>2, <3>2 DEF OnTheWay
    <3> QED
      BY <3>1, <3>2
  <2> QED
    BY <2>1, <2>2
<1>7. \A s \in Sends : /\ ~Carries(q, s) /\ ~Carries(w, s)
                       /\ Carries(up[t], s) \/ Carries(queue[t], s)
                       => ~OnTheWay(s)'
  <2>1. \A s \in Sends : OnTheWay(s)' <=>
           (\E x \in Tabs : Carries(up'[x], s) \/ Carries(queue'[x], s)) \/ late[s] # NoUser
    BY DEF OnTheWay, Carries, Becomes
  <2>2. \A s \in Sends, x \in Tabs :
           /\ x # t /\ (Carries(up[t], s) \/ Carries(queue[t], s))
           => ~Carries(up[x], s) /\ ~Carries(queue[x], s)
    BY DEF LineInv
  <2>3. \A s \in Sends : Carries(up[t], s) \/ Carries(queue[t], s) => late[s] = NoUser
    BY DEF LineInv
  <2> QED
    BY <1>1, <2>1, <2>2, <2>3
<1> QED
  BY <1>1, <1>5, <1>6, <1>7

LEMMA LinesStay ==
    ASSUME TypeOK, LineInv, UNCHANGED <<up, queue, late>>
    PROVE  /\ LineInv' /\ up' \in [Tabs -> Seq(Up)] /\ queue' \in [Tabs -> Seq(Up)]
           /\ \A s \in Sends : OnTheWay(s)' => OnTheWay(s)
  BY DEF TypeOK, LineInv, OnTheWay

(* A tab's first frame is read, or its line is cut. *)
LEMMA LineShrinks ==
    ASSUME TypeOK, LineInv, NEW t \in Tabs, UNCHANGED <<queue, late>>,
           \/ up' = [up EXCEPT ![t] = <<>>]
           \/ up[t] # <<>> /\ up' = [up EXCEPT ![t] = Tail(@)]
    PROVE  /\ LineInv' /\ up' \in [Tabs -> Seq(Up)] /\ queue' \in [Tabs -> Seq(Up)]
           /\ \A s \in Sends : OnTheWay(s)' => OnTheWay(s)
<1>1. /\ up[t] \in Seq(Up) /\ queue[t] \in Seq(Up)
      /\ queue' = [queue EXCEPT ![t] = queue[t]]
  BY DEF TypeOK
<1>2. /\ \A i \in 1..Len(up[t]) : WellFormed(up[t][i])
      /\ \A i \in 1..Len(queue[t]) : WellFormed(queue[t][i])
      /\ \A s \in Sends : /\ CarriesOnce(up[t], s) /\ CarriesOnce(queue[t], s)
                          /\ ~(Carries(up[t], s) /\ Carries(queue[t], s))
  BY DEF LineInv
<1>3. NoSend \notin Sends
  BY ConstantsDistinct
<1>4. CASE up' = [up EXCEPT ![t] = <<>>]
  <2>1. Becomes(t, <<>>, queue[t], NoSend)
    BY <1>1, <1>2, <1>4, EmptyLine DEF Becomes
  <2> QED
    BY <1>3, <2>1, OneLine
<1>5. CASE up[t] # <<>> /\ up' = [up EXCEPT ![t] = Tail(@)]
  <2>1. /\ Tail(up[t]) \in Seq(Up) /\ up' = [up EXCEPT ![t] = Tail(up[t])]
        /\ \A s : Carries(Tail(up[t]), s) => Carries(up[t], s)
        /\ \A s \in Sends : CarriesOnce(Tail(up[t]), s)
        /\ \A i \in 1..Len(Tail(up[t])) : WellFormed(Tail(up[t])[i])
    BY <1>1, <1>2, <1>5, ShortenedLine
  <2>2. Becomes(t, Tail(up[t]), queue[t], NoSend)
    BY <1>1, <1>2, <2>1 DEF Becomes
  <2> QED
    BY <1>3, <2>2, OneLine
<1> QED
  BY <1>4, <1>5

(* What the server reads is gone from the way. *)
LEMMA ReadOnce ==
    ASSUME TypeOK, LineInv, NEW t \in Tabs, NEW types, Reads(t, types),
           UNCHANGED <<queue, late>>
    PROVE  /\ LineInv' /\ up' \in [Tabs -> Seq(Up)] /\ queue' \in [Tabs -> Seq(Up)]
           /\ \A s \in Sends : OnTheWay(s)' => OnTheWay(s)
           /\ Head(up[t]) \in Up /\ Head(up[t]).type \in types /\ WellFormed(Head(up[t]))
           /\ \A s \in Sends : Head(up[t]).send = s => OnTheWay(s) /\ ~OnTheWay(s)'
<1>1. /\ up[t] \in Seq(Up) /\ queue[t] \in Seq(Up) /\ up[t] # <<>>
      /\ up' = [up EXCEPT ![t] = Tail(up[t])] /\ queue' = [queue EXCEPT ![t] = queue[t]]
      /\ Head(up[t]).type \in types
  BY DEF TypeOK, Reads
<1>2. /\ \A i \in 1..Len(up[t]) : WellFormed(up[t][i])
      /\ \A i \in 1..Len(queue[t]) : WellFormed(queue[t][i])
      /\ \A s \in Sends : /\ CarriesOnce(up[t], s) /\ CarriesOnce(queue[t], s)
                          /\ ~(Carries(up[t], s) /\ Carries(queue[t], s))
  BY DEF LineInv
<1>3. /\ Tail(up[t]) \in Seq(Up) /\ Head(up[t]) \in Up /\ WellFormed(Head(up[t]))
      /\ Carries(up[t], Head(up[t]).send)
      /\ \A s : Carries(Tail(up[t]), s) => Carries(up[t], s)
      /\ \A s \in Sends : /\ CarriesOnce(Tail(up[t]), s)
                          /\ Head(up[t]).send = s => ~Carries(Tail(up[t]), s)
      /\ \A i \in 1..Len(Tail(up[t])) : WellFormed(Tail(up[t])[i])
  BY <1>1, <1>2, ShortenedLine
<1>4. /\ LineInv' /\ up' \in [Tabs -> Seq(Up)] /\ queue' \in [Tabs -> Seq(Up)]
      /\ \A s \in Sends : OnTheWay(s)' => OnTheWay(s) \/ s = NoSend
      /\ \A s \in Sends : /\ ~Carries(Tail(up[t]), s) /\ ~Carries(queue[t], s)
                          /\ Carries(up[t], s) \/ Carries(queue[t], s)
                          => ~OnTheWay(s)'
  <2>1. Becomes(t, Tail(up[t]), queue[t], NoSend)
    BY <1>1, <1>2, <1>3 DEF Becomes
  <2> QED
    BY <2>1, OneLine
<1>5. ASSUME NEW s \in Sends, Head(up[t]).send = s
      PROVE  OnTheWay(s) /\ ~OnTheWay(s)'
  <2>1. OnTheWay(s)
    BY <1>3, <1>5 DEF OnTheWay
  <2>2. ~Carries(Tail(up[t]), s) /\ Carries(up[t], s) /\ ~Carries(queue[t], s)
    BY <1>2, <1>3, <1>5
  <2> QED
    BY <1>4, <2>1, <2>2
<1> QED
  BY <1>1, <1>3, <1>4, <1>5, ConstantsDistinct

(* The library writes a frame, now or when a socket opens. *)
LEMMA Written ==
    ASSUME TypeOK, LineInv, NEW t \in Tabs, NEW f \in Up, WellFormed(f), Write(t, f),
           UNCHANGED late, f.send \in Sends => ~OnTheWay(f.send)
    PROVE  /\ LineInv' /\ up' \in [Tabs -> Seq(Up)] /\ queue' \in [Tabs -> Seq(Up)]
           /\ \A s \in Sends : OnTheWay(s)' => OnTheWay(s) \/ s = f.send
<1>1. /\ up[t] \in Seq(Up) /\ queue[t] \in Seq(Up)
  BY DEF TypeOK
<1>2. /\ \A i \in 1..Len(up[t]) : WellFormed(up[t][i])
      /\ \A i \in 1..Len(queue[t]) : WellFormed(queue[t][i])
      /\ \A s \in Sends : /\ CarriesOnce(up[t], s) /\ CarriesOnce(queue[t], s)
                          /\ ~(Carries(up[t], s) /\ Carries(queue[t], s))
  BY DEF LineInv
<1>3. f.send \in Sends => ~Carries(up[t], f.send) /\ ~Carries(queue[t], f.send)
  BY DEF OnTheWay
<1>4. CASE ready[t] = "open"
  <2> DEFINE q == Append(up[t], f)
  <2>1. up' = [up EXCEPT ![t] = q] /\ queue' = [queue EXCEPT ![t] = queue[t]]
    BY <1>4 DEF Write, TypeOK
  <2>2. /\ q \in Seq(Up) /\ \A i \in 1..Len(q) : WellFormed(q[i])
        /\ \A s : Carries(q, s) <=> Carries(up[t], s) \/ f.send = s
        /\ \A s \in Sends : CarriesOnce(q, s)
    BY <1>1, <1>2, <1>3, AppendedLine
  <2> HIDE DEF q
  <2>3. Becomes(t, q, queue[t], f.send)
    BY <1>1, <1>2, <1>3, <2>1, <2>2 DEF Becomes
  <2> QED
    BY <2>3, OneLine
<1>5. CASE ready[t] # "open"
  <2> DEFINE q == Append(queue[t], f)
  <2>1. up' = [up EXCEPT ![t] = up[t]] /\ queue' = [queue EXCEPT ![t] = q]
    BY <1>5 DEF Write, TypeOK
  <2>2. /\ q \in Seq(Up) /\ \A i \in 1..Len(q) : WellFormed(q[i])
        /\ \A s : Carries(q, s) <=> Carries(queue[t], s) \/ f.send = s
        /\ \A s \in Sends : CarriesOnce(q, s)
    BY <1>1, <1>2, <1>3, AppendedLine
  <2> HIDE DEF q
  <2>3. Becomes(t, up[t], q, f.send)
    BY <1>1, <1>2, <1>3, <2>1, <2>2 DEF Becomes
  <2> QED
    BY <2>3, OneLine
<1> QED
  BY <1>4, <1>5

(* A connection ends: what its line carried is late, or lost; what the page *)
(* kept for the next connection stays, or goes with the page.               *)
LEMMA LineCut ==
    ASSUME TypeOK, LineInv, NEW t \in Tabs, Disconnect(t),
           UNCHANGED queue \/ queue' = [queue EXCEPT ![t] = <<>>]
    PROVE  /\ LineInv' /\ up' \in [Tabs -> Seq(Up)] /\ queue' \in [Tabs -> Seq(Up)]
           /\ late' \in [Sends -> Users \cup {NoUser}]
           /\ \A s \in Sends : OnTheWay(s)' => OnTheWay(s)
<1>1. /\ up' \in [Tabs -> Seq(Up)] /\ up'[t] = <<>>
      /\ \A x \in Tabs : x # t => up'[x] = up[x]
  BY EmptyLine DEF TypeOK, Disconnect
<1>2. /\ queue' \in [Tabs -> Seq(Up)]
      /\ \A x \in Tabs : queue'[x] = queue[x] \/ queue'[x] = <<>>
  BY EmptyLine DEF TypeOK
<1>3. PICK received \in 0..Len(up[t]) :
         late' = [s \in Sends |->
                    IF peer[t] \in Users /\ \E i \in 1..received : up[t][i].send = s
                    THEN peer[t] ELSE late[s]]
  BY DEF Disconnect
<1>4. Len(up[t]) \in Nat
  BY LenProperties DEF TypeOK
<1>5. ASSUME NEW s \in Sends
      PROVE  late'[s] = late[s] \/ (late'[s] \in Users /\ Carries(up[t], s))
  <2>1. CASE peer[t] \in Users /\ \E i \in 1..received : up[t][i].send = s
    BY <1>3, <1>4, <2>1 DEF Carries
  <2>2. CASE ~(peer[t] \in Users /\ \E i \in 1..received : up[t][i].send = s)
    BY <1>3, <2>2
  <2> QED
    BY <2>1, <2>2
<1>6. late' \in [Sends -> Users \cup {NoUser}]
  BY <1>3, <1>5 DEF TypeOK
<1>7. ASSUME NEW s \in Sends, NEW x \in Tabs
      PROVE  /\ Carries(up'[x], s) => x # t /\ Carries(up[x], s)
             /\ Carries(queue'[x], s) => Carries(queue[x], s)
             /\ CarriesOnce(up'[x], s) /\ CarriesOnce(queue'[x], s)
  BY <1>1, <1>2, EmptyLine DEF LineInv
<1>8. ASSUME NEW x \in Tabs
      PROVE  /\ \A i \in 1..Len(up'[x]) : WellFormed(up'[x][i])
             /\ \A i \in 1..Len(queue'[x]) : WellFormed(queue'[x][i])
  BY <1>1, <1>2, EmptyLine DEF LineInv
<1>9. ASSUME NEW s \in Sends, NEW x \in Tabs
      PROVE  /\ late'[s] # NoUser => ~Carries(up'[x], s) /\ ~Carries(queue'[x], s)
             /\ \A y \in Tabs : /\ Carries(up'[x], s) => ~Carries(queue'[y], s)
                                /\ Carries(up'[x], s) /\ Carries(up'[y], s) => x = y
                                /\ Carries(queue'[x], s) /\ Carries(queue'[y], s) => x = y
  BY <1>5, <1>7 DEF LineInv
<1>10. LineInv'
  BY <1>7, <1>8, <1>9 DEF LineInv
<1>11. \A s \in Sends : OnTheWay(s)' => OnTheWay(s)
  <2> SUFFICES ASSUME NEW s \in Sends,
                      \/ \E x \in Tabs : Carries(up'[x], s) \/ Carries(queue'[x], s)
                      \/ late'[s] # NoUser
               PROVE  OnTheWay(s)
    BY DEF OnTheWay, Carries
  <2> QED
    BY <1>5, <1>7 DEF OnTheWay
<1> QED
  BY <1>1, <1>2, <1>6, <1>10, <1>11

(* A late message is handled once. *)
LEMMA LateOnce ==
    ASSUME TypeOK, LineInv, NEW s \in Sends, late[s] # NoUser,
           late' = [late EXCEPT ![s] = NoUser], UNCHANGED <<up, queue>>
    PROVE  /\ LineInv' /\ late' \in [Sends -> Users \cup {NoUser}]
           /\ OnTheWay(s) /\ ~OnTheWay(s)'
           /\ \A x \in Sends : OnTheWay(x)' => OnTheWay(x)
<1>1. /\ late' \in [Sends -> Users \cup {NoUser}] /\ late'[s] = NoUser
      /\ \A x \in Sends : x # s => late'[x] = late[x]
  BY DEF TypeOK
<1>2. LineInv'
  BY <1>1 DEF LineInv
<1>3. \A x \in Sends : OnTheWay(x)' => OnTheWay(x)
  BY <1>1 DEF OnTheWay
<1>4. OnTheWay(s) /\ ~OnTheWay(s)'
  BY <1>1 DEF OnTheWay, LineInv
<1> QED
  BY <1>1, <1>2, <1>3, <1>4

-----------------------------------------------------------------------------
(* Frames to the tabs. *)

StoredNow(c) == \E s \in Sends : stored'[s] > 0 /\ cid'[s] = c

(* What the database holds stays there, under the client_id it came with. *)
RowsStay == \A s \in Sends : stored[s] > 0 => stored'[s] > 0 /\ cid'[s] = cid[s]

LEMMA StillStored ==
    ASSUME RowsStay
    PROVE  \A c : StoredAs(c) => StoredNow(c)
  BY DEF RowsStay, StoredAs, StoredNow

LEMMA EchoesStay ==
    ASSUME EchoInv, RowsStay,
           \A x \in Tabs : \A i \in 1..Len(down'[x]) :
              \/ down'[x][i].type # "message" \/ down'[x][i].cid = 0
              \/ StoredNow(down'[x][i].cid)
              \/ \E j \in 1..Len(down[x]) : down'[x][i] = down[x][j]
    PROVE  EchoInv'
<1>1. \A c : StoredAs(c) => StoredNow(c)
  BY StillStored
<1>2. ASSUME NEW x \in Tabs, NEW i \in 1..Len(down'[x]),
             down'[x][i].type = "message", down'[x][i].cid > 0
      PROVE  StoredNow(down'[x][i].cid)
  BY <1>1, <1>2 DEF EchoInv
<1> QED
  BY <1>2 DEF EchoInv, StoredAs, StoredNow

(* A tab's line of frames: one handled, all dropped, one or two more. *)
LEMMA Handled ==
    ASSUME TypeOK, EchoInv, RowsStay, NEW t \in Tabs,
           \/ down' = [down EXCEPT ![t] = <<>>]
           \/ down[t] # <<>> /\ down' = [down EXCEPT ![t] = Tail(@)]
           \/ UNCHANGED down
    PROVE  EchoInv' /\ down' \in [Tabs -> Seq(Down)]
<1>1. \A x \in Tabs : down[x] \in Seq(Down)
  BY DEF TypeOK
<1>2. CASE down' = [down EXCEPT ![t] = <<>>]
  <2>1. /\ down' \in [Tabs -> Seq(Down)] /\ down'[t] = <<>>
        /\ \A x \in Tabs : x # t => down'[x] = down[x]
    BY <1>1, <1>2, EmptySeq DEF TypeOK
  <2>2. \A x \in Tabs : \A i \in 1..Len(down'[x]) :
           \E j \in 1..Len(down[x]) : down'[x][i] = down[x][j]
    BY <2>1
  <2> QED
    BY <2>1, <2>2, EchoesStay
<1>3. CASE down[t] # <<>> /\ down' = [down EXCEPT ![t] = Tail(@)]
  <2>1. /\ Tail(down[t]) \in Seq(Down)
        /\ \A i \in 1..Len(Tail(down[t])) : /\ Tail(down[t])[i] = down[t][i + 1]
                                            /\ i + 1 \in 1..Len(down[t])
    BY <1>1, <1>3, Shortened
  <2>2. /\ down' \in [Tabs -> Seq(Down)] /\ down'[t] = Tail(down[t])
        /\ \A x \in Tabs : x # t => down'[x] = down[x]
    BY <1>1, <1>3, <2>1 DEF TypeOK
  <2>3. ASSUME NEW x \in Tabs, NEW i \in 1..Len(down'[x])
        PROVE  \E j \in 1..Len(down[x]) : down'[x][i] = down[x][j]
    <3>1. CASE x = t
      <4>1. down'[x][i] = down[x][i + 1] /\ i + 1 \in 1..Len(down[x])
        BY <2>1, <2>2, <3>1
      <4> QED
        BY <4>1
    <3>2. CASE x # t
      BY <2>2, <3>2
    <3> QED
      BY <3>1, <3>2
  <2> QED
    BY <2>2, <2>3, EchoesStay
<1>4. CASE UNCHANGED down
  BY <1>4, EchoesStay DEF TypeOK
<1> QED
  BY <1>2, <1>3, <1>4

LEMMA Told ==
    ASSUME TypeOK, EchoInv, RowsStay, NEW T \in SUBSET Tabs, NEW f \in Down,
           f.type # "message" \/ f.cid = 0 \/ StoredNow(f.cid),
           down' = [x \in Tabs |-> IF x \in T THEN Append(down[x], f) ELSE down[x]]
    PROVE  EchoInv' /\ down' \in [Tabs -> Seq(Down)]
<1>1. \A x \in Tabs : down[x] \in Seq(Down)
  BY DEF TypeOK
<1>2. ASSUME NEW x \in Tabs
      PROVE  /\ down'[x] \in Seq(Down)
             /\ \A i \in 1..Len(down'[x]) :
                   \/ down'[x][i] = f
                   \/ \E j \in 1..Len(down[x]) : down'[x][i] = down[x][j]
  <2>1. CASE x \notin T
    BY <1>1, <2>1
  <2>2. CASE x \in T
    <3>1. down'[x] = Append(down[x], f)
      BY <2>2
    <3> QED
      BY <1>1, <3>1, Appended
  <2> QED
    BY <2>1, <2>2
<1>3. \A x \in Tabs : \A i \in 1..Len(down'[x]) :
         \/ down'[x][i].type # "message" \/ down'[x][i].cid = 0
         \/ StoredNow(down'[x][i].cid)
         \/ \E j \in 1..Len(down[x]) : down'[x][i] = down[x][j]
  BY <1>2
<1>4. EchoInv'
  BY <1>3, EchoesStay
<1> QED
  BY <1>2, <1>4

LEMMA ToldOne ==
    ASSUME TypeOK, EchoInv, RowsStay, NEW t \in Tabs, NEW f \in Down,
           f.type # "message" \/ f.cid = 0 \/ StoredNow(f.cid), Tell(t, f)
    PROVE  EchoInv' /\ down' \in [Tabs -> Seq(Down)]
<1>1. down' = [x \in Tabs |-> IF x \in {t} THEN Append(down[x], f) ELSE down[x]]
  BY DEF Tell, TypeOK
<1> QED
  BY <1>1, Told

-----------------------------------------------------------------------------
(* Verdicts. *)

VerdictInv == SendInv /\ PendingInv /\ ConfirmedIsKnown /\ StoredOnce

LEMMA SameVerdicts ==
    ASSUME TypeOK, VerdictInv, UNCHANGED <<stored, outcome, pending, cid>>,
           \A s \in Sends : OnTheWay(s)' => OnTheWay(s)
    PROVE  VerdictInv' /\ RowsStay
<1>1. RowsStay
  BY DEF RowsStay
<1>2. SendInv' /\ PendingInv' /\ StoredOnce'
  BY DEF VerdictInv, SendInv, PendingInv, StoredOnce
<1>3. ConfirmedIsKnown'
  BY DEF VerdictInv, ConfirmedIsKnown, StoredAs
<1> QED
  BY <1>1, <1>2, <1>3 DEF VerdictInv

(* The pending entry of a tab is settled, as v. *)
LEMMA Settled ==
    ASSUME TypeOK, VerdictInv, NEW t \in Tabs, NEW v \in {"confirmed", "unconfirmed", "abandoned"},
           UNCHANGED <<stored, cid>>, \A s \in Sends : OnTheWay(s)' => OnTheWay(s),
           pending' = [pending EXCEPT ![t] = NoSend],
           outcome' = [s \in Sends |-> IF s = pending[t] THEN v ELSE outcome[s]],
           v = "confirmed" /\ pending[t] # NoSend => StoredAs(cid[pending[t]])
    PROVE  /\ VerdictInv' /\ RowsStay
           /\ pending' \in [Tabs -> Sends \cup {NoSend}] /\ outcome' \in [Sends -> Outcomes]
<1>1. RowsStay
  BY DEF RowsStay
<1>2. /\ pending' \in [Tabs -> Sends \cup {NoSend}] /\ outcome' \in [Sends -> Outcomes]
      /\ pending'[t] = NoSend /\ \A x \in Tabs : x # t => pending'[x] = pending[x]
      /\ \A s \in Sends : outcome'[s] = IF s = pending[t] THEN v ELSE outcome[s]
  BY DEF TypeOK, Outcomes
<1>3. \A s \in Sends : s = pending[t] => outcome[s] = "pending"
  BY ConstantsDistinct DEF VerdictInv, PendingInv
<1>4. SendInv' /\ StoredOnce'
  BY <1>2, <1>3 DEF VerdictInv, SendInv, StoredOnce
<1>5. PendingInv'
  <2> SUFFICES ASSUME NEW x \in Tabs, pending'[x] # NoSend
               PROVE  /\ outcome'[pending'[x]] = "pending" /\ cid'[pending'[x]] > 0
                      /\ \A y \in Tabs : pending'[y] = pending'[x] => y = x
    BY DEF PendingInv
  <2>1. /\ x # t /\ pending'[x] = pending[x] /\ pending[x] \in Sends
        /\ pending[x] # pending[t]
    BY <1>2 DEF VerdictInv, PendingInv, TypeOK
  <2> QED
    BY <1>2, <2>1 DEF VerdictInv, PendingInv
<1>6. ConfirmedIsKnown'
  <2> SUFFICES ASSUME NEW s \in Sends, outcome'[s] = "confirmed"
               PROVE  stored[s] > 0 \/ (cid[s] > 0 /\ StoredAs(cid[s]))
    BY DEF ConfirmedIsKnown, StoredAs
  <2>1. CASE s = pending[t]
    <3>1. v = "confirmed" /\ pending[t] # NoSend
      BY <1>2, <2>1, ConstantsDistinct
    <3>2. cid[s] > 0
      BY <2>1, <3>1 DEF VerdictInv, PendingInv
    <3> QED
      BY <2>1, <3>1, <3>2
  <2>2. CASE s # pending[t]
    BY <1>2, <2>2 DEF VerdictInv, ConfirmedIsKnown
  <2> QED
    BY <2>1, <2>2
<1> QED
  BY <1>1, <1>2, <1>4, <1>5, <1>6 DEF VerdictInv

(* The server stores s, on its way until now. *)
LEMMA RowStored ==
    ASSUME TypeOK, VerdictInv, NEW s \in Sends, OnTheWay(s), ~OnTheWay(s)',
           UNCHANGED <<cid, outcome, pending>>, stored' = [stored EXCEPT ![s] = @ + 1],
           \A x \in Sends : OnTheWay(x)' => OnTheWay(x)
    PROVE  /\ VerdictInv' /\ RowsStay /\ stored' \in [Sends -> Nat]
           /\ stored'[s] > 0 /\ StoredNow(cid[s])
<1>1. /\ stored[s] = 0 /\ outcome[s] # "none" /\ stored' \in [Sends -> Nat]
      /\ stored'[s] = 1 /\ \A x \in Sends : x # s => stored'[x] = stored[x]
  BY DEF TypeOK, VerdictInv, SendInv
<1>2. RowsStay
  BY <1>1 DEF RowsStay
<1>3. SendInv' /\ PendingInv' /\ StoredOnce'
  BY <1>1 DEF VerdictInv, SendInv, PendingInv, StoredOnce
<1>4. ConfirmedIsKnown'
  <2>1. \A c : StoredAs(c) => StoredAs(c)'
    BY <1>1 DEF StoredAs
  <2>2. \A x \in Sends : stored[x] > 0 => stored'[x] > 0
    BY <1>1
  <2>3. ASSUME NEW x \in Sends, outcome'[x] = "confirmed"
        PROVE  stored'[x] > 0 \/ (cid'[x] > 0 /\ StoredNow(cid'[x]))
    <3>1. outcome[x] = "confirmed" /\ cid'[x] = cid[x]
      BY <2>3
    <3>2. stored[x] > 0 \/ (cid[x] > 0 /\ StoredAs(cid[x]))
      BY <3>1 DEF VerdictInv, ConfirmedIsKnown
    <3>3. StoredAs(cid[x]) => StoredNow(cid'[x])
      BY <1>2, <3>1, StillStored
    <3> QED
      BY <2>2, <3>1, <3>2, <3>3
  <2> QED
    BY <2>3 DEF ConfirmedIsKnown, StoredAs, StoredNow
<1> QED
  BY <1>1, <1>2, <1>3, <1>4 DEF VerdictInv, StoredNow

-----------------------------------------------------------------------------
(* One lemma per action. *)

LEMMA Parts == IInv <=> TypeOK /\ LineInv /\ EchoInv /\ VerdictInv
  BY DEF IInv, SocketInv, VerdictInv

LEMMA OpenedKeeps ==
    ASSUME IInv, NEW t \in Tabs, Opened(t)
    PROVE  IInv'
<1> DEFINE f == AuthFrame(user[t])
           q == Append(queue[t], f)
<1>1. /\ ready' = [ready EXCEPT ![t] = "open"] /\ opens' = [opens EXCEPT ![t] = @ + 1]
      /\ peer' = [peer EXCEPT ![t] = "fresh"]
      /\ up' = [up EXCEPT ![t] = q] /\ queue' = [queue EXCEPT ![t] = <<>>]
      /\ UNCHANGED <<user, authed, pingOut, final, pending, sequence, down, late, loads, cid, origin, outcome, stored>>
  BY DEF Opened, sent
<1>2. TypeOK /\ LineInv /\ EchoInv /\ VerdictInv
  BY Parts
<1>3. /\ f \in Up /\ WellFormed(f) /\ f.send = NoSend
  BY <1>2 DEF AuthFrame, Up, WellFormed, TypeOK
<1>4. /\ queue[t] \in Seq(Up) /\ \A i \in 1..Len(queue[t]) : WellFormed(queue[t][i])
      /\ \A s \in Sends : CarriesOnce(queue[t], s) /\ s # NoSend
  BY <1>2, ConstantsDistinct DEF TypeOK, LineInv
<1>5. /\ q \in Seq(Up) /\ \A i \in 1..Len(q) : WellFormed(q[i])
      /\ \A s : Carries(q, s) <=> Carries(queue[t], s) \/ f.send = s
      /\ \A s \in Sends : CarriesOnce(q, s)
  BY <1>3, <1>4, AppendedLine
<1> HIDE DEF q, f
<1>6. Becomes(t, q, <<>>, NoSend)
  BY <1>1, <1>3, <1>4, <1>5, EmptyLine DEF Becomes
<1>7. /\ LineInv' /\ up' \in [Tabs -> Seq(Up)] /\ queue' \in [Tabs -> Seq(Up)]
      /\ \A s \in Sends : OnTheWay(s)' => OnTheWay(s)
  BY <1>2, <1>4, <1>6, OneLine
<1>8. VerdictInv' /\ RowsStay
  BY <1>1, <1>2, <1>7, SameVerdicts
<1>9. EchoInv' /\ down' \in [Tabs -> Seq(Down)]
  BY <1>1, <1>2, <1>8, Handled
<1>10. TypeOK'
  BY <1>1, <1>2, <1>7, <1>9 DEF TypeOK, ReadyStates
<1> QED
  BY <1>7, <1>8, <1>9, <1>10, Parts DEF IInv, SocketInv, VerdictInv

(* A connection's end drops both lines and settles what was pending. *)
LEMMA DisconnectKeeps ==
    ASSUME IInv, NEW t \in Tabs, NEW v \in {"unconfirmed", "abandoned"}, Disconnect(t),
           UNCHANGED queue \/ queue' = [queue EXCEPT ![t] = <<>>],
           pending' = [pending EXCEPT ![t] = NoSend],
           outcome' = [s \in Sends |-> IF s = pending[t] THEN v ELSE outcome[s]],
           ForgetSession(t), \E b \in BOOLEAN : final' = [final EXCEPT ![t] = b],
           sequence' \in [Tabs -> Nat], loads' \in [Tabs -> Nat \ {0}],
           UNCHANGED <<user, opens, cid, origin, stored>>
    PROVE  IInv'
<1>1. /\ ready' = [ready EXCEPT ![t] = "closed"] /\ peer' = [peer EXCEPT ![t] = "none"]
      /\ authed' = [authed EXCEPT ![t] = NoUser] /\ pingOut' = [pingOut EXCEPT ![t] = FALSE]
      /\ down' = [down EXCEPT ![t] = <<>>]
  BY DEF Disconnect, ForgetSession
<1>2. TypeOK /\ LineInv /\ EchoInv /\ VerdictInv
  BY Parts
<1>3. /\ LineInv' /\ up' \in [Tabs -> Seq(Up)] /\ queue' \in [Tabs -> Seq(Up)]
      /\ late' \in [Sends -> Users \cup {NoUser}]
      /\ \A s \in Sends : OnTheWay(s)' => OnTheWay(s)
  BY <1>2, LineCut
<1>4. /\ VerdictInv' /\ RowsStay
      /\ pending' \in [Tabs -> Sends \cup {NoSend}] /\ outcome' \in [Sends -> Outcomes]
  <2>1. v \in {"confirmed", "unconfirmed", "abandoned"} /\ v # "confirmed"
    OBVIOUS
  <2> QED
    BY <1>2, <1>3, <2>1, Settled
<1>5. EchoInv' /\ down' \in [Tabs -> Seq(Down)]
  BY <1>1, <1>2, <1>4, Handled
<1>6. TypeOK'
  BY <1>1, <1>2, <1>3, <1>4, <1>5 DEF TypeOK, ReadyStates
<1> QED
  BY <1>3, <1>4, <1>5, <1>6 DEF IInv, SocketInv, VerdictInv

LEMMA ClosedKeeps ==
    ASSUME IInv, NEW t \in Tabs, NEW noRetry \in BOOLEAN, Closed(t, noRetry)
    PROVE  IInv'
<1>1. /\ Disconnect(t) /\ ForgetSession(t) /\ final' = [final EXCEPT ![t] = noRetry]
      /\ pending' = [pending EXCEPT ![t] = NoSend]
      /\ outcome' = [s \in Sends |-> IF s = pending[t] THEN "unconfirmed" ELSE outcome[s]]
      /\ UNCHANGED <<user, queue, sequence, opens, loads, cid, origin, stored>>
  BY DEF Closed, FailPendingSends
<1>2. sequence' \in [Tabs -> Nat] /\ loads' \in [Tabs -> Nat \ {0}]
  BY <1>1 DEF IInv, TypeOK
<1> QED
  BY <1>1, <1>2, DisconnectKeeps

LEMMA ReloadKeeps ==
    ASSUME IInv, NEW t \in Tabs, Reload(t)
    PROVE  IInv'
<1>1. /\ Disconnect(t) /\ ForgetSession(t) /\ final' = [final EXCEPT ![t] = FALSE]
      /\ queue' = [queue EXCEPT ![t] = <<>>] /\ pending' = [pending EXCEPT ![t] = NoSend]
      /\ outcome' = [s \in Sends |-> IF s = pending[t] THEN "abandoned" ELSE outcome[s]]
      /\ UNCHANGED <<user, opens, cid, origin, stored>>
      /\ sequence' = [sequence EXCEPT ![t] = 0] /\ loads' = [loads EXCEPT ![t] = @ + 1]
  BY DEF Reload
<1>2. sequence' \in [Tabs -> Nat] /\ loads' \in [Tabs -> Nat \ {0}]
  BY <1>1 DEF IInv, TypeOK
<1> QED
  BY <1>1, <1>2, DisconnectKeeps

LEMMA EndsKeep ==
    ASSUME IInv, NEW t \in Tabs, ConnectionEnds(t) \/ ServerClosed(t)
    PROVE  IInv'
<1>1. PICK noRetry \in BOOLEAN : Closed(t, noRetry)
  BY DEF ConnectionEnds, ServerClosed
<1> QED
  BY <1>1, ClosedKeeps

(* Frames that settle nothing, a heartbeat's tick aside. *)
LEMMA ReceivesKeep ==
    ASSUME IInv, NEW t \in Tabs, AuthOk(t) \/ Pong(t) \/ ErrorShown(t)
    PROVE  IInv'
<1>1. /\ down[t] # <<>> /\ down' = [down EXCEPT ![t] = Tail(@)]
      /\ UNCHANGED <<user, final, queue, pending, sequence, opens, peer, up, late, loads, cid, origin, outcome, stored>>
  BY DEF AuthOk, Pong, ErrorShown, Handle, sent
<1>2. TypeOK /\ LineInv /\ EchoInv /\ VerdictInv
  BY Parts
<1>3. /\ LineInv' /\ up' \in [Tabs -> Seq(Up)] /\ queue' \in [Tabs -> Seq(Up)]
      /\ \A s \in Sends : OnTheWay(s)' => OnTheWay(s)
  BY <1>1, <1>2, LinesStay
<1>4. VerdictInv' /\ RowsStay
  BY <1>1, <1>2, <1>3, SameVerdicts
<1>5. EchoInv' /\ down' \in [Tabs -> Seq(Down)]
  BY <1>1, <1>2, <1>4, Handled
<1>6. /\ ready' \in [Tabs -> ReadyStates] /\ authed' \in [Tabs -> Users \cup {NoUser}]
      /\ pingOut' \in [Tabs -> BOOLEAN]
  BY <1>2 DEF AuthOk, Pong, ErrorShown, TypeOK, ReadyStates
<1>7. TypeOK'
  BY <1>1, <1>2, <1>3, <1>5, <1>6 DEF TypeOK
<1> QED
  BY <1>3, <1>4, <1>5, <1>7 DEF IInv, SocketInv, VerdictInv

(* An echo confirms what was stored under its client_id. *)
LEMMA EchoKeeps ==
    ASSUME IInv, NEW t \in Tabs, Echo(t)
    PROVE  IInv'
<1>1. /\ down[t] # <<>> /\ Head(down[t]).type = "message"
      /\ down' = [down EXCEPT ![t] = Tail(@)]
      /\ UNCHANGED <<user, ready, authed, pingOut, final, queue, sequence, opens, peer, up, late, loads, cid, origin, stored>>
  BY DEF Echo, Handle, sent
<1>2. TypeOK /\ LineInv /\ EchoInv /\ VerdictInv
  BY Parts
<1>3. /\ LineInv' /\ up' \in [Tabs -> Seq(Up)] /\ queue' \in [Tabs -> Seq(Up)]
      /\ \A s \in Sends : OnTheWay(s)' => OnTheWay(s)
  BY <1>1, <1>2, LinesStay
<1>4. /\ VerdictInv' /\ RowsStay
      /\ pending' \in [Tabs -> Sends \cup {NoSend}] /\ outcome' \in [Sends -> Outcomes]
  <2>1. CASE pending[t] # NoSend /\ cid[pending[t]] = Head(down[t]).cid
    <3>1. pending[t] \in Sends /\ cid[pending[t]] > 0
      BY <1>2, <2>1 DEF TypeOK, VerdictInv, PendingInv
    <3>2. down[t] \in Seq(Down) /\ Head(down[t]) = down[t][1] /\ 1 \in 1..Len(down[t])
      BY <1>1, <1>2, Shortened DEF TypeOK
    <3>3. StoredAs(cid[pending[t]])
      BY <1>1, <1>2, <2>1, <3>1, <3>2 DEF EchoInv
    <3>4. /\ pending' = [pending EXCEPT ![t] = NoSend]
          /\ outcome' = [outcome EXCEPT ![pending[t]] = "confirmed"]
      BY <2>1 DEF Echo
    <3>5. outcome' = [s \in Sends |-> IF s = pending[t] THEN "confirmed" ELSE outcome[s]]
      BY <1>2, <3>1, <3>4 DEF TypeOK
    <3> QED
      BY <1>1, <1>2, <1>3, <3>3, <3>4, <3>5, Settled
  <2>2. CASE ~(pending[t] # NoSend /\ cid[pending[t]] = Head(down[t]).cid)
    <3>1. UNCHANGED <<outcome, pending>>
      BY <2>2 DEF Echo
    <3> QED
      BY <1>1, <1>2, <1>3, <3>1, SameVerdicts DEF TypeOK
  <2> QED
    BY <2>1, <2>2
<1>5. EchoInv' /\ down' \in [Tabs -> Seq(Down)]
  BY <1>1, <1>2, <1>4, Handled
<1>6. TypeOK'
  BY <1>1, <1>2, <1>3, <1>4, <1>5 DEF TypeOK
<1> QED
  BY <1>3, <1>4, <1>5, <1>6 DEF IInv, SocketInv, VerdictInv

LEMMA EchoTimeoutKeeps ==
    ASSUME IInv, NEW t \in Tabs, EchoTimeout(t)
    PROVE  IInv'
<1>1. /\ pending[t] # NoSend /\ pending' = [pending EXCEPT ![t] = NoSend]
      /\ outcome' = [outcome EXCEPT ![pending[t]] = "unconfirmed"]
      /\ UNCHANGED <<user, ready, authed, pingOut, final, queue, sequence, opens, peer, up, down, late, loads, cid, origin, stored>>
  BY DEF EchoTimeout, sent
<1>2. TypeOK /\ LineInv /\ EchoInv /\ VerdictInv
  BY Parts
<1>3. /\ LineInv' /\ up' \in [Tabs -> Seq(Up)] /\ queue' \in [Tabs -> Seq(Up)]
      /\ \A s \in Sends : OnTheWay(s)' => OnTheWay(s)
  BY <1>1, <1>2, LinesStay
<1>4. outcome' = [s \in Sends |-> IF s = pending[t] THEN "unconfirmed" ELSE outcome[s]]
  BY <1>1, <1>2 DEF TypeOK
<1>5. /\ VerdictInv' /\ RowsStay
      /\ pending' \in [Tabs -> Sends \cup {NoSend}] /\ outcome' \in [Sends -> Outcomes]
  BY <1>1, <1>2, <1>3, <1>4, Settled
<1>6. EchoInv' /\ down' \in [Tabs -> Seq(Down)]
  BY <1>1, <1>2, <1>5, Handled
<1>7. TypeOK'
  BY <1>1, <1>2, <1>3, <1>5, <1>6 DEF TypeOK
<1> QED
  BY <1>3, <1>5, <1>6, <1>7 DEF IInv, SocketInv, VerdictInv

LEMMA TickKeeps ==
    ASSUME IInv, NEW t \in Tabs, Tick(t)
    PROVE  IInv'
<1>1. UNCHANGED <<user, authed, final, pending, sequence, opens, peer, down, late, loads, cid, origin, outcome, stored>>
  BY DEF Tick, sent
<1>2. TypeOK /\ LineInv /\ EchoInv /\ VerdictInv
  BY Parts
<1>3. /\ ready' \in [Tabs -> ReadyStates] /\ pingOut' \in [Tabs -> BOOLEAN]
  BY <1>2 DEF Tick, TypeOK, ReadyStates
<1>4. /\ LineInv' /\ up' \in [Tabs -> Seq(Up)] /\ queue' \in [Tabs -> Seq(Up)]
      /\ \A s \in Sends : OnTheWay(s)' => OnTheWay(s)
  <2>1. CASE UNCHANGED <<up, queue>>
    BY <1>1, <1>2, <2>1, LinesStay
  <2>2. CASE Write(t, PingFrame)
    <3>1. PingFrame \in Up /\ WellFormed(PingFrame) /\ PingFrame.send = NoSend
      BY DEF PingFrame, Up, WellFormed
    <3> QED
      BY <1>1, <1>2, <2>2, <3>1, Written, ConstantsDistinct
  <2> QED
    BY <2>1, <2>2 DEF Tick
<1>5. VerdictInv' /\ RowsStay
  BY <1>1, <1>2, <1>4, SameVerdicts
<1>6. EchoInv' /\ down' \in [Tabs -> Seq(Down)]
  BY <1>1, <1>2, <1>5, Handled
<1>7. TypeOK'
  BY <1>1, <1>2, <1>3, <1>4, <1>6 DEF TypeOK
<1> QED
  BY <1>4, <1>5, <1>6, <1>7 DEF IInv, SocketInv, VerdictInv

LEMMA SessionChangesKeeps ==
    ASSUME IInv, NEW t \in Tabs, NEW u \in Users, SessionChanges(t, u)
    PROVE  IInv'
<1>1. /\ user' = [user EXCEPT ![t] = u]
      /\ UNCHANGED <<ready, authed, pingOut, final, queue, pending, sequence, opens, peer, up, down, late, loads, cid, origin, outcome, stored>>
  BY DEF SessionChanges, sent
<1>2. TypeOK /\ LineInv /\ EchoInv /\ VerdictInv
  BY Parts
<1>3. LineInv' /\ \A s \in Sends : OnTheWay(s)' => OnTheWay(s)
  BY <1>1, <1>2, LinesStay
<1>4. VerdictInv' /\ RowsStay
  BY <1>1, <1>2, <1>3, SameVerdicts
<1>5. EchoInv'
  BY <1>1, <1>2, <1>4, Handled
<1>6. TypeOK'
  BY <1>1, <1>2 DEF TypeOK
<1> QED
  BY <1>3, <1>4, <1>5, <1>6 DEF IInv, SocketInv, VerdictInv

(* A submission leaves over the socket once: it was never sent before. *)
LEMMA SendOverSocketKeeps ==
    ASSUME IInv, NEW t \in Tabs, NEW s \in Sends, SendOverSocket(t, s)
    PROVE  IInv'
<1>1. /\ outcome[s] = "none" /\ pending[t] = NoSend
      /\ sequence' = [sequence EXCEPT ![t] = sequence[t] + 1]
      /\ cid' = [cid EXCEPT ![s] = sequence[t] + 1]
      /\ origin' = [origin EXCEPT ![s] = <<t, loads[t]>>]
      /\ pending' = [pending EXCEPT ![t] = s]
      /\ outcome' = [outcome EXCEPT ![s] = "pending"]
      /\ Write(t, SendFrame(s))
      /\ UNCHANGED <<user, ready, authed, pingOut, final, opens, peer, down, late, loads, stored>>
  BY DEF SendOverSocket, CanSubmit, NextClientId
<1>2. TypeOK /\ LineInv /\ EchoInv /\ VerdictInv
  BY Parts
<1>3. stored[s] = 0 /\ ~OnTheWay(s)
  BY <1>1, <1>2 DEF VerdictInv, SendInv
<1>4. SendFrame(s) \in Up /\ WellFormed(SendFrame(s)) /\ SendFrame(s).send = s
  BY DEF SendFrame, Up, WellFormed
<1>5. /\ LineInv' /\ up' \in [Tabs -> Seq(Up)] /\ queue' \in [Tabs -> Seq(Up)]
      /\ \A x \in Sends : OnTheWay(x)' => OnTheWay(x) \/ x = s
  BY <1>1, <1>2, <1>3, <1>4, Written
<1>6. /\ sequence' \in [Tabs -> Nat] /\ cid' \in [Sends -> Nat] /\ cid'[s] > 0
      /\ \A x \in Sends : x # s => cid'[x] = cid[x] /\ outcome'[x] = outcome[x]
      /\ pending' \in [Tabs -> Sends \cup {NoSend}] /\ outcome' \in [Sends -> Outcomes]
      /\ pending'[t] = s /\ \A x \in Tabs : x # t => pending'[x] = pending[x]
      /\ outcome'[s] = "pending" /\ stored' = stored
  BY <1>1, <1>2 DEF TypeOK, Outcomes
<1>7. origin' \in [Sends -> Pages]
  <2>1. <<t, loads[t]>> \in Pages
    BY <1>2 DEF TypeOK, Pages
  <2> QED
    BY <1>1, <1>2, <2>1 DEF TypeOK
<1>8. RowsStay
  BY <1>3, <1>6 DEF RowsStay
<1>9. VerdictInv'
  <2>1. SendInv'
    <3> SUFFICES ASSUME NEW x \in Sends
                 PROVE  /\ OnTheWay(x)' => stored'[x] = 0 /\ outcome'[x] # "none"
                        /\ outcome'[x] = "none" => stored'[x] = 0
      BY DEF SendInv
    <3> QED
      BY <1>2, <1>3, <1>5, <1>6 DEF VerdictInv, SendInv
  <2>2. StoredOnce'
    BY <1>2, <1>6 DEF VerdictInv, StoredOnce
  <2>3. ASSUME NEW x \in Tabs, pending[x] # NoSend
        PROVE  pending[x] # s /\ pending[x] \in Sends
    BY <1>1, <1>2, <2>3 DEF VerdictInv, PendingInv, TypeOK
  <2>4. PendingInv'
    <3> SUFFICES ASSUME NEW x \in Tabs, pending'[x] # NoSend
                 PROVE  /\ outcome'[pending'[x]] = "pending" /\ cid'[pending'[x]] > 0
                        /\ \A y \in Tabs : pending'[y] = pending'[x] => y = x
      BY DEF PendingInv
    <3>1. CASE x = t
      BY <1>6, <2>3, <3>1, ConstantsDistinct
    <3>2. CASE x # t
      BY <1>2, <1>6, <2>3, <3>2 DEF VerdictInv, PendingInv
    <3> QED
      BY <3>1, <3>2
  <2>5. ConfirmedIsKnown'
    <3>1. ASSUME NEW x \in Sends, outcome'[x] = "confirmed"
          PROVE  stored'[x] > 0 \/ (cid'[x] > 0 /\ StoredNow(cid'[x]))
      <4>1. x # s /\ outcome[x] = "confirmed" /\ cid'[x] = cid[x] /\ stored'[x] = stored[x]
        BY <1>6, <3>1
      <4>2. stored[x] > 0 \/ (cid[x] > 0 /\ StoredAs(cid[x]))
        BY <1>2, <4>1 DEF VerdictInv, ConfirmedIsKnown
      <4>3. StoredAs(cid[x]) => StoredNow(cid'[x])
        BY <1>8, <4>1, StillStored
      <4> QED
        BY <4>1, <4>2, <4>3
    <3> QED
      BY <3>1 DEF ConfirmedIsKnown, StoredAs, StoredNow
  <2> QED
    BY <2>1, <2>2, <2>4, <2>5 DEF VerdictInv
<1>10. EchoInv' /\ down' \in [Tabs -> Seq(Down)]
  BY <1>1, <1>2, <1>8, Handled
<1>11. TypeOK'
  BY <1>1, <1>2, <1>5, <1>6, <1>7, <1>10 DEF TypeOK
<1> QED
  BY <1>5, <1>9, <1>10, <1>11 DEF IInv, SocketInv, VerdictInv

(* Over HTTP it becomes a row at once, told of without a client_id, or none. *)
LEMMA SendOverHttpKeeps ==
    ASSUME IInv, NEW t \in Tabs, NEW s \in Sends, SendOverHttp(t, s)
    PROVE  IInv'
<1>1. /\ outcome[s] = "none"
      /\ UNCHANGED <<user, ready, authed, pingOut, final, queue, pending, sequence, opens, peer, up, late, loads, cid, origin>>
  BY DEF SendOverHttp, CanSubmit, sent
<1>2. TypeOK /\ LineInv /\ EchoInv /\ VerdictInv
  BY Parts
<1>3. PICK o \in {"confirmed", "failed"} :
         /\ outcome' = [outcome EXCEPT ![s] = o]
         /\ \/ stored' = [stored EXCEPT ![s] = @ + 1] /\ SendToUser(user[t], 0)
            \/ o = "failed" /\ UNCHANGED <<stored, down>>
  <2>1. CASE /\ stored' = [stored EXCEPT ![s] = @ + 1]
             /\ SendToUser(user[t], 0)
             /\ \E o \in {"confirmed", "failed"} : outcome' = [outcome EXCEPT ![s] = o]
    BY <2>1
  <2>2. CASE /\ outcome' = [outcome EXCEPT ![s] = "failed"]
             /\ UNCHANGED <<stored, down>>
    BY <2>2
  <2> QED
    BY <2>1, <2>2 DEF SendOverHttp
<1>4. stored[s] = 0 /\ ~OnTheWay(s)
  BY <1>1, <1>2 DEF VerdictInv, SendInv
<1>5. /\ LineInv' /\ up' \in [Tabs -> Seq(Up)] /\ queue' \in [Tabs -> Seq(Up)]
      /\ \A x \in Sends : OnTheWay(x)' => OnTheWay(x)
  BY <1>1, <1>2, LinesStay
<1>6. /\ stored' \in [Sends -> Nat] /\ stored'[s] <= 1 /\ (o = "confirmed" => stored'[s] > 0)
      /\ outcome' \in [Sends -> Outcomes] /\ outcome'[s] = o
      /\ \A x \in Sends : x # s => stored'[x] = stored[x] /\ outcome'[x] = outcome[x]
  <2>1. /\ outcome' \in [Sends -> Outcomes] /\ outcome'[s] = o
        /\ \A x \in Sends : x # s => outcome'[x] = outcome[x]
    BY <1>2, <1>3 DEF TypeOK, Outcomes
  <2>2. CASE stored' = [stored EXCEPT ![s] = @ + 1]
    BY <1>2, <1>4, <2>1, <2>2 DEF TypeOK
  <2>3. CASE o = "failed" /\ UNCHANGED stored
    BY <1>2, <1>4, <2>1, <2>3 DEF TypeOK
  <2> QED
    BY <1>3, <2>2, <2>3
<1>7. RowsStay
  BY <1>1, <1>4, <1>6 DEF RowsStay
<1>8. VerdictInv'
  <2>1. SendInv'
    <3> SUFFICES ASSUME NEW x \in Sends
                 PROVE  /\ OnTheWay(x)' => stored'[x] = 0 /\ outcome'[x] # "none"
                        /\ outcome'[x] = "none" => stored'[x] = 0
      BY DEF SendInv
    <3> QED
      BY <1>2, <1>4, <1>5, <1>6 DEF VerdictInv, SendInv
  <2>2. StoredOnce'
    BY <1>2, <1>6 DEF VerdictInv, StoredOnce
  <2>3. PendingInv'
    <3>1. \A x \in Tabs : pending[x] # NoSend => pending[x] \in Sends /\ pending[x] # s
      BY <1>1, <1>2 DEF VerdictInv, PendingInv, TypeOK
    <3> QED
      BY <1>1, <1>2, <1>6, <3>1 DEF VerdictInv, PendingInv
  <2>4. ConfirmedIsKnown'
    <3>1. ASSUME NEW x \in Sends, outcome'[x] = "confirmed"
          PROVE  stored'[x] > 0 \/ (cid'[x] > 0 /\ StoredNow(cid'[x]))
      <4>1. CASE x = s
        BY <1>6, <3>1, <4>1
      <4>2. CASE x # s
        <5>1. outcome[x] = "confirmed" /\ cid'[x] = cid[x] /\ stored'[x] = stored[x]
          BY <1>1, <1>6, <3>1, <4>2
        <5>2. stored[x] > 0 \/ (cid[x] > 0 /\ StoredAs(cid[x]))
          BY <1>2, <5>1 DEF VerdictInv, ConfirmedIsKnown
        <5>3. StoredAs(cid[x]) => StoredNow(cid'[x])
          BY <1>7, <5>1, StillStored
        <5> QED
          BY <5>1, <5>2, <5>3
      <4> QED
        BY <4>1, <4>2
    <3> QED
      BY <3>1 DEF ConfirmedIsKnown, StoredAs, StoredNow
  <2> QED
    BY <2>1, <2>2, <2>3, <2>4 DEF VerdictInv
<1>9. EchoInv' /\ down' \in [Tabs -> Seq(Down)]
  <2>1. CASE SendToUser(user[t], 0)
    <3> DEFINE f == DownFrame("message", user[t], 0)
               T == {x \in Tabs : peer[x] = user[t]}
    <3>1. f \in Down /\ f.cid = 0
      BY <1>2 DEF DownFrame, Down, TypeOK
    <3>2. down' = [x \in Tabs |-> IF x \in T THEN Append(down[x], f) ELSE down[x]]
      BY <2>1 DEF SendToUser
    <3>3. T \in SUBSET Tabs
      OBVIOUS
    <3> HIDE DEF f, T
    <3> QED
      BY <1>2, <1>7, <3>1, <3>2, <3>3, Told
  <2>2. CASE UNCHANGED down
    BY <1>2, <1>7, <2>2, Handled
  <2> QED
    BY <1>3, <2>1, <2>2
<1>10. TypeOK'
  BY <1>1, <1>2, <1>5, <1>6, <1>9 DEF TypeOK
<1> QED
  BY <1>5, <1>8, <1>9, <1>10 DEF IInv, SocketInv, VerdictInv

-----------------------------------------------------------------------------
(* The server. *)

LEMMA RepliesKeep ==
    ASSUME IInv, NEW t \in Tabs, Authenticates(t) \/ AnswersPing(t)
    PROVE  IInv'
<1>1. UNCHANGED <<user, ready, authed, pingOut, final, queue, pending, sequence, opens, late, loads, cid, origin, outcome, stored>>
  BY DEF Authenticates, AnswersPing, sent
<1>2. TypeOK /\ LineInv /\ EchoInv /\ VerdictInv
  BY Parts
<1>3. PICK types : Reads(t, types) /\ (Authenticates(t) => types = {"auth"})
  BY DEF Authenticates, AnswersPing
<1>4. /\ LineInv' /\ up' \in [Tabs -> Seq(Up)] /\ queue' \in [Tabs -> Seq(Up)]
      /\ \A s \in Sends : OnTheWay(s)' => OnTheWay(s)
      /\ Head(up[t]) \in Up /\ Head(up[t]).type \in types /\ WellFormed(Head(up[t]))
  BY <1>1, <1>2, <1>3, ReadOnce
<1>5. VerdictInv' /\ RowsStay
  BY <1>1, <1>2, <1>4, SameVerdicts
<1>6. /\ EchoInv' /\ down' \in [Tabs -> Seq(Down)]
      /\ peer' \in [Tabs -> Users \cup {"none", "fresh"}]
  <2>1. CASE Authenticates(t)
    <3> DEFINE u == Head(up[t]).user
    <3>1. u \in Users
      BY <1>3, <1>4, <2>1 DEF WellFormed
    <3>2. Tell(t, DownFrame("auth_ok", u, 0)) /\ peer' = [peer EXCEPT ![t] = u]
      BY <2>1 DEF Authenticates
    <3>3. DownFrame("auth_ok", u, 0) \in Down /\ DownFrame("auth_ok", u, 0).type # "message"
      BY <3>1 DEF DownFrame, Down
    <3> HIDE DEF u
    <3> QED
      BY <1>2, <1>5, <3>1, <3>2, <3>3, ToldOne DEF TypeOK
  <2>2. CASE AnswersPing(t)
    <3>1. Plain("pong") \in Down /\ Plain("pong").type # "message"
      BY DEF Plain, DownFrame, Down
    <3>2. Tell(t, Plain("pong")) /\ UNCHANGED peer
      BY <2>2 DEF AnswersPing
    <3> QED
      BY <1>2, <1>5, <3>1, <3>2, ToldOne DEF TypeOK
  <2> QED
    BY <2>1, <2>2
<1>7. TypeOK'
  BY <1>1, <1>2, <1>4, <1>6 DEF TypeOK
<1> QED
  BY <1>4, <1>5, <1>6, <1>7 DEF IInv, SocketInv, VerdictInv

LEMMA RefusesKeeps ==
    ASSUME IInv, NEW t \in Tabs, Refuses(t)
    PROVE  IInv'
<1> DEFINE e == <<Plain("error"), Plain("refuse")>>
<1>1. /\ up' = [up EXCEPT ![t] = <<>>] /\ peer' = [peer EXCEPT ![t] = "none"]
      /\ down' = [down EXCEPT ![t] = @ \o e]
      /\ UNCHANGED <<user, ready, authed, pingOut, final, queue, pending, sequence, opens, late, loads, cid, origin, outcome, stored>>
  BY DEF Refuses, sent
<1>2. TypeOK /\ LineInv /\ EchoInv /\ VerdictInv
  BY Parts
<1>3. /\ LineInv' /\ up' \in [Tabs -> Seq(Up)] /\ queue' \in [Tabs -> Seq(Up)]
      /\ \A s \in Sends : OnTheWay(s)' => OnTheWay(s)
  BY <1>1, <1>2, LineShrinks
<1>4. VerdictInv' /\ RowsStay
  BY <1>1, <1>2, <1>3, SameVerdicts
<1>5. /\ e \in Seq(Down) /\ Len(e) = 2 /\ \A i \in 1..2 : e[i].type # "message"
  <2>1. /\ Plain("error") \in Down /\ Plain("error").type = "error"
        /\ Plain("refuse") \in Down /\ Plain("refuse").type = "refuse"
    BY DEF Plain, DownFrame, Down
  <2> QED
    BY <2>1
<1> HIDE DEF e
<1>6. EchoInv' /\ down' \in [Tabs -> Seq(Down)]
  <2>1. down[t] \in Seq(Down) /\ Len(down[t]) \in Nat
    BY <1>2, LenProperties DEF TypeOK
  <2>2. /\ down[t] \o e \in Seq(Down) /\ Len(down[t] \o e) = Len(down[t]) + 2
        /\ \A i \in 1..Len(down[t]) + 2 :
              (down[t] \o e)[i] = IF i <= Len(down[t]) THEN down[t][i] ELSE e[i - Len(down[t])]
    <3> DEFINE d == down[t]
    <3>1. /\ d \o e \in Seq(Down) /\ Len(d \o e) = Len(d) + Len(e)
          /\ \A i \in 1..Len(d) + Len(e) :
                (d \o e)[i] = IF i <= Len(d) THEN d[i] ELSE e[i - Len(d)]
      <4>1. d \in Seq(Down) /\ e \in Seq(Down)
        BY <1>5, <2>1
      <4> HIDE DEF d
      <4> QED
        BY <4>1, ConcatProperties
    <3> QED
      BY <1>5, <3>1
  <2>3. /\ down' \in [Tabs -> Seq(Down)] /\ down'[t] = down[t] \o e
        /\ \A x \in Tabs : x # t => down'[x] = down[x]
    BY <1>1, <1>2, <2>2 DEF TypeOK
  <2>4. ASSUME NEW x \in Tabs, NEW i \in 1..Len(down'[x])
        PROVE  \/ down'[x][i].type # "message" \/ down'[x][i].cid = 0
               \/ StoredNow(down'[x][i].cid)
               \/ \E j \in 1..Len(down[x]) : down'[x][i] = down[x][j]
    <3>1. CASE x # t
      BY <2>3, <3>1
    <3>2. CASE x = t /\ i <= Len(down[t])
      BY <2>1, <2>2, <2>3, <3>2
    <3>3. CASE x = t /\ i > Len(down[t])
      <4>1. /\ down'[x] = down[t] \o e /\ Len(down'[x]) = Len(down[t]) + 2
            /\ Len(down[t]) \in Nat /\ i \in 1..Len(down[t]) + 2 /\ ~ (i <= Len(down[t]))
        BY <2>1, <2>2, <2>3, <3>3
      <4>2. i - Len(down[t]) \in 1..2
        BY <4>1
      <4>3. down'[x][i] = e[i - Len(down[t])]
        BY <2>2, <4>1
      <4> QED
        BY <1>5, <4>2, <4>3
    <3> QED
      BY <2>1, <3>1, <3>2, <3>3
  <2>5. EchoInv'
    BY <1>2, <1>4, <2>4, EchoesStay
  <2> QED
    BY <2>3, <2>5
<1>7. TypeOK'
  BY <1>1, <1>2, <1>3, <1>6 DEF TypeOK
<1> QED
  BY <1>3, <1>4, <1>6, <1>7 DEF IInv, SocketInv, VerdictInv

LEMMA StoresMessageKeeps ==
    ASSUME IInv, NEW t \in Tabs, StoresMessage(t)
    PROVE  IInv'
<1> DEFINE h == Head(up[t])
<1>1. /\ peer[t] \in Users /\ Reads(t, {"message"}) /\ stored' = [stored EXCEPT ![h.send] = @ + 1]
      /\ SendToUser(peer[t], cid[h.send])
      /\ UNCHANGED <<user, ready, authed, pingOut, final, queue, pending, sequence, opens, peer, late, loads, cid, origin, outcome>>
  BY DEF StoresMessage, sent
<1>2. TypeOK /\ LineInv /\ EchoInv /\ VerdictInv
  BY Parts
<1>3. /\ LineInv' /\ up' \in [Tabs -> Seq(Up)] /\ queue' \in [Tabs -> Seq(Up)]
      /\ \A s \in Sends : OnTheWay(s)' => OnTheWay(s)
      /\ h.type = "message" /\ WellFormed(h)
      /\ \A s \in Sends : h.send = s => OnTheWay(s) /\ ~OnTheWay(s)'
  BY <1>1, <1>2, ReadOnce
<1>4. PICK s \in Sends : s = h.send
  BY <1>3 DEF WellFormed
<1> HIDE DEF h
<1>5. OnTheWay(s) /\ ~OnTheWay(s)' /\ stored' = [stored EXCEPT ![s] = @ + 1]
  BY <1>1, <1>3, <1>4
<1>6. /\ VerdictInv' /\ RowsStay /\ stored' \in [Sends -> Nat] /\ StoredNow(cid[s])
  BY <1>1, <1>2, <1>3, <1>5, RowStored
<1>7. EchoInv' /\ down' \in [Tabs -> Seq(Down)]
  <2> DEFINE f == DownFrame("message", peer[t], cid[s])
             T == {x \in Tabs : peer[x] = peer[t]}
  <2>1. f \in Down /\ f.cid = cid[s]
    BY <1>1, <1>2 DEF DownFrame, Down, TypeOK
  <2>2. down' = [x \in Tabs |-> IF x \in T THEN Append(down[x], f) ELSE down[x]]
    BY <1>1, <1>4 DEF SendToUser
  <2>3. T \in SUBSET Tabs
    OBVIOUS
  <2> HIDE DEF f, T
  <2> QED
    BY <1>2, <1>6, <2>1, <2>2, <2>3, Told
<1>8. TypeOK'
  BY <1>1, <1>2, <1>3, <1>6, <1>7 DEF TypeOK
<1> QED
  BY <1>3, <1>6, <1>7, <1>8 DEF IInv, SocketInv, VerdictInv

LEMMA WriteFailsKeeps ==
    ASSUME IInv, NEW t \in Tabs, WriteFails(t)
    PROVE  IInv'
<1> DEFINE h == Head(up[t])
<1>1. /\ Reads(t, {"message"}) /\ peer' = [peer EXCEPT ![t] = "none"]
      /\ UNCHANGED stored \/ stored' = [stored EXCEPT ![h.send] = @ + 1]
      /\ Tell(t, Plain("close"))
      /\ UNCHANGED <<user, ready, authed, pingOut, final, queue, pending, sequence, opens, late, loads, cid, origin, outcome>>
  BY DEF WriteFails, sent
<1>2. TypeOK /\ LineInv /\ EchoInv /\ VerdictInv
  BY Parts
<1>3. /\ LineInv' /\ up' \in [Tabs -> Seq(Up)] /\ queue' \in [Tabs -> Seq(Up)]
      /\ \A s \in Sends : OnTheWay(s)' => OnTheWay(s)
      /\ h.type = "message" /\ WellFormed(h)
      /\ \A s \in Sends : h.send = s => OnTheWay(s) /\ ~OnTheWay(s)'
  BY <1>1, <1>2, ReadOnce
<1>4. PICK s \in Sends : s = h.send
  BY <1>3 DEF WellFormed
<1> HIDE DEF h
<1>5. /\ OnTheWay(s) /\ ~OnTheWay(s)'
      /\ UNCHANGED stored \/ stored' = [stored EXCEPT ![s] = @ + 1]
  BY <1>1, <1>3, <1>4
<1>6. VerdictInv' /\ RowsStay /\ stored' \in [Sends -> Nat]
  <2>1. CASE UNCHANGED stored
    BY <1>1, <1>2, <1>3, <2>1, SameVerdicts DEF TypeOK
  <2>2. CASE stored' = [stored EXCEPT ![s] = @ + 1]
    BY <1>1, <1>2, <1>3, <1>5, <2>2, RowStored
  <2> QED
    BY <1>5, <2>1, <2>2
<1>7. EchoInv' /\ down' \in [Tabs -> Seq(Down)]
  <2>1. Plain("close") \in Down /\ Plain("close").type # "message"
    BY DEF Plain, DownFrame, Down
  <2> QED
    BY <1>1, <1>2, <1>6, <2>1, ToldOne
<1>8. TypeOK'
  BY <1>1, <1>2, <1>3, <1>6, <1>7 DEF TypeOK
<1> QED
  BY <1>3, <1>6, <1>7, <1>8 DEF IInv, SocketInv, VerdictInv

LEMMA StoresLateKeeps ==
    ASSUME IInv, NEW s \in Sends, StoresLate(s)
    PROVE  IInv'
<1>1. /\ late[s] # NoUser /\ late' = [late EXCEPT ![s] = NoUser]
      /\ stored' = [stored EXCEPT ![s] = @ + 1] /\ SendToUser(late[s], cid[s])
      /\ UNCHANGED <<user, ready, authed, pingOut, final, queue, pending, sequence, opens, peer, up, loads, cid, origin, outcome>>
  BY DEF StoresLate
<1>2. TypeOK /\ LineInv /\ EchoInv /\ VerdictInv
  BY Parts
<1>3. /\ LineInv' /\ late' \in [Sends -> Users \cup {NoUser}]
      /\ OnTheWay(s) /\ ~OnTheWay(s)' /\ \A x \in Sends : OnTheWay(x)' => OnTheWay(x)
  BY <1>1, <1>2, LateOnce
<1>4. VerdictInv' /\ RowsStay /\ stored' \in [Sends -> Nat] /\ StoredNow(cid[s])
  BY <1>1, <1>2, <1>3, RowStored
<1>5. EchoInv' /\ down' \in [Tabs -> Seq(Down)]
  <2> DEFINE f == DownFrame("message", late[s], cid[s])
             T == {x \in Tabs : peer[x] = late[s]}
  <2>1. f \in Down /\ f.cid = cid[s]
    BY <1>1, <1>2 DEF DownFrame, Down, TypeOK
  <2>2. down' = [x \in Tabs |-> IF x \in T THEN Append(down[x], f) ELSE down[x]]
    BY <1>1 DEF SendToUser
  <2>3. T \in SUBSET Tabs
    OBVIOUS
  <2> HIDE DEF f, T
  <2> QED
    BY <1>2, <1>4, <2>1, <2>2, <2>3, Told
<1>6. TypeOK'
  BY <1>1, <1>2, <1>3, <1>4, <1>5 DEF TypeOK
<1> QED
  BY <1>3, <1>4, <1>5, <1>6 DEF IInv, SocketInv, VerdictInv

LEMMA LateFailsKeeps ==
    ASSUME IInv, NEW s \in Sends, LateFails(s)
    PROVE  IInv'
<1>1. /\ late[s] # NoUser /\ late' = [late EXCEPT ![s] = NoUser]
      /\ UNCHANGED stored \/ stored' = [stored EXCEPT ![s] = @ + 1]
      /\ UNCHANGED <<user, ready, authed, pingOut, final, queue, pending, sequence, opens, peer, up, down, loads, cid, origin, outcome>>
  BY DEF LateFails
<1>2. TypeOK /\ LineInv /\ EchoInv /\ VerdictInv
  BY Parts
<1>3. /\ LineInv' /\ late' \in [Sends -> Users \cup {NoUser}]
      /\ OnTheWay(s) /\ ~OnTheWay(s)' /\ \A x \in Sends : OnTheWay(x)' => OnTheWay(x)
  BY <1>1, <1>2, LateOnce
<1>4. VerdictInv' /\ RowsStay /\ stored' \in [Sends -> Nat]
  <2>1. CASE UNCHANGED stored
    BY <1>1, <1>2, <1>3, <2>1, SameVerdicts DEF TypeOK
  <2>2. CASE stored' = [stored EXCEPT ![s] = @ + 1]
    BY <1>1, <1>2, <1>3, <2>2, RowStored
  <2> QED
    BY <1>1, <2>1, <2>2
<1>5. EchoInv' /\ down' \in [Tabs -> Seq(Down)]
  BY <1>1, <1>2, <1>4, EchoesStay DEF TypeOK
<1>6. TypeOK'
  BY <1>1, <1>2, <1>3, <1>4, <1>5 DEF TypeOK
<1> QED
  BY <1>3, <1>4, <1>5, <1>6 DEF IInv, SocketInv, VerdictInv

-----------------------------------------------------------------------------
(* The inductive invariant, and what follows from it. *)

LEMMA InitEstablishes == Init => IInv
<1> SUFFICES ASSUME Init PROVE IInv
  OBVIOUS
<1>1. \A t \in Tabs : up[t] = <<>> /\ queue[t] = <<>> /\ down[t] = <<>> /\ pending[t] = NoSend
  BY DEF Init
<1>2. TypeOK
  BY EmptySeq DEF Init, TypeOK, ReadyStates, Outcomes, Pages
<1>3. LineInv /\ \A s \in Sends : ~OnTheWay(s)
  BY <1>1, EmptyLine DEF Init, LineInv, OnTheWay
<1>4. SendInv /\ StoredOnce /\ ConfirmedIsKnown
  BY <1>3 DEF Init, SendInv, StoredOnce, ConfirmedIsKnown
<1>5. PendingInv
  BY <1>1 DEF PendingInv
<1>6. EchoInv
  BY <1>1 DEF EchoInv
<1> QED
  BY <1>2, <1>3, <1>4, <1>5, <1>6 DEF IInv, SocketInv

LEMMA NextKeeps == IInv /\ [Next]_vars => IInv'
<1> SUFFICES ASSUME IInv, [Next]_vars PROVE IInv'
  OBVIOUS
<1>1. CASE UNCHANGED vars
  <2>1. UNCHANGED <<user, ready, authed, pingOut, final, queue, pending, sequence, opens, peer, up, down, late, loads, cid, origin, outcome, stored>>
    BY <1>1 DEF vars
  <2>2. TypeOK /\ LineInv /\ EchoInv /\ VerdictInv
    BY Parts
  <2>3. LineInv' /\ \A s \in Sends : OnTheWay(s)' => OnTheWay(s)
    BY <2>1, <2>2, LinesStay
  <2>4. VerdictInv' /\ RowsStay
    BY <2>1, <2>2, <2>3, SameVerdicts
  <2>5. EchoInv'
    BY <2>1, <2>2, <2>4, EchoesStay
  <2>6. TypeOK'
    BY <2>1, <2>2 DEF TypeOK
  <2> QED
    BY <2>3, <2>4, <2>5, <2>6 DEF IInv, SocketInv, VerdictInv
<1>2. CASE Next
  <2>1. ASSUME NEW t \in Tabs, Receive(t) PROVE IInv'
    BY <2>1, ReceivesKeep, EchoKeeps, EndsKeep DEF Receive
  <2>2. ASSUME NEW t \in Tabs, Serve(t) PROVE IInv'
    BY <2>2, RepliesKeep, RefusesKeeps, StoresMessageKeeps, WriteFailsKeeps DEF Serve
  <2>3. ASSUME NEW t \in Tabs, Opened(t) \/ ConnectionEnds(t) \/ Reload(t) PROVE IInv'
    BY <2>3, OpenedKeeps, EndsKeep, ReloadKeeps
  <2>4. ASSUME NEW t \in Tabs, NEW s \in Sends, SendOverSocket(t, s) \/ SendOverHttp(t, s)
        PROVE  IInv'
    BY <2>4, SendOverSocketKeeps, SendOverHttpKeeps
  <2>5. ASSUME NEW t \in Tabs,
               EchoTimeout(t) \/ Tick(t) \/ \E u \in Users : SessionChanges(t, u)
        PROVE  IInv'
    BY <2>5, EchoTimeoutKeeps, TickKeeps, SessionChangesKeeps
  <2>6. ASSUME NEW s \in Sends, StoresLate(s) \/ LateFails(s) PROVE IInv'
    BY <2>6, StoresLateKeeps, LateFailsKeeps
  <2> QED
    BY <1>2, <2>1, <2>2, <2>3, <2>4, <2>5, <2>6 DEF Next
<1> QED
  BY <1>1, <1>2

LEMMA Inductive == Spec => []IInv
  BY InitEstablishes, NextKeeps, PTL DEF Spec

(* Every variable keeps its type: frames name accounts and submissions only *)
(* where their kind has them.                                               *)
THEOREM TypeCorrect == Spec => []TypeOK
<1>1. IInv => TypeOK
  BY DEF IInv
<1> QED
  BY <1>1, Inductive, PTL

(* No submission becomes two rows, whatever closes, reconnects or times out, *)
(* for any number of tabs and accounts (useChatSocket.ts, send: the transport *)
(* is chosen before anything is sent).                                        *)
THEOREM NothingIsStoredTwice == Spec => []StoredOnce
<1>1. IInv => StoredOnce
  BY DEF IInv, SocketInv
<1> QED
  BY <1>1, Inductive, PTL

-----------------------------------------------------------------------------
(* The counters: what a step does to ids, pages and verdicts. *)

(* A submission that left is never one that was not made. *)
LEMMA Submitted ==
    ASSUME IInv, [Next]_vars, NEW s \in Sends, outcome[s] # "none"
    PROVE  outcome'[s] # "none"
<1>1. outcome \in [Sends -> Outcomes]
  BY DEF IInv, TypeOK
<1>2. CASE UNCHANGED outcome
  BY <1>2
<1>3. ASSUME NEW v \in Outcomes \ {"none"}, NEW x, outcome' = [outcome EXCEPT ![x] = v]
      PROVE  outcome'[s] # "none"
  BY <1>1, <1>3
<1>4. ASSUME NEW v \in Outcomes \ {"none"}, NEW x,
             outcome' = [y \in Sends |-> IF y = x THEN v ELSE outcome[y]]
      PROVE  outcome'[s] # "none"
  BY <1>4
<1>5. CASE UNCHANGED vars
  BY <1>2, <1>5 DEF vars
<1>6. ASSUME NEW t \in Tabs, Serve(t) PROVE outcome'[s] # "none"
  BY <1>2, <1>6 DEF Serve, Authenticates, Refuses, AnswersPing, StoresMessage, WriteFails
<1>7. ASSUME NEW t \in Tabs, AuthOk(t) \/ Pong(t) \/ ErrorShown(t) PROVE outcome'[s] # "none"
  BY <1>2, <1>7 DEF AuthOk, Pong, ErrorShown
<1>8. ASSUME NEW t \in Tabs, Opened(t) \/ Tick(t) \/ \E u \in Users : SessionChanges(t, u)
      PROVE  outcome'[s] # "none"
  BY <1>2, <1>8 DEF Opened, Tick, SessionChanges
<1>9. ASSUME NEW x \in Sends, StoresLate(x) \/ LateFails(x) PROVE outcome'[s] # "none"
  BY <1>2, <1>9 DEF StoresLate, LateFails
<1>10. ASSUME NEW t \in Tabs, ConnectionEnds(t) \/ ServerClosed(t) PROVE outcome'[s] # "none"
  BY <1>4, <1>10 DEF ConnectionEnds, ServerClosed, Closed, FailPendingSends, Outcomes
<1>11. ASSUME NEW t \in Tabs, Reload(t) PROVE outcome'[s] # "none"
  BY <1>4, <1>11 DEF Reload, Outcomes
<1>12. ASSUME NEW t \in Tabs, EchoTimeout(t) \/ Echo(t) PROVE outcome'[s] # "none"
  BY <1>2, <1>3, <1>12 DEF EchoTimeout, Echo, Outcomes
<1>13. ASSUME NEW t \in Tabs, NEW x \in Sends, SendOverSocket(t, x) \/ SendOverHttp(t, x)
       PROVE  outcome'[s] # "none"
  BY <1>3, <1>13 DEF SendOverSocket, SendOverHttp, Outcomes
<1> QED
  BY <1>5, <1>6, <1>7, <1>8, <1>9, <1>10, <1>11, <1>12, <1>13 DEF Next, Receive

LEMMA ClientIdsStand ==
    ASSUME [Next]_vars
    PROVE  \/ UNCHANGED <<sequence, loads, cid, origin>>
           \/ \E t \in Tabs : Reload(t)
           \/ \E t \in Tabs, s \in Sends : SendOverSocket(t, s)
<1>1. CASE UNCHANGED vars
  BY <1>1 DEF vars
<1>2. ASSUME NEW t \in Tabs, Serve(t) PROVE UNCHANGED <<sequence, loads, cid, origin>>
  BY <1>2 DEF Serve, Authenticates, Refuses, AnswersPing, StoresMessage, WriteFails, sent
<1>3. ASSUME NEW t \in Tabs, Receive(t) \/ ConnectionEnds(t)
      PROVE  UNCHANGED <<sequence, loads, cid, origin>>
  BY <1>3 DEF Receive, AuthOk, Pong, ErrorShown, Echo, ServerClosed, ConnectionEnds, Closed, sent
<1>4. ASSUME NEW t \in Tabs,
             \/ Opened(t) \/ Tick(t) \/ EchoTimeout(t) \/ \E u \in Users : SessionChanges(t, u)
             \/ \E x \in Sends : SendOverHttp(t, x)
      PROVE  UNCHANGED <<sequence, loads, cid, origin>>
  BY <1>4 DEF Opened, Tick, EchoTimeout, SessionChanges, SendOverHttp, sent
<1>5. ASSUME NEW s \in Sends, StoresLate(s) \/ LateFails(s)
      PROVE  UNCHANGED <<sequence, loads, cid, origin>>
  BY <1>5 DEF StoresLate, LateFails
<1> QED
  BY <1>1, <1>2, <1>3, <1>4, <1>5 DEF Next

LEMMA CounterKeeps ==
    ASSUME IInv, CounterInv, [Next]_vars
    PROVE  CounterInv'
<1>1. /\ sequence \in [Tabs -> Nat] /\ loads \in [Tabs -> Nat \ {0}] /\ cid \in [Sends -> Nat]
      /\ origin \in [Sends -> Pages]
  BY DEF IInv, TypeOK
<1>2. \A s \in Sends : outcome[s] # "none" => outcome'[s] # "none"
  BY Submitted
<1>3. CASE UNCHANGED <<sequence, loads, cid, origin>>
  BY <1>2, <1>3 DEF CounterInv
(* A reload starts a page that has sent nothing. *)
<1>4. ASSUME NEW t \in Tabs, Reload(t)
      PROVE  CounterInv'
  <2>1. /\ UNCHANGED <<cid, origin>> /\ loads'[t] = loads[t] + 1
        /\ \A y \in Tabs : y # t => loads'[y] = loads[y] /\ sequence'[y] = sequence[y]
    BY <1>1, <1>4 DEF Reload
  <2> SUFFICES ASSUME NEW s \in Sends, cid[s] > 0
               PROVE  /\ outcome'[s] # "none"
                      /\ \E y \in Tabs : \E l \in 1..loads'[y] :
                            origin[s] = <<y, l>> /\ (l = loads'[y] => cid[s] <= sequence'[y])
                      /\ \A x \in Sends : cid[x] = cid[s] /\ origin[x] = origin[s] => x = s
    BY <2>1 DEF CounterInv
  <2>2. PICK y \in Tabs : \E l \in 1..loads[y] :
           origin[s] = <<y, l>> /\ (l = loads[y] => cid[s] <= sequence[y])
    BY DEF CounterInv
  <2>3. PICK l \in 1..loads[y] :
           origin[s] = <<y, l>> /\ (l = loads[y] => cid[s] <= sequence[y])
    BY <2>2
  <2>4. l \in 1..loads'[y] /\ (l = loads'[y] => cid[s] <= sequence'[y])
    BY <1>1, <2>1, <2>3
  <2>5. /\ outcome'[s] # "none"
        /\ \A x \in Sends : cid[x] = cid[s] /\ origin[x] = origin[s] => x = s
    BY <1>2 DEF CounterInv
  <2> QED
    BY <2>3, <2>4, <2>5
<1>5. ASSUME NEW t \in Tabs, NEW s \in Sends, SendOverSocket(t, s)
      PROVE  CounterInv'
  <2>1. /\ outcome[s] = "none" /\ sequence' = [sequence EXCEPT ![t] = sequence[t] + 1]
        /\ cid' = [cid EXCEPT ![s] = sequence[t] + 1] /\ loads' = loads
        /\ origin' = [origin EXCEPT ![s] = <<t, loads[t]>>]
        /\ outcome' = [outcome EXCEPT ![s] = "pending"]
    BY <1>5 DEF SendOverSocket, CanSubmit, NextClientId
  <2>2. /\ cid'[s] = sequence[t] + 1 /\ sequence'[t] = sequence[t] + 1
        /\ origin'[s] = <<t, loads[t]>> /\ outcome'[s] = "pending"
        /\ \A x \in Sends : x # s => cid'[x] = cid[x] /\ origin'[x] = origin[x]
        /\ \A y \in Tabs : sequence'[y] >= sequence[y]
    <3>1. /\ sequence \in [Tabs -> Nat] /\ cid \in [Sends -> Nat]
          /\ origin \in [Sends -> Pages] /\ outcome \in [Sends -> Outcomes]
      BY DEF IInv, TypeOK
    <3>2. /\ cid'[s] = sequence[t] + 1 /\ origin'[s] = <<t, loads[t]>> /\ outcome'[s] = "pending"
          /\ \A x \in Sends : x # s => cid'[x] = cid[x] /\ origin'[x] = origin[x]
      BY <2>1, <3>1
    <3>3. /\ sequence'[t] = sequence[t] + 1 /\ sequence[t] \in Nat
          /\ \A y \in Tabs : sequence[y] \in Nat /\ (y # t => sequence'[y] = sequence[y])
      BY <2>1, <3>1
    <3>4. \A y \in Tabs : sequence'[y] >= sequence[y]
      BY <3>3
    <3> QED
      BY <3>2, <3>3, <3>4
  <2>3. ASSUME NEW x \in Sends, x # s, cid[x] > 0
        PROVE  \E y \in Tabs : \E l \in 1..loads[y] :
                  /\ origin[x] = <<y, l>>
                  /\ (l = loads[y] => cid[x] <= sequence[y])
                  /\ (l = loads[y] => cid[x] <= sequence'[y])
    <3>1. PICK y \in Tabs : \E l \in 1..loads[y] :
             origin[x] = <<y, l>> /\ (l = loads[y] => cid[x] <= sequence[y])
      BY <2>3 DEF CounterInv
    <3>2. PICK l \in 1..loads[y] :
             origin[x] = <<y, l>> /\ (l = loads[y] => cid[x] <= sequence[y])
      BY <3>1
    <3>3. l = loads[y] => cid[x] <= sequence'[y]
      BY <1>1, <2>1, <2>2, <3>2
    <3> QED
      BY <3>2, <3>3
  <2>4. ASSUME NEW x \in Sends, x # s, cid'[x] = cid'[s], origin'[x] = origin'[s]
        PROVE  FALSE
    <3>1. cid[x] = sequence[t] + 1 /\ origin[x] = <<t, loads[t]>> /\ cid[x] > 0
      BY <1>1, <2>2, <2>4
    <3>2. PICK y \in Tabs : \E l \in 1..loads[y] :
             origin[x] = <<y, l>> /\ (l = loads[y] => cid[x] <= sequence[y])
      BY <2>3, <2>4, <3>1
    <3>3. PICK l \in 1..loads[y] :
             origin[x] = <<y, l>> /\ (l = loads[y] => cid[x] <= sequence[y])
      BY <3>2
    <3>4. y = t /\ l = loads[t]
      BY <3>1, <3>3
    <3> QED
      BY <1>1, <3>1, <3>3, <3>4
  <2> SUFFICES ASSUME NEW x \in Sends, cid'[x] > 0
               PROVE  /\ outcome'[x] # "none"
                      /\ \E y \in Tabs : \E l \in 1..loads'[y] :
                            origin'[x] = <<y, l>> /\ (l = loads'[y] => cid'[x] <= sequence'[y])
                      /\ \A z \in Sends : cid'[z] = cid'[x] /\ origin'[z] = origin'[x] => z = x
    BY DEF CounterInv
  <2>5. CASE x = s
    <3>1. loads[t] \in 1..loads'[t]
      <4>1. loads[t] >= 1
        BY DEF IInv, TypeOK
      <4> QED
        BY <1>1, <2>1, <4>1
    <3> QED
      BY <1>1, <2>1, <2>2, <2>4, <2>5, <3>1
  <2>6. CASE x # s
    <3>1. cid'[x] = cid[x] /\ origin'[x] = origin[x] /\ cid[x] > 0
      BY <2>2, <2>6
    <3>2. outcome'[x] # "none"
      BY <1>2, <3>1 DEF CounterInv
    <3>3. \E y \in Tabs : \E l \in 1..loads'[y] :
             origin'[x] = <<y, l>> /\ (l = loads'[y] => cid'[x] <= sequence'[y])
      BY <2>1, <2>3, <2>6, <3>1
    <3>4. \A z \in Sends : cid'[z] = cid'[x] /\ origin'[z] = origin'[x] => z = x
      BY <2>2, <2>4, <2>6, <3>1 DEF CounterInv
    <3> QED
      BY <3>2, <3>3, <3>4
  <2> QED
    BY <2>5, <2>6
<1> QED
  BY <1>3, <1>4, <1>5, ClientIdsStand

(* A confirmation stands for the row of the submission it is shown for,      *)
(* unless another page load, of this tab or of another, stored one under the *)
(* same client_id: however late the echo, and whichever connection brings it *)
(* (useChatSocket.ts, handleFrame; protocol.ts, nextClientId).               *)
THEOREM PagesConfirmTheirOwn == Spec => []OnlyATwinMisleads
<1>1. Init => CounterInv
  BY DEF Init, CounterInv
<1>2. IInv /\ CounterInv /\ [Next]_vars => CounterInv'
  BY CounterKeeps
<1>3. IInv /\ CounterInv => OnlyATwinMisleads
  <2> SUFFICES ASSUME IInv, CounterInv, NEW s \in Sends, outcome[s] = "confirmed",
                      ~(stored[s] > 0)
               PROVE  cid[s] > 0 /\ TwinStored(s)
    BY DEF OnlyATwinMisleads
  <2>1. cid[s] > 0 /\ StoredAs(cid[s])
    BY DEF IInv, SocketInv, ConfirmedIsKnown
  <2>2. PICK x \in Sends : stored[x] > 0 /\ cid[x] = cid[s]
    BY <2>1 DEF StoredAs
  <2>3. origin[x] # origin[s]
    BY <2>1, <2>2 DEF CounterInv
  <2> QED
    BY <2>1, <2>2, <2>3 DEF TwinStored
<1> QED
  BY <1>1, <1>2, <1>3, Inductive, PTL DEF Spec
=============================================================================
