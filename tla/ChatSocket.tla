----------------------------- MODULE ChatSocket -----------------------------
(***************************************************************************)
(* The client's realtime hook (realtime/useChatSocket.ts) with the composer  *)
(* that calls it (pages/Chat.tsx), for the tabs of one browser, against the  *)
(* server as the Realtime module has it: frames in order, a first frame that *)
(* must authenticate, and a fan-out of each stored message to every socket   *)
(* of its author, the client_id it came with included.  A handler outlives    *)
(* its connection by the messages it has received, and a page reload starts   *)
(* the tab anew.  An action is one event of a tab or one frame handled by the  *)
(* server.                                                                    *)
(***************************************************************************)
EXTENDS Naturals, Sequences

CONSTANTS Tabs,
          Users,     \* the accounts a tab's session may name
          Sends,     \* submissions of the composer
          NoUser, NoSend,
          MaxOpens,  \* bound: connections a tab opens
          MaxLoads,  \* bound: times a tab is loaded
          MaxQueue   \* bound: frames on their way when a ping is sent

ASSUME ConstantsDistinct ==
    /\ NoUser \notin Users /\ "none" \notin Users /\ "fresh" \notin Users
    /\ NoSend \notin Sends
    /\ MaxOpens \in Nat /\ MaxLoads \in Nat /\ MaxQueue \in Nat

VARIABLES
    user,     \* [Tabs -> Users]: userId of the signed-in session
    ready,    \* [Tabs -> ReadyStates]: the browser's socket
    authed,   \* [Tabs -> Users]: authenticatedUserId, authenticatedRef
    pingOut,  \* [Tabs -> BOOLEAN]: pingSentAtRef is set
    final,    \* [Tabs -> BOOLEAN]: the library will not reconnect
    queue,    \* [Tabs -> Seq(Up)]: writes the library keeps for the next socket
    pending,  \* [Tabs -> Sends]: the entry of pendingRef
    sequence, \* [Tabs -> Nat]: protocol.ts, one counter per page load
    opens,    \* [Tabs -> Nat]: connections opened so far
    peer,     \* [Tabs -> "none", "fresh" or the user]: the server's handler
    up,       \* [Tabs -> Seq(Up)]: frames the server has not read yet
    down,     \* [Tabs -> Seq(Down)]: frames the tab has not handled yet
    late,     \* [Sends -> the user]: received on a connection that is over,
              \* and not stored yet
    loads,    \* [Tabs -> Nat]: page loads so far
    cid,      \* [Sends -> Nat]: the client_id a submission was sent with
    origin,   \* [Sends -> Pages]: the page that sent it (history)
    outcome,  \* [Sends -> Outcomes]: what the user has been told
    stored    \* [Sends -> Nat]: rows the submission has become

vars == <<user, ready, authed, pingOut, final, queue, pending, sequence, opens,
          peer, up, down, late, loads, cid, origin, outcome, stored>>

(* What changes only as a message is sent, a connection ends or a page loads. *)
sent == <<late, loads, cid, origin>>

ReadyStates == {"closed", "open", "closing"}
Outcomes == {"none", "pending", "confirmed", "unconfirmed", "failed", "abandoned"}
Pages == (Tabs \X Nat) \cup {<<>>}

Up == [type : {"auth", "message", "ping"}, user : Users \cup {NoUser},
       send : Sends \cup {NoSend}]
Down == [type : {"auth_ok", "message", "pong", "error", "close", "refuse"},
         user : Users \cup {NoUser}, cid : Nat]

AuthFrame(u)    == [type |-> "auth", user |-> u, send |-> NoSend]
(* Mutant: the client_id where the submission belongs. *)
MutSendsId(s)   == [type |-> "message", user |-> NoUser, send |-> cid[s]]

SendFrame(s)    == [type |-> "message", user |-> NoUser, send |-> s]
PingFrame       == [type |-> "ping", user |-> NoUser, send |-> NoSend]
DownFrame(type, u, c) == [type |-> type, user |-> u, cid |-> c]
Plain(type)     == DownFrame(type, NoUser, 0)

Init ==
    /\ user \in [Tabs -> Users]
    /\ ready = [t \in Tabs |-> "closed"]
    /\ authed = [t \in Tabs |-> NoUser]
    /\ pingOut = [t \in Tabs |-> FALSE]
    /\ final = [t \in Tabs |-> FALSE]
    /\ queue = [t \in Tabs |-> <<>>]
    /\ pending = [t \in Tabs |-> NoSend]
    /\ sequence = [t \in Tabs |-> 0]
    /\ opens = [t \in Tabs |-> 0]
    /\ peer = [t \in Tabs |-> "none"]
    /\ up = [t \in Tabs |-> <<>>]
    /\ down = [t \in Tabs |-> <<>>]
    /\ late = [s \in Sends |-> NoUser]
    /\ loads = [t \in Tabs |-> 1]
    /\ cid = [s \in Sends |-> 0]
    /\ origin = [s \in Sends |-> <<>>]
    /\ outcome = [s \in Sends |-> "none"]
    /\ stored = [s \in Sends |-> 0]

-----------------------------------------------------------------------------
(* The library. *)

(* sendJsonMessage: written to an open socket, kept for the next otherwise. *)
Write(t, frame) ==
    IF ready[t] = "open"
    THEN up' = [up EXCEPT ![t] = Append(@, frame)] /\ UNCHANGED queue
    ELSE queue' = [queue EXCEPT ![t] = Append(@, frame)] /\ UNCHANGED up

(* The socket opens, now or on a reconnect: the library writes what it has *)
(* kept, then the handshake effect writes the auth frame.                  *)
Opened(t) ==
    /\ ready[t] = "closed" /\ ~final[t] /\ opens[t] < MaxOpens
    /\ ready' = [ready EXCEPT ![t] = "open"]
    /\ opens' = [opens EXCEPT ![t] = @ + 1]
    /\ peer' = [peer EXCEPT ![t] = "fresh"]
    /\ up' = [up EXCEPT ![t] = Append(queue[t], AuthFrame(user[t]))]
    /\ queue' = [queue EXCEPT ![t] = <<>>]
    /\ UNCHANGED <<user, authed, pingOut, final, pending, sequence, down, sent,
                   outcome, stored>>

ForgetSession(t) ==
    /\ authed' = [authed EXCEPT ![t] = NoUser]
    /\ pingOut' = [pingOut EXCEPT ![t] = FALSE]

FailPendingSends(t) ==
    /\ pending' = [pending EXCEPT ![t] = NoSend]
    /\ outcome' = [s \in Sends |-> IF s = pending[t] THEN "unconfirmed" ELSE outcome[s]]

(* The connection is over.  The messages the server has received by then its *)
(* handler still stores, for the user it authenticated; the rest is lost.    *)
Disconnect(t) ==
    /\ ready' = [ready EXCEPT ![t] = "closed"]
    /\ peer' = [peer EXCEPT ![t] = "none"]
    /\ up' = [up EXCEPT ![t] = <<>>]
    /\ down' = [down EXCEPT ![t] = <<>>]
    /\ \E received \in 0..Len(up[t]) :
          late' = [s \in Sends |->
                     IF peer[t] \in Users /\ \E i \in 1..received : up[t][i].send = s
                     THEN peer[t] ELSE late[s]]

(* handleClose: forget the session, fail the pending send; only a refusal  *)
(* and a session mismatch are final.                                       *)
Closed(t, noRetry) ==
    /\ Disconnect(t)
    /\ final' = [final EXCEPT ![t] = noRetry]
    /\ ForgetSession(t) /\ FailPendingSends(t)
    /\ UNCHANGED <<user, queue, sequence, opens, loads, cid, origin, stored>>

(* The connection is lost, or the close this tab asked for completes: with *)
(* SESSION_MISMATCH, or with no code when the heartbeat asked for it.       *)
ConnectionEnds(t) ==
    /\ ready[t] # "closed"
    /\ \/ Closed(t, FALSE)
       \/ ready[t] = "closing" /\ authed[t] = NoUser /\ Closed(t, TRUE)

(* The page is loaded anew: a new module, a new hook, a new socket, and     *)
(* nobody left to be told how the pending send ended.                      *)
Reload(t) ==
    /\ loads[t] < MaxLoads
    /\ Disconnect(t)
    /\ loads' = [loads EXCEPT ![t] = @ + 1]
    /\ sequence' = [sequence EXCEPT ![t] = 0]
    /\ ForgetSession(t)
    /\ final' = [final EXCEPT ![t] = FALSE]
    /\ queue' = [queue EXCEPT ![t] = <<>>]
    /\ pending' = [pending EXCEPT ![t] = NoSend]
    /\ outcome' = [s \in Sends |-> IF s = pending[t] THEN "abandoned" ELSE outcome[s]]
    /\ UNCHANGED <<user, opens, cid, origin, stored>>

-----------------------------------------------------------------------------
(* handleFrame: a socket that is closing delivers nothing more. *)

Handle(t, types) ==
    /\ ready[t] = "open"
    /\ down[t] # <<>> /\ Head(down[t]).type \in types
    /\ down' = [down EXCEPT ![t] = Tail(@)]

(* A socket that names somebody else is closed, not adopted. *)
AuthOk(t) ==
    /\ Handle(t, {"auth_ok"})
    /\ IF Head(down[t]).user = user[t]
       THEN authed' = [authed EXCEPT ![t] = user[t]] /\ UNCHANGED ready
       ELSE ready' = [ready EXCEPT ![t] = "closing"] /\ UNCHANGED authed
    /\ UNCHANGED <<user, pingOut, final, queue, pending, sequence, opens, peer,
                   up, sent, outcome, stored>>

(* Mutant: any stored message confirms the pending send. *)
MutAnyEcho(t) ==
    /\ Handle(t, {"message"})
    /\ pending' = [pending EXCEPT ![t] = NoSend]
    /\ outcome' = [s \in Sends |-> IF s = pending[t] THEN "confirmed" ELSE outcome[s]]
    /\ UNCHANGED <<user, ready, authed, pingOut, final, queue, sequence, opens,
                   peer, up, sent, stored>>

(* The echo of the pending send confirms it. *)
Echo(t) ==
    LET s == pending[t] IN
    /\ Handle(t, {"message"})
    /\ IF s # NoSend /\ cid[s] = Head(down[t]).cid
       THEN /\ outcome' = [outcome EXCEPT ![s] = "confirmed"]
            /\ pending' = [pending EXCEPT ![t] = NoSend]
       ELSE UNCHANGED <<outcome, pending>>
    /\ UNCHANGED <<user, ready, authed, pingOut, final, queue, sequence, opens,
                   peer, up, sent, stored>>

Pong(t) ==
    /\ Handle(t, {"pong"})
    /\ pingOut' = [pingOut EXCEPT ![t] = FALSE]
    /\ UNCHANGED <<user, ready, authed, final, queue, pending, sequence, opens,
                   peer, up, sent, outcome, stored>>

ErrorShown(t) ==
    /\ Handle(t, {"error"})
    /\ UNCHANGED <<user, ready, authed, pingOut, final, queue, pending, sequence,
                   opens, peer, up, sent, outcome, stored>>

ServerClosed(t) ==
    /\ ready[t] = "open"
    /\ down[t] # <<>> /\ Head(down[t]).type \in {"close", "refuse"}
    /\ Closed(t, Head(down[t]).type = "refuse")

-----------------------------------------------------------------------------
(* send_to_user: every socket of u is told of a message sent as client_id c. *)
SendToUser(u, c) ==
    down' = [x \in Tabs |-> IF peer[x] = u
                            THEN Append(down[x], DownFrame("message", u, c))
                            ELSE down[x]]

(* The composer: one submission at a time (isSending). *)
CanSubmit(t, s) == outcome[s] = "none" /\ pending[t] = NoSend

NextClientId(t) == sequence[t] + 1

(* readyStateRef is still OPEN while a close this tab asked for completes. *)
SocketCanCarryIt(t) == ready[t] # "closed" /\ authed[t] # NoUser

SendOverSocket(t, s) ==
    /\ CanSubmit(t, s)
    /\ SocketCanCarryIt(t)
    /\ sequence' = [sequence EXCEPT ![t] = NextClientId(t)]
    /\ cid' = [cid EXCEPT ![s] = NextClientId(t)]
    /\ origin' = [origin EXCEPT ![s] = <<t, loads[t]>>]
    /\ pending' = [pending EXCEPT ![t] = s]
    /\ outcome' = [outcome EXCEPT ![s] = "pending"]
    /\ Write(t, SendFrame(s))
    /\ UNCHANGED <<user, ready, authed, pingOut, final, opens, peer, down, late,
                   loads, stored>>

(* POST /messages/, as the tab's session: answered, or failed before or    *)
(* after the row was stored and announced, with no client_id.              *)
SendOverHttp(t, s) ==
    /\ CanSubmit(t, s)
    /\ ~SocketCanCarryIt(t)
    /\ \/ /\ stored' = [stored EXCEPT ![s] = @ + 1]
          /\ SendToUser(user[t], 0)
          /\ \E o \in {"confirmed", "failed"} : outcome' = [outcome EXCEPT ![s] = o]
       \/ /\ outcome' = [outcome EXCEPT ![s] = "failed"]
          /\ UNCHANGED <<stored, down>>
    /\ UNCHANGED <<user, ready, authed, pingOut, final, queue, pending, sequence,
                   opens, peer, up, sent>>

(* Mutants: the submission is posted over HTTP instead; no timer.          *)
MutFallsBack(t) ==
    /\ pending[t] # NoSend
    /\ pending' = [pending EXCEPT ![t] = NoSend]
    /\ outcome' = [outcome EXCEPT ![pending[t]] = "confirmed"]
    /\ stored' = [stored EXCEPT ![pending[t]] = @ + 1]
    /\ UNCHANGED <<user, ready, authed, pingOut, final, queue, sequence, opens,
                   peer, up, down, sent>>
MutNoTimer(t) == FALSE /\ UNCHANGED vars

(* The echo took longer than ECHO_TIMEOUT_MS. *)
EchoTimeout(t) ==
    /\ pending[t] # NoSend
    /\ pending' = [pending EXCEPT ![t] = NoSend]
    /\ outcome' = [outcome EXCEPT ![pending[t]] = "unconfirmed"]
    /\ UNCHANGED <<user, ready, authed, pingOut, final, queue, sequence, opens,
                   peer, up, down, sent, stored>>

-----------------------------------------------------------------------------
(* Mutant: pings go out and nobody looks for the pong. *)
MutPingsOnly(t) ==
    /\ ready[t] # "closed" /\ authed[t] # NoUser
    /\ Len(up[t]) + Len(queue[t]) + Len(down[t]) < MaxQueue
    /\ pingOut' = [pingOut EXCEPT ![t] = TRUE]
    /\ Write(t, PingFrame)
    /\ UNCHANGED <<user, ready, authed, final, pending, sequence, opens, peer,
                   down, sent, outcome, stored>>

(* The heartbeat: a ping unanswered at the next tick closes the socket. *)
Tick(t) ==
    /\ ready[t] # "closed" /\ authed[t] # NoUser
    /\ IF pingOut[t]
       THEN /\ pingOut' = [pingOut EXCEPT ![t] = FALSE]
            /\ ready' = [ready EXCEPT ![t] = "closing"]
            /\ UNCHANGED <<up, queue>>
       ELSE /\ Len(up[t]) + Len(queue[t]) + Len(down[t]) < MaxQueue
            /\ pingOut' = [pingOut EXCEPT ![t] = TRUE]
            /\ Write(t, PingFrame)
            /\ UNCHANGED ready
    /\ UNCHANGED <<user, authed, final, pending, sequence, opens, peer, down,
                   sent, outcome, stored>>

(* The session is renewed, and the cookie now names another account. *)
SessionChanges(t, u) ==
    /\ u # user[t]
    /\ user' = [user EXCEPT ![t] = u]
    /\ UNCHANGED <<ready, authed, pingOut, final, queue, pending, sequence, opens,
                   peer, up, down, sent, outcome, stored>>

-----------------------------------------------------------------------------
(* The server. *)

Reads(t, types) ==
    /\ up[t] # <<>> /\ Head(up[t]).type \in types
    /\ up' = [up EXCEPT ![t] = Tail(@)]

Tell(t, frame) == down' = [down EXCEPT ![t] = Append(@, frame)]

Authenticates(t) ==
    /\ peer[t] = "fresh"
    /\ Reads(t, {"auth"})
    /\ peer' = [peer EXCEPT ![t] = Head(up[t]).user]
    /\ Tell(t, DownFrame("auth_ok", Head(up[t]).user, 0))
    /\ UNCHANGED <<user, ready, authed, pingOut, final, queue, pending, sequence,
                   opens, sent, outcome, stored>>

(* An expired token, no frame in time, or a first frame that is not an     *)
(* auth frame: an error frame and close code 1008.                         *)
Refuses(t) ==
    /\ peer[t] = "fresh"
    /\ up' = [up EXCEPT ![t] = <<>>]
    /\ peer' = [peer EXCEPT ![t] = "none"]
    /\ down' = [down EXCEPT ![t] = @ \o <<Plain("error"), Plain("refuse")>>]
    /\ UNCHANGED <<user, ready, authed, pingOut, final, queue, pending, sequence,
                   opens, sent, outcome, stored>>

AnswersPing(t) ==
    /\ peer[t] \in Users
    /\ Reads(t, {"ping"})
    /\ Tell(t, Plain("pong"))
    /\ UNCHANGED <<user, ready, authed, pingOut, final, queue, pending, sequence,
                   opens, peer, sent, outcome, stored>>

(* create_message and send_to_user, the client_id as the sender gave it. *)
StoresMessage(t) ==
    LET s == Head(up[t]).send IN
    /\ peer[t] \in Users
    /\ Reads(t, {"message"})
    /\ stored' = [stored EXCEPT ![s] = @ + 1]
    /\ SendToUser(peer[t], cid[s])
    /\ UNCHANGED <<user, ready, authed, pingOut, final, queue, pending, sequence,
                   opens, peer, sent, outcome>>

(* The write raises before or after its commit: the handler ends. *)
WriteFails(t) ==
    /\ peer[t] \in Users
    /\ Reads(t, {"message"})
    /\ \/ UNCHANGED stored
       \/ stored' = [stored EXCEPT ![Head(up[t]).send] = @ + 1]
    /\ peer' = [peer EXCEPT ![t] = "none"]
    /\ Tell(t, Plain("close"))
    /\ UNCHANGED <<user, ready, authed, pingOut, final, queue, pending, sequence,
                   opens, sent, outcome>>

(* The handler of a connection that is over comes to a message it received *)
(* before: stored and announced like any other, to the tab's next          *)
(* connection too.                                                         *)
StoresLate(s) ==
    /\ late[s] # NoUser
    /\ late' = [late EXCEPT ![s] = NoUser]
    /\ stored' = [stored EXCEPT ![s] = @ + 1]
    /\ SendToUser(late[s], cid[s])
    /\ UNCHANGED <<user, ready, authed, pingOut, final, queue, pending, sequence,
                   opens, peer, up, loads, cid, origin, outcome>>

(* Or the handler ends before or after the commit, and tells nobody. *)
LateFails(s) ==
    /\ late[s] # NoUser
    /\ late' = [late EXCEPT ![s] = NoUser]
    /\ \/ UNCHANGED stored
       \/ stored' = [stored EXCEPT ![s] = @ + 1]
    /\ UNCHANGED <<user, ready, authed, pingOut, final, queue, pending, sequence,
                   opens, peer, up, down, loads, cid, origin, outcome>>

-----------------------------------------------------------------------------
Receive(t) == AuthOk(t) \/ Echo(t) \/ Pong(t) \/ ErrorShown(t) \/ ServerClosed(t)
Serve(t) == \/ Authenticates(t) \/ Refuses(t) \/ AnswersPing(t)
            \/ StoresMessage(t) \/ WriteFails(t)

Next ==
    \/ \E t \in Tabs :
          \/ Opened(t) \/ ConnectionEnds(t) \/ Reload(t) \/ Receive(t) \/ Serve(t)
          \/ \E s \in Sends : SendOverSocket(t, s) \/ SendOverHttp(t, s)
          \/ EchoTimeout(t) \/ Tick(t)
          \/ \E u \in Users : SessionChanges(t, u)
    \/ \E s \in Sends : StoresLate(s) \/ LateFails(s)

Spec == Init /\ [][Next]_vars

(* Timers fire, and the browser completes a close it was asked for.  The   *)
(* server and the network owe nothing.                                     *)
FairSpec ==
    /\ Spec
    /\ \A t \in Tabs : /\ WF_vars(EchoTimeout(t))
                       /\ WF_vars(Tick(t))
                       /\ WF_vars(ready[t] = "closing" /\ ConnectionEnds(t))

-----------------------------------------------------------------------------
TypeOK ==
    /\ user \in [Tabs -> Users]
    /\ ready \in [Tabs -> ReadyStates]
    /\ authed \in [Tabs -> Users \cup {NoUser}]
    /\ pingOut \in [Tabs -> BOOLEAN] /\ final \in [Tabs -> BOOLEAN]
    /\ queue \in [Tabs -> Seq(Up)] /\ up \in [Tabs -> Seq(Up)]
    /\ down \in [Tabs -> Seq(Down)]
    /\ pending \in [Tabs -> Sends \cup {NoSend}]
    /\ sequence \in [Tabs -> Nat] /\ opens \in [Tabs -> Nat]
    /\ peer \in [Tabs -> Users \cup {"none", "fresh"}]
    /\ late \in [Sends -> Users \cup {NoUser}]
    /\ loads \in [Tabs -> Nat \ {0}]
    /\ cid \in [Sends -> Nat] /\ stored \in [Sends -> Nat]
    /\ origin \in [Sends -> Pages]
    /\ outcome \in [Sends -> Outcomes]

(* useChatSocket.ts, send: the transport is chosen before anything is      *)
(* sent, because falling back later could store the message twice.  No     *)
(* submission becomes two rows, whatever closes, reconnects or times out.  *)
StoredOnce == \A s \in Sends : stored[s] <= 1

(* useChatSocket.ts, handleFrame: the echo is "the confirmation that makes *)
(* a socket send as trustworthy as the REST response".  A submission that   *)
(* the page calls sent is stored; only a page with a counter of its own, of *)
(* another tab or of an earlier load, that stored a message under the same  *)
(* id can make it look so.  Echoes may be late, of sends given up, or come  *)
(* on another connection than the one they answer.                          *)
TwinStored(s) ==
    \E x \in Sends : cid[x] = cid[s] /\ origin[x] # origin[s] /\ stored[x] > 0

OnlyATwinMisleads ==
    \A s \in Sends : outcome[s] = "confirmed" =>
       stored[s] > 0 \/ (cid[s] > 0 /\ TwinStored(s))

(* The composer is never disabled for ever, whether the server answers,    *)
(* goes silent, or the connection is lost and does not come back; only a    *)
(* reload leaves the user without a verdict.                               *)
SendsSettle ==
    \A s \in Sends :
       outcome[s] = "pending" ~> outcome[s] \in {"confirmed", "unconfirmed", "abandoned"}

(* A server that stops answering is noticed: every ping is answered, or    *)
(* its connection is really over (and the library replaces it).            *)
SilenceNoticed ==
    \A t \in Tabs :
       pingOut[t] ~> (~pingOut[t] /\ ready[t] = "open") \/ ready[t] = "closed"

-----------------------------------------------------------------------------
(* The inductive invariant behind StoredOnce and OnlyATwinMisleads. *)

WellFormed(f) ==
    /\ f.type = "auth" => f.user \in Users
    /\ f.type = "message" => f.send \in Sends

Carries(q, s) == \E i \in 1..Len(q) : q[i].send = s
CarriesOnce(q, s) == \A i, j \in 1..Len(q) : q[i].send = s /\ q[j].send = s => i = j

(* A write of s has not reached the server yet, and still may. *)
OnTheWay(s) == \/ \E t \in Tabs : Carries(up[t], s) \/ Carries(queue[t], s)
               \/ late[s] # NoUser

(* A submission is written once: no frame of it is at two places. *)
LineInv ==
    /\ \A t \in Tabs : /\ \A i \in 1..Len(up[t]) : WellFormed(up[t][i])
                       /\ \A i \in 1..Len(queue[t]) : WellFormed(queue[t][i])
    /\ \A s \in Sends, t \in Tabs :
          /\ CarriesOnce(up[t], s) /\ CarriesOnce(queue[t], s)
          /\ late[s] # NoUser => ~Carries(up[t], s) /\ ~Carries(queue[t], s)
          /\ \A x \in Tabs : /\ Carries(up[t], s) => ~Carries(queue[x], s)
                             /\ Carries(up[t], s) /\ Carries(up[x], s) => t = x
                             /\ Carries(queue[t], s) /\ Carries(queue[x], s) => t = x

(* What is on its way was submitted and is not stored yet. *)
SendInv ==
    \A s \in Sends :
       /\ OnTheWay(s) => stored[s] = 0 /\ outcome[s] # "none"
       /\ outcome[s] = "none" => stored[s] = 0

PendingInv ==
    \A t \in Tabs : pending[t] # NoSend =>
       /\ outcome[pending[t]] = "pending" /\ cid[pending[t]] > 0
       /\ \A x \in Tabs : pending[x] = pending[t] => x = t

(* A row was stored under client_id c. *)
StoredAs(c) == \E s \in Sends : stored[s] > 0 /\ cid[s] = c

(* The server tells of what it stored. *)
EchoInv ==
    \A t \in Tabs : \A i \in 1..Len(down[t]) :
       down[t][i].type = "message" /\ down[t][i].cid > 0 => StoredAs(down[t][i].cid)

(* What is confirmed is stored, or something is that was sent under its id. *)
ConfirmedIsKnown ==
    \A s \in Sends : outcome[s] = "confirmed" =>
       stored[s] > 0 \/ (cid[s] > 0 /\ StoredAs(cid[s]))

SocketInv ==
    LineInv /\ SendInv /\ PendingInv /\ EchoInv /\ ConfirmedIsKnown /\ StoredOnce

(* One counter serves a page: no two of its submissions share an id. *)
CounterInv ==
    \A s \in Sends : cid[s] > 0 =>
       /\ outcome[s] # "none"
       /\ \E t \in Tabs : \E l \in 1..loads[t] :
             origin[s] = <<t, l>> /\ (l = loads[t] => cid[s] <= sequence[t])
       /\ \A x \in Sends : cid[x] = cid[s] /\ origin[x] = origin[s] => x = s

-----------------------------------------------------------------------------
(* What the comments say and the code does not keep (see the README). *)

(* protocol.ts: an id is taken "so the echo of *that* message can be        *)
(* recognised", and is "unique per tab".  What is confirmed is stored.      *)
ConfirmedMeansStored ==
    \A s \in Sends : outcome[s] = "confirmed" => stored[s] > 0

(* useChatSocket.ts: "a socket that names another user is closed, not      *)
(* adopted".  The session's user and the socket's are the same.            *)
StreamMatchesSession ==
    \A t \in Tabs : authed[t] # NoUser /\ ready[t] = "open" => authed[t] = user[t]

(* useChatSocket.ts: "the handshake is the first frame of a fresh          *)
(* connection".                                                            *)
FirstFrameIsAuth ==
    \A t \in Tabs : peer[t] = "fresh" /\ up[t] # <<>> => Head(up[t]).type = "auth"
=============================================================================
