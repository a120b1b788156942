------------------------------ MODULE Realtime ------------------------------
(***************************************************************************)
(* The realtime half of the chat backend: the /ws/chat handler, the        *)
(* in-process ConnectionManager, and the message writes (socket frames and *)
(* REST calls) that fan out through it.  One action is what one coroutine  *)
(* does between two awaits that let another coroutine or another database  *)
(* transaction in.  Sources: routes/websocket.py, routes/messages.py,      *)
(* realtime.py, crud.py, and DELETE /users/me of routes/users.py.          *)
(***************************************************************************)
EXTENDS Naturals, Sequences, FiniteSets

CONSTANTS Users,      \* accounts that may exist
          Sockets,    \* WebSocket connections; each is opened at most once
          Requests,   \* slots for concurrent REST requests (reused)
          Messages,   \* ids the messages sequence can hand out
          NoUser, NoSocket, NoMessage,
          Stalling,   \* the sockets whose client may stop reading for a while
          MaxWire     \* bound: no ping or junk is answered once a wire is this long

ASSUME ConstantsDistinct ==
    /\ NoUser \notin Users
    /\ NoMessage \notin Messages
    /\ NoSocket \notin Sockets
    /\ Requests \cap Sockets = {}
    /\ Stalling \subseteq Sockets
    /\ MaxWire \in Nat

VARIABLES
    users,     \* rows of the users table
    row,       \* [Messages -> RowStates]: the messages table, per id
    author,    \* [Messages -> Users]: messages.user_id
    phase,     \* [Sockets -> Phases]: where websocket_endpoint is
    ident,     \* [Sockets -> Users]: the user the first frame's token names
    peer,      \* [Sockets -> PeerStates]: the client's end of the connection
    registry,  \* ConnectionManager._connections
    task,      \* [Writers -> Task]: the write a handler is in the middle of
    wire       \* [Sockets -> Seq(Frame)]: frames put on the connection so far

vars == <<users, row, author, phase, ident, peer, registry, task, wire>>

(* A socket's own handler writes too, one frame at a time. *)
Writers == Requests \cup Sockets

RowStates  == {"free", "pending", "stored", "gone"}
Phases     == {"new", "accepted", "lookup", "found", "greeting", "open", "closed"}
PeerStates == {"up", "stalled", "gone"}
Steps      == {"idle", "inserting", "scoring", "refreshing", "deleting",
               "announcing", "sending"}

Frame == [type : {"auth_ok", "pong", "error", "message", "message_deleted"},
          user : Users \cup {NoUser},
          msg  : Messages \cup {NoMessage},
          cid  : Sockets \cup {NoSocket}]

Task == [step    : Steps,
         kind    : {"none", "create", "delete"},
         user    : Users \cup {NoUser},
         msg     : Messages \cup {NoMessage},
         waiting : SUBSET Sockets,
         failed  : SUBSET Sockets]

Idle == [step |-> "idle", kind |-> "none", user |-> NoUser, msg |-> NoMessage,
         waiting |-> {}, failed |-> {}]

(***************************************************************************)
(* Frames.  A message frame's cid says whose frame carried the client_id    *)
(* that is echoed to every socket of the author, and NoSocket that there   *)
(* was none (REST).  The string itself, which two tabs may both choose, is *)
(* opaque to the server; module ChatSocket has what the tabs make of it.   *)
(***************************************************************************)
MessageFrame(u, m, c) == [type |-> "message", user |-> u, msg |-> m, cid |-> c]

MessageDeletedFrame(u, m) ==
    [type |-> "message_deleted", user |-> u, msg |-> m, cid |-> NoSocket]
AuthOkFrame(u) ==
    [type |-> "auth_ok", user |-> u, msg |-> NoMessage, cid |-> NoSocket]
PongFrame ==
    [type |-> "pong", user |-> NoUser, msg |-> NoMessage, cid |-> NoSocket]
ErrorFrame ==
    [type |-> "error", user |-> NoUser, msg |-> NoMessage, cid |-> NoSocket]

(* Mutants: the sender left out of the fan-out, and a fan-out to every     *)
(* connection.                                                             *)
MutAllButSender(targets, frame) ==
    wire' = [s \in Sockets |-> IF s \in targets \ {frame.cid} /\ peer[s] # "gone"
                               THEN Append(wire[s], frame) ELSE wire[s]]
MutToEverybody(targets, frame) ==
    wire' = [s \in Sockets |-> IF phase[s] # "new" /\ peer[s] # "gone"
                               THEN Append(wire[s], frame) ELSE wire[s]]

(* What `targets` put on the wire: nothing reaches a client that has gone. *)
SendTo(targets, frame) ==
    wire' = [s \in Sockets |-> IF s \in targets /\ peer[s] # "gone"
                               THEN Append(wire[s], frame) ELSE wire[s]]

(* Mutant: the user's whole group goes. *)
MutDropGroup(ss, u) == registry' = [registry EXCEPT ![u] = IF ss = {} THEN @ ELSE {}]

(* ConnectionManager.disconnect, for each of a set of sockets of u. *)
Disconnect(ss, u) == registry' = [registry EXCEPT ![u] = @ \ ss]

Init ==
    /\ users = Users
    /\ row = [m \in Messages |-> "free"]
    /\ author = [m \in Messages |-> NoUser]
    /\ phase = [s \in Sockets |-> "new"]
    /\ ident = [s \in Sockets |-> NoUser]
    /\ peer = [s \in Sockets |-> "up"]
    /\ registry = [u \in Users |-> {}]
    /\ task = [w \in Writers |-> Idle]
    /\ wire = [s \in Sockets |-> <<>>]

-----------------------------------------------------------------------------
(* The client's end of a socket, and the server's keepalive. *)

PeerGone(s) ==
    /\ phase[s] # "new"
    /\ peer[s] # "gone"
    /\ peer' = [peer EXCEPT ![s] = "gone"]
    /\ UNCHANGED <<users, row, author, phase, ident, registry, task, wire>>

(* The client stops reading: awaited sends to it do not return. *)
PeerStall(s) ==
    /\ s \in Stalling
    /\ phase[s] \notin {"new", "closed"}
    /\ peer[s] = "up"
    /\ peer' = [peer EXCEPT ![s] = "stalled"]
    /\ UNCHANGED <<users, row, author, phase, ident, registry, task, wire>>

(* It reads again, or the ASGI server's keepalive gives it up. *)
StallEnds(s) ==
    /\ peer[s] = "stalled"
    /\ \E p \in {"up", "gone"} : peer' = [peer EXCEPT ![s] = p]
    /\ UNCHANGED <<users, row, author, phase, ident, registry, task, wire>>

-----------------------------------------------------------------------------
(* The handshake. *)

Accept(s) ==
    /\ phase[s] = "new"
    /\ phase' = [phase EXCEPT ![s] = "accepted"]
    /\ UNCHANGED <<users, row, author, ident, peer, registry, task, wire>>

(* _close_with_policy_violation: say why, close with 1008, never register. *)
Refuse(s) ==
    /\ phase' = [phase EXCEPT ![s] = "closed"]
    /\ SendTo({s}, ErrorFrame)
    /\ UNCHANGED <<users, row, author, ident, peer, registry, task>>

(* Mutant: a receive without a timeout. *)
MutNoAuthTimeout(s) == FALSE /\ Refuse(s)

AuthTimeout(s) ==
    /\ phase[s] = "accepted"
    /\ Refuse(s)

(* Binary, not JSON, not an auth frame, or a token naming nobody. *)
BadFirstFrame(s) ==
    /\ phase[s] = "accepted"
    /\ Refuse(s)

(* Mutant: registered before the user is looked up. *)
MutRegistersFirst(s, u) ==
    /\ phase[s] = "accepted"
    /\ phase' = [phase EXCEPT ![s] = "lookup"]
    /\ ident' = [ident EXCEPT ![s] = u]
    /\ registry' = [registry EXCEPT ![u] = @ \cup {s}]
    /\ UNCHANGED <<users, row, author, peer, task, wire>>

(* A first frame whose token decodes to u; the user row is then looked up. *)
FirstFrame(s, u) ==
    /\ phase[s] = "accepted"
    /\ phase' = [phase EXCEPT ![s] = "lookup"]
    /\ ident' = [ident EXCEPT ![s] = u]
    /\ UNCHANGED <<users, row, author, peer, registry, task, wire>>

LookupFails(s) ==
    /\ phase[s] = "lookup"
    /\ ident[s] \notin users
    /\ Refuse(s)

(* The query raises, which nothing catches: the handler ends, saying nothing. *)
LookupRaises(s) ==
    /\ phase[s] = "lookup"
    /\ phase' = [phase EXCEPT ![s] = "closed"]
    /\ UNCHANGED <<users, row, author, ident, peer, registry, task, wire>>

(* The row is read; its session is given back before the handler goes on,  *)
(* and the account may be deleted meanwhile.                               *)
LookupFinds(s) ==
    /\ phase[s] = "lookup"
    /\ ident[s] \in users
    /\ phase' = [phase EXCEPT ![s] = "found"]
    /\ UNCHANGED <<users, row, author, ident, peer, registry, task, wire>>

(* manager.connect and the write of auth_ok, with no suspension in between. *)
Register(s) ==
    /\ phase[s] = "found"
    /\ registry' = [registry EXCEPT ![ident[s]] = @ \cup {s}]
    /\ SendTo({s}, AuthOkFrame(ident[s]))
    /\ phase' = [phase EXCEPT ![s] = "greeting"]
    /\ UNCHANGED <<users, row, author, ident, peer, task>>

Greeted(s) ==
    /\ phase[s] = "greeting"
    /\ peer[s] # "stalled"
    /\ phase' = [phase EXCEPT ![s] = "open"]
    /\ UNCHANGED <<users, row, author, ident, peer, registry, task, wire>>

(* The send of auth_ok raises, outside the try whose finally disconnects. *)
GreetingFails(s) ==
    /\ phase[s] = "greeting"
    /\ peer[s] = "gone"
    /\ phase' = [phase EXCEPT ![s] = "closed"]
    /\ UNCHANGED <<users, row, author, ident, peer, registry, task, wire>>

-----------------------------------------------------------------------------
(* The receive loop of an authenticated socket.  A frame the client sent   *)
(* before it went away is still read.                                      *)

Receiving(s) == phase[s] = "open" /\ task[s] = Idle

(* The handler ends and its finally clause unregisters the socket. *)
CloseHandler(s) ==
    /\ phase' = [phase EXCEPT ![s] = "closed"]
    /\ Disconnect({s}, ident[s])

(* Mutant: only a disconnect during the handshake is noticed. *)
MutIgnoresDisconnect(s) ==
    /\ phase[s] = "accepted"
    /\ peer[s] = "gone"
    /\ phase' = [phase EXCEPT ![s] = "closed"]
    /\ UNCHANGED <<users, row, author, ident, peer, registry, task, wire>>

ReceiveDisconnect(s) ==
    /\ phase[s] = "accepted" \/ Receiving(s)
    /\ peer[s] = "gone"
    /\ IF phase[s] = "accepted"
       THEN /\ phase' = [phase EXCEPT ![s] = "closed"]
            /\ UNCHANGED registry
       ELSE CloseHandler(s)
    /\ UNCHANGED <<users, row, author, ident, peer, task, wire>>

(* A ping is answered with a pong, anything unusable with an error frame; *)
(* when that answer cannot be sent the handler ends.                      *)
Answer(s, frame) ==
    /\ Receiving(s)
    /\ Len(wire[s]) < MaxWire \/ peer[s] = "gone"
    /\ peer[s] # "stalled"
    /\ SendTo({s}, frame)
    /\ \/ UNCHANGED <<phase, registry>>
       \/ peer[s] = "gone" /\ CloseHandler(s)
    /\ UNCHANGED <<users, row, author, ident, peer, task>>

Ping(s) == Answer(s, PongFrame)
BadFrame(s) == Answer(s, ErrorFrame)

(* Bound: no message is sent that the ids left could not be given to. *)
IdsLeft ==
    Cardinality({w \in Writers : task[w].step = "inserting"})
        < Cardinality({m \in Messages : row[m] = "free"})

(* A message frame: the author is the handshake's, and is not looked up. *)
SocketMessage(s) ==
    /\ Receiving(s)
    /\ IdsLeft
    /\ task' = [task EXCEPT ![s] = [Idle EXCEPT !.step = "inserting",
                                                !.kind = "create",
                                                !.user = ident[s]]]
    /\ UNCHANGED <<users, row, author, phase, ident, peer, registry, wire>>

-----------------------------------------------------------------------------
(* REST requests.  Each first resolves its bearer token to a user row;     *)
(* requests answered 401 or 404 change nothing and are not steps.          *)

RestCreate(r, u) ==
    /\ task[r] = Idle
    /\ u \in users
    /\ IdsLeft
    /\ task' = [task EXCEPT ![r] = [Idle EXCEPT !.step = "inserting",
                                                !.kind = "create",
                                                !.user = u]]
    /\ UNCHANGED <<users, row, author, phase, ident, peer, registry, wire>>

(* crud.delete_message's SELECT finds the row. *)
RestDelete(r, u, m) ==
    /\ task[r] = Idle
    /\ u \in users
    /\ row[m] = "stored"
    /\ author[m] = u
    /\ task' = [task EXCEPT ![r] = [Idle EXCEPT !.step = "deleting",
                                                !.kind = "delete",
                                                !.user = u,
                                                !.msg = m]]
    /\ UNCHANGED <<users, row, author, phase, ident, peer, registry, wire>>

(* The DELETE and its commit.  It may find the row already gone, which the *)
(* ORM only warns about.                                                   *)
CommitDelete(r) ==
    /\ task[r].step = "deleting"
    /\ row' = [row EXCEPT ![task[r].msg] = "gone"]
    /\ task' = [task EXCEPT ![r].step = "announcing"]
    /\ UNCHANGED <<users, author, phase, ident, peer, registry, wire>>

(* Mutant: no foreign key to wait for, so what is being written survives. *)
MutNoForeignKey(u) ==
    /\ u \in users
    /\ users' = users \ {u}
    /\ row' = [m \in Messages |-> IF author[m] = u /\ row[m] = "stored"
                                  THEN "gone" ELSE row[m]]
    /\ UNCHANGED <<author, phase, ident, peer, registry, task, wire>>

(* DELETE /users/me.  The foreign key makes it wait for the inserts of the *)
(* account still uncommitted, then cascades; no socket is told or closed.  *)
DeleteAccount(u) ==
    /\ u \in users
    /\ \A m \in Messages : author[m] = u => row[m] # "pending"
    /\ users' = users \ {u}
    /\ row' = [m \in Messages |-> IF author[m] = u THEN "gone" ELSE row[m]]
    /\ UNCHANGED <<author, phase, ident, peer, registry, task, wire>>

-----------------------------------------------------------------------------
(* crud.create_message, for both transports. *)

(* Mutant: a socket's handler swallows the exception and goes on. *)
MutSwallowsFailure(w) ==
    /\ task' = [task EXCEPT ![w] = Idle]
    /\ UNCHANGED <<users, row, author, phase, ident, peer, registry, wire>>

(* The write raises: a 500 for a request, the end of a socket's handler. *)
WriteFails(w) ==
    /\ task' = [task EXCEPT ![w] = Idle]
    /\ IF w \in Sockets THEN CloseHandler(w) ELSE UNCHANGED <<phase, registry>>
    /\ UNCHANGED <<users, row, author, ident, peer, wire>>

(* The commit raises and the row stays. *)
DeleteFails(r) ==
    /\ task[r].step = "deleting"
    /\ WriteFails(r)

(* flush: INSERT with a fresh id. *)
Insert(w, m) ==
    /\ task[w].step = "inserting"
    /\ task[w].user \in users
    /\ row[m] = "free"
    /\ row' = [row EXCEPT ![m] = "pending"]
    /\ author' = [author EXCEPT ![m] = task[w].user]
    /\ task' = [task EXCEPT ![w].step = "scoring", ![w].msg = m]
    /\ UNCHANGED <<users, phase, ident, peer, registry, wire>>

(* flush raises: there is no connection to be had, or the foreign key       *)
(* refuses a row whose author no longer exists.                            *)
InsertFails(w) ==
    /\ task[w].step = "inserting"
    /\ WriteFails(w)

(* The sentiment thread returns, with a score or an exception that is only *)
(* logged, and the transaction commits either way.                         *)
Commit(w) ==
    /\ task[w].step = "scoring"
    /\ row' = [row EXCEPT ![task[w].msg] = "stored"]
    /\ task' = [task EXCEPT ![w].step = "refreshing"]
    /\ UNCHANGED <<users, author, phase, ident, peer, registry, wire>>

(* The commit raises and the row is rolled back.  Nobody has seen its id,   *)
(* which may serve for the next one.                                       *)
CommitFails(w) ==
    /\ task[w].step = "scoring"
    /\ row' = [row EXCEPT ![task[w].msg] = "free"]
    /\ author' = [author EXCEPT ![task[w].msg] = NoUser]
    /\ task' = [task EXCEPT ![w] = Idle]
    /\ IF w \in Sockets THEN CloseHandler(w) ELSE UNCHANGED <<phase, registry>>
    /\ UNCHANGED <<users, ident, peer, wire>>

(* refresh reads the row back; the coroutine resumes with it later. *)
Refresh(w) ==
    /\ task[w].step = "refreshing"
    /\ row[task[w].msg] = "stored"
    /\ task' = [task EXCEPT ![w].step = "announcing"]
    /\ UNCHANGED <<users, row, author, phase, ident, peer, registry, wire>>

(* refresh raises: the row has been deleted since the commit, or the new    *)
(* transaction it needs gets no connection, the commit having given back   *)
(* the one there was.  What was stored then stays stored, and unannounced. *)
RefreshFails(w) ==
    /\ task[w].step = "refreshing"
    /\ WriteFails(w)

-----------------------------------------------------------------------------
(* ConnectionManager.send_to_user. *)

Announcement(w) ==
    LET t == task[w] IN
    IF t.kind = "delete"
    THEN MessageDeletedFrame(t.user, t.msg)
    ELSE MessageFrame(t.user, t.msg, IF w \in Sockets THEN w ELSE NoSocket)

(* A socket whose handler has ended: Starlette's send to it raises at once. *)
Ended(targets) == {s \in targets : phase[s] = "closed"}

(* The set is copied and the sends of the gather start. *)
Announce(w) ==
    /\ task[w].step = "announcing"
    /\ LET targets == registry[task[w].user] IN
       /\ SendTo(targets, Announcement(w))
       /\ task' = [task EXCEPT ![w] = IF targets = {} THEN Idle
                                      ELSE [@ EXCEPT !.step = "sending",
                                                     !.waiting = targets \ Ended(targets),
                                                     !.failed = Ended(targets)]]
    /\ UNCHANGED <<users, row, author, phase, ident, peer, registry>>

(* Mutant: a send to a client that has gone never returns. *)
MutSendHangs(w, s) ==
    /\ s \in task[w].waiting
    /\ peer[s] = "up"
    /\ task' = [task EXCEPT ![w].waiting = @ \ {s}]
    /\ UNCHANGED <<users, row, author, phase, ident, peer, registry, wire>>

(* The send to s returns, or raises because the connection is gone. *)
SendReturns(w, s) ==
    /\ s \in task[w].waiting
    /\ peer[s] # "stalled"
    /\ \/ task' = [task EXCEPT ![w].waiting = @ \ {s}]
       \/ /\ peer[s] = "gone" \/ phase[s] = "closed"
          /\ task' = [task EXCEPT ![w].waiting = @ \ {s},
                                  ![w].failed = @ \cup {s}]
    /\ UNCHANGED <<users, row, author, phase, ident, peer, registry, wire>>

(* Mutant: what the sends returned is not looked at. *)
MutKeepsFailed(w) ==
    /\ task[w].step = "sending"
    /\ task[w].waiting = {}
    /\ task' = [task EXCEPT ![w] = Idle]
    /\ UNCHANGED <<users, row, author, phase, ident, peer, registry, wire>>

(* The gather is over: the sockets whose send raised are dropped. *)
FinishSend(w) ==
    /\ task[w].step = "sending"
    /\ task[w].waiting = {}
    /\ Disconnect(task[w].failed, task[w].user)
    /\ task' = [task EXCEPT ![w] = Idle]
    /\ UNCHANGED <<users, row, author, phase, ident, peer, wire>>

-----------------------------------------------------------------------------
Handshake(s) ==
    \/ AuthTimeout(s)
    \/ BadFirstFrame(s)
    \/ \E u \in Users : FirstFrame(s, u)
    \/ LookupFails(s)
    \/ LookupRaises(s)
    \/ LookupFinds(s)
    \/ Register(s)
    \/ Greeted(s)
    \/ GreetingFails(s)

SocketStep(s) ==
    \/ PeerGone(s)
    \/ PeerStall(s)
    \/ StallEnds(s)
    \/ Accept(s)
    \/ Handshake(s)
    \/ ReceiveDisconnect(s)
    \/ Ping(s)
    \/ BadFrame(s)
    \/ SocketMessage(s)

(* What a writer does next without anyone asking it to. *)
WriterStep(w) ==
    \/ \E m \in Messages : Insert(w, m)
    \/ InsertFails(w)
    \/ Commit(w)
    \/ CommitFails(w)
    \/ Refresh(w)
    \/ RefreshFails(w)
    \/ CommitDelete(w)
    \/ DeleteFails(w)
    \/ Announce(w)
    \/ \E s \in Sockets : SendReturns(w, s)
    \/ FinishSend(w)

RestStep(r, u) ==
    \/ RestCreate(r, u)
    \/ \E m \in Messages : RestDelete(r, u, m)

Next ==
    \/ \E s \in Sockets : SocketStep(s)
    \/ \E w \in Writers : WriterStep(w)
    \/ \E u \in Users : DeleteAccount(u) \/ \E r \in Requests : RestStep(r, u)

Spec == Init /\ [][Next]_vars

(***************************************************************************)
(* The event loop runs every ready coroutine, the auth timeout is a loop   *)
(* timer, a closed connection is reported to the reader, and the server's  *)
(* keepalive ends a stall.  A send that could return once has been woken,  *)
(* and returns even if its client stalls again: strong fairness.  Clients  *)
(* owe nothing.                                                            *)
(***************************************************************************)
Fairness ==
    /\ \A w \in Writers : /\ WF_vars(WriterStep(w))
                          /\ \A s \in Sockets : SF_vars(SendReturns(w, s))
    /\ \A s \in Sockets : /\ WF_vars(AuthTimeout(s))
                          /\ WF_vars(LookupFails(s) \/ LookupFinds(s) \/ Register(s))
                          /\ SF_vars(Greeted(s) \/ GreetingFails(s))
                          /\ WF_vars(ReceiveDisconnect(s))
                          /\ WF_vars(StallEnds(s))

FairSpec == Spec /\ Fairness

-----------------------------------------------------------------------------
(* What the views of the clients are made of. *)

ChatTypes == {"message", "message_deleted"}
ChatAt(s) == {i \in DOMAIN wire[s] : wire[s][i].type \in ChatTypes}
FromEnd(s, i) == Cardinality({j \in ChatAt(s) : j >= i})
Carries(s, m, type) ==
    {i \in DOMAIN wire[s] : wire[s][i].type = type /\ wire[s][i].msg = m}
Live(s) == phase[s] \in {"greeting", "open"} /\ peer[s] # "gone"

(* m is in the list a client builds from the frames of s, in their order. *)
Shown(s, m) ==
    \E i \in Carries(s, m, "message") :
       \A j \in Carries(s, m, "message_deleted") : j < i

(* Types. *)
TypeOK ==
    /\ users \subseteq Users
    /\ row \in [Messages -> RowStates]
    /\ author \in [Messages -> Users \cup {NoUser}]
    /\ phase \in [Sockets -> Phases]
    /\ ident \in [Sockets -> Users \cup {NoUser}]
    /\ peer \in [Sockets -> PeerStates]
    /\ registry \in [Users -> SUBSET Sockets]
    /\ task \in [Writers -> Task]
    /\ wire \in [Sockets -> Seq(Frame)]

(***************************************************************************)
(* The registry only ever groups a socket under the user its handshake     *)
(* proved: a socket still in, or refused by, the handshake is in no group  *)
(* (websocket.py, "send_to_user can never target an unauthenticated        *)
(* connection"), and auth_ok is the first frame it was sent.                *)
(***************************************************************************)
RegistrySound ==
    \A u \in Users : \A s \in registry[u] :
       /\ ident[s] = u
       /\ phase[s] \in {"greeting", "open", "closed"}
       /\ \/ wire[s] # <<>> /\ wire[s][1] = AuthOkFrame(u)
          \/ wire[s] = <<>> /\ peer[s] = "gone"

(* No socket falls out of the fan-out while its handler and its client are *)
(* both there: dropping the dead sockets of a user drops only those.       *)
RegistryComplete ==
    \A s \in Sockets : Live(s) => s \in registry[ident[s]]

(* A chat frame on a socket is about a message of the user that socket     *)
(* authenticated as: the fan-out never leaks another user's messages.      *)
FramesOnlyToAuthor ==
    \A s \in Sockets : \A i \in DOMAIN wire[s] :
       wire[s][i].type \in ChatTypes =>
          /\ wire[s][i].user = ident[s]
          /\ author[wire[s][i].msg] = ident[s]

(* Nothing is announced before it is true: a message frame means the row   *)
(* was committed, a message_deleted frame that it is gone.                 *)
AnnouncedAfterCommit ==
    \A s \in Sockets : \A i \in DOMAIN wire[s] :
       LET f == wire[s][i] IN
       /\ f.type = "message" => row[f.msg] \in {"stored", "gone"}
       /\ f.type = "message_deleted" => row[f.msg] = "gone"

(* The sender's echo is the fan-out itself: no socket, the sender's        *)
(* included, is told of one message twice.                                 *)
MessageToldOnce ==
    \A s \in Sockets, m \in Messages : Cardinality(Carries(s, m, "message")) <= 1

(* Two live sockets of one user have been told the same story since the    *)
(* younger one joined, the same frames in the same order: counted from the  *)
(* last one back, their n-th chat frames are one frame.                    *)
TabsAgree ==
    \A s, t \in Sockets :
       Live(s) /\ Live(t) /\ ident[s] = ident[t] =>
          \A i \in ChatAt(s), j \in ChatAt(t) :
             FromEnd(s, i) = FromEnd(t, j) => wire[s][i] = wire[t][j]

(* A deleted account keeps no message, neither one stored before nor one   *)
(* its sockets, which stay open, try to store afterwards.                  *)
NoOrphanRows ==
    \A m \in Messages : row[m] \in {"pending", "stored"} => author[m] \in users

-----------------------------------------------------------------------------
(***************************************************************************)
(* The inductive invariant behind the safety properties: what a write in   *)
(* progress knows about its row, what a socket's phase says about its wire *)
(* and its registration, and what each frame sent was about.               *)
(***************************************************************************)
Settled == {"stored", "gone"}

TaskInv(w) ==
    LET t == task[w] IN
    /\ t.step # "idle" => t.user \in Users /\ t.kind \in {"create", "delete"}
    /\ t.step \in {"scoring", "refreshing", "deleting", "announcing"} =>
          t.msg \in Messages /\ author[t.msg] = t.user
    /\ t.step = "scoring" => row[t.msg] = "pending"
    /\ t.step \in {"refreshing", "deleting", "announcing"} => row[t.msg] \in Settled
    /\ t.step \in {"inserting", "scoring", "refreshing"} => t.kind = "create"
    /\ t.step = "deleting" => t.kind = "delete"
    /\ t.step = "announcing" /\ t.kind = "delete" => row[t.msg] = "gone"
    /\ w \in Sockets /\ t.step # "idle" => phase[w] = "open" /\ t.user = ident[w]
    /\ t.waiting # {} => t.step = "sending"
    /\ \A s \in t.failed : peer[s] = "gone" \/ phase[s] = "closed"

ScoringApart ==
    \A v, w \in Writers :
       task[v].step = "scoring" /\ task[w].step = "scoring"
          /\ task[v].msg = task[w].msg => v = w

PhaseInv(s) ==
    /\ phase[s] \in {"new", "accepted", "lookup", "found"} =>
          wire[s] = <<>> /\ \A u \in Users : s \notin registry[u]
    /\ phase[s] \in {"lookup", "found", "greeting", "open"} => ident[s] \in Users

FrameInv(s) ==
    \A i \in DOMAIN wire[s] :
       LET f == wire[s][i] IN
       f.type \in ChatTypes =>
          /\ f.msg \in Messages
          /\ f.user = ident[s]
          /\ author[f.msg] = ident[s]
          /\ row[f.msg] \in Settled
          /\ f.type = "message_deleted" => row[f.msg] = "gone"

FreeUnowned == \A m \in Messages : row[m] = "free" => author[m] = NoUser

SafetyInv ==
    /\ \A w \in Writers : TaskInv(w)
    /\ ScoringApart
    /\ \A s \in Sockets : PhaseInv(s)
    /\ \A s \in Sockets : FrameInv(s)
    /\ RegistrySound
    /\ RegistryComplete
    /\ NoOrphanRows
    /\ FreeUnowned

-----------------------------------------------------------------------------
(***************************************************************************)
(* The refinement.  To the clients, the awaits in the middle of a write,    *)
(* the handshake's phases, the registry and what is left of sends that      *)
(* failed do not exist: a message is there from its commit on, a socket is  *)
(* joined while its handler and its client are both there, and a fan-out    *)
(* tells every joined socket of the user at once.                          *)
(***************************************************************************)
Status(m) == IF row[m] \in Settled THEN row[m] ELSE "absent"
Owner(m) == IF row[m] \in Settled THEN author[m] ELSE NoUser
JoinedAs(s) == IF Live(s) THEN ident[s] ELSE NoUser
Unsaid(w) == task[w].step \in {"refreshing", "announcing"}
Nothing == [type |-> "nothing", user |-> NoUser, msg |-> NoMessage, cid |-> NoSocket]

Log == INSTANCE ChatLog WITH
    status <- [m \in Messages |-> Status(m)],
    owner  <- [m \in Messages |-> Owner(m)],
    owed   <- [w \in Writers |-> IF Unsaid(w) THEN Announcement(w) ELSE Nothing],
    joined <- [s \in Sockets |-> JoinedAs(s)],
    told   <- wire

(* Every execution of the handlers, interleaved at their awaits, is one of *)
(* ChatLog: from the moment they join, live sockets of one user are told    *)
(* the same frames in the same order, each write once and after its commit; *)
(* what is announced reaches whoever is joined, what is not is its writer's *)
(* failure, and other users' sockets are told nothing.                     *)
ImplementsChatLog == Log!Spec

(* What that needs beyond SafetyInv: a registered socket whose client is   *)
(* there has its handler there.                                            *)
RegisteredOpen ==
    \A u \in Users : \A s \in registry[u] :
       peer[s] # "gone" => phase[s] \in {"greeting", "open"}

(* What MessageToldOnce needs beyond it: a message whose storing is still  *)
(* to be said is one writer's to say, and nobody has been told of it.      *)
SaysStored(w) == Unsaid(w) /\ Announcement(w).type = "message"

ToldInv ==
    /\ \A v, w \in Writers :
          SaysStored(v) /\ SaysStored(w) /\ task[v].msg = task[w].msg => v = w
    /\ \A w \in Writers, s \in Sockets :
          SaysStored(w) => Carries(s, task[w].msg, "message") = {}
    /\ \A s \in Sockets, m \in Messages :
          \A i, j \in Carries(s, m, "message") : i = j

-----------------------------------------------------------------------------
(* Liveness, under Fairness. *)

(* No connection stays half-open: the auth timeout or the client ends it. *)
HandshakeResolves ==
    \A s \in Sockets : phase[s] = "accepted" ~> phase[s] \in {"open", "closed"}

(* A write finishes whatever its targets do: a dead socket is dropped, a   *)
(* stalled one only delays it until the keepalive decides.                 *)
WritersFinish == \A w \in Writers : task[w].step # "idle" ~> task[w].step = "idle"

(* A message a socket stored is echoed to that socket, unless the socket   *)
(* itself ends: never a silent drop.                                       *)
NoSilentDrop ==
    \A s \in Sockets, m \in Messages :
       task[s].msg = m ~> \/ Carries(s, m, "message") # {}
                          \/ phase[s] = "closed" \/ peer[s] = "gone"

(* The handler of a client that went away ends. *)
DeadSocketsReaped ==
    \A s \in Sockets :
       phase[s] # "new" /\ peer[s] = "gone" ~> phase[s] = "closed"

(* A registration whose handler has ended does not outlive the next fan-out *)
(* to its user: send_to_user is "dropping dead ones".  (There are such: see  *)
(* RegistryLive.)                                                           *)
DeadOnesDropped ==
    \A s \in Sockets, u \in Users, w \in Writers :
       task[w].step = "announcing" /\ task[w].user = u
          /\ s \in registry[u] /\ phase[s] = "closed" ~> s \notin registry[u]

-----------------------------------------------------------------------------
(* What the repository says and the code does not keep (see the README). *)

(* realtime.py: a deletion is announced "so every socket of the owner      *)
(* drops the row".  With every write finished, no live socket still shows  *)
(* a message its author has deleted.                                       *)
NoGhosts ==
    (\A w \in Writers : task[w] = Idle) =>
       \A s \in Sockets, m \in Messages :
          Live(s) /\ ident[s] \in users /\ Shown(s, m) => row[m] # "gone"

(* websocket.py: "every rejection is an error frame on the same socket,    *)
(* never a crash".  A handler that ended while its client was there had    *)
(* said why.                                                               *)
RejectedWithReason ==
    \A s \in Sockets : phase[s] = "closed" /\ peer[s] # "gone" =>
       wire[s] # <<>> /\ wire[s][Len(wire[s])] = ErrorFrame

(* realtime.py: the manager "tracks live sockets per user". *)
RegistryLive ==
    \A u \in Users : \A s \in registry[u] : phase[s] # "closed"

(* routes/messages.py: "Store the message, then push it to every socket the *)
(* author has open".  A write that stored a message while its author has a  *)
(* socket open does not end before the fan-out.                            *)
StoredIsPushed ==
    [][\A w \in Writers :
          /\ task[w].step = "refreshing" /\ row[task[w].msg] = "stored"
          /\ \E s \in Sockets : Live(s) /\ ident[s] = task[w].user
          => task'[w] # Idle]_vars

(* routes/messages.py: "a delete that changed nothing tells the sockets    *)
(* nothing", so one message is deleted, and announced deleted, once.       *)
DeletionToldOnce ==
    \A s \in Sockets, m \in Messages :
       Cardinality(Carries(s, m, "message_deleted")) <= 1
=============================================================================
