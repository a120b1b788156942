--------------------------- MODULE RealtimeProofs ---------------------------
(***************************************************************************)
(* Proofs about Realtime, for every set of users, sockets, requests and    *)
(* messages: its types, the inductive invariant SafetyInv and what follows  *)
(* from it; that Realtime implements ChatLog; and what that gives for tabs. *)
(***************************************************************************)
EXTENDS Realtime, FiniteSetTheorems, TLAPS


-----------------------------------------------------------------------------
(* Types. *)

(* Every frame the builders make is a frame. *)
LEMMA FrameTypes ==
    /\ PongFrame \in Frame
    /\ ErrorFrame \in Frame
    /\ \A u \in Users : AuthOkFrame(u) \in Frame
    /\ \A u \in Users \cup {NoUser}, m \in Messages \cup {NoMessage} :
          /\ MessageDeletedFrame(u, m) \in Frame
          /\ \A c \in Sockets \cup {NoSocket} : MessageFrame(u, m, c) \in Frame
  BY DEF PongFrame, ErrorFrame, AuthOkFrame, MessageDeletedFrame, MessageFrame, Frame

(* Sending frames leaves sequences of frames. *)
LEMMA SendToType ==
    ASSUME TypeOK, NEW targets, NEW f \in Frame, SendTo(targets, f)
    PROVE  wire' \in [Sockets -> Seq(Frame)]
  BY DEF TypeOK, SendTo

(* A writer with nothing to do is a task. *)
LEMMA IdleType == Idle \in Task
  BY DEF Idle, Task, Steps

(* What a writer announces is a frame. *)
LEMMA AnnouncementType ==
    ASSUME TypeOK, NEW w \in Writers
    PROVE  Announcement(w) \in Frame
<1>1. task[w] \in Task
  BY DEF TypeOK
<1> QED
  BY <1>1, FrameTypes DEF Announcement, Task

(* The updates writers make to their task keep it a task. *)
LEMMA TaskUpdates ==
    ASSUME NEW t \in Task
    PROVE  /\ \A st \in Steps : [t EXCEPT !.step = st] \in Task
           /\ \A st \in Steps, m \in Messages :
                 [t EXCEPT !.step = st, !.msg = m] \in Task
           /\ \A st \in Steps, ss, ff \in SUBSET Sockets :
                 [t EXCEPT !.step = st, !.waiting = ss, !.failed = ff] \in Task
           /\ \A ss \in SUBSET Sockets : [t EXCEPT !.waiting = ss] \in Task
           /\ \A ss, ff \in SUBSET Sockets :
                 [t EXCEPT !.waiting = ss, !.failed = ff] \in Task
  BY DEF Task

(* A writer's task is a task record. *)
LEMMA TaskType ==
    ASSUME TypeOK, NEW w \in Writers, NEW t \in Task,
           task' = [task EXCEPT ![w] = t]
    PROVE  task' \in [Writers -> Task] /\ task[w] \in Task
  BY DEF TypeOK

(* The end of a handler closes its phase and trims one group. *)
LEMMA CloseHandlerType ==
    ASSUME TypeOK, NEW s \in Sockets, CloseHandler(s)
    PROVE  phase' \in [Sockets -> Phases] /\ registry' \in [Users -> SUBSET Sockets]
<1>1. phase' = [phase EXCEPT ![s] = "closed"]
  BY DEF CloseHandler
<1>2. registry' = [registry EXCEPT ![ident[s]] = registry[ident[s]] \ {s}]
  BY DEF CloseHandler, Disconnect
<1> QED
  BY <1>1, <1>2 DEF TypeOK, Phases

(* Every step preserves the types. *)
LEMMA TypeStep == TypeOK /\ SafetyInv /\ [Next]_vars => TypeOK'
<1> SUFFICES ASSUME TypeOK, SafetyInv, [Next]_vars PROVE TypeOK'
  OBVIOUS
<1>0. \A w \in Writers : task[w] \in Task
  BY DEF TypeOK
<1>1. ASSUME NEW s \in Sockets, PeerGone(s) \/ PeerStall(s) \/ StallEnds(s)
      PROVE  TypeOK'
  BY <1>1 DEF PeerGone, PeerStall, StallEnds, TypeOK, PeerStates
<1>2. ASSUME NEW s \in Sockets,
             \/ Accept(s) \/ LookupRaises(s) \/ LookupFinds(s)
             \/ Greeted(s) \/ GreetingFails(s)
      PROVE  TypeOK'
  BY <1>2 DEF Accept, LookupRaises, LookupFinds, Greeted, GreetingFails, TypeOK, Phases
<1>3. ASSUME NEW s \in Sockets, AuthTimeout(s) \/ BadFirstFrame(s) \/ LookupFails(s)
      PROVE  TypeOK'
  <2>1. Refuse(s)
    BY <1>3 DEF AuthTimeout, BadFirstFrame, LookupFails
  <2>2. wire' \in [Sockets -> Seq(Frame)]
    BY <2>1, SendToType, FrameTypes DEF Refuse
  <2> QED
    BY <2>1, <2>2 DEF Refuse, TypeOK, Phases
<1>4. ASSUME NEW s \in Sockets, NEW u \in Users, FirstFrame(s, u)
      PROVE  TypeOK'
  BY <1>4 DEF FirstFrame, TypeOK, Phases
<1>5. ASSUME NEW s \in Sockets, Register(s)
      PROVE  TypeOK'
  <2>1. ident[s] \in Users
    BY <1>5 DEF Register, SafetyInv, PhaseInv
  <2>2. wire' \in [Sockets -> Seq(Frame)]
    BY <1>5, <2>1, SendToType, FrameTypes DEF Register
  <2>3. registry' \in [Users -> SUBSET Sockets]
    BY <1>5 DEF Register, TypeOK
  <2> QED
    BY <1>5, <2>2, <2>3 DEF Register, TypeOK, Phases
<1>6. ASSUME NEW s \in Sockets, ReceiveDisconnect(s)
      PROVE  TypeOK'
  <2>1. phase' \in [Sockets -> Phases] /\ registry' \in [Users -> SUBSET Sockets]
    <3>1. CASE phase[s] = "accepted"
      BY <1>6, <3>1 DEF ReceiveDisconnect, TypeOK, Phases
    <3>2. CASE phase[s] # "accepted"
      BY <1>6, <3>2, CloseHandlerType DEF ReceiveDisconnect
    <3> QED
      BY <3>1, <3>2
  <2> QED
    BY <1>6, <2>1 DEF ReceiveDisconnect, TypeOK
<1>7. ASSUME NEW s \in Sockets, Ping(s) \/ BadFrame(s)
      PROVE  TypeOK'
  <2>1. PICK f \in Frame : Answer(s, f)
    BY <1>7, FrameTypes DEF Ping, BadFrame
  <2>2. wire' \in [Sockets -> Seq(Frame)]
    BY <2>1, SendToType DEF Answer
  <2>3. phase' \in [Sockets -> Phases] /\ registry' \in [Users -> SUBSET Sockets]
    BY <2>1, ZenonT(30) DEF Answer, CloseHandler, Disconnect, TypeOK, Phases
  <2> QED
    BY <2>1, <2>2, <2>3 DEF Answer, TypeOK
<1>8. ASSUME NEW s \in Sockets, SocketMessage(s)
      PROVE  TypeOK'
  <2>1. [Idle EXCEPT !.step = "inserting", !.kind = "create", !.user = ident[s]] \in Task
    BY IdleType DEF TypeOK, Task, Steps
  <2> QED
    BY <1>8, <2>1 DEF SocketMessage, TypeOK
<1>9. ASSUME NEW r \in Requests, NEW u \in Users, RestCreate(r, u)
      PROVE  TypeOK'
  <2>1. [Idle EXCEPT !.step = "inserting", !.kind = "create", !.user = u] \in Task
    BY IdleType DEF Task, Steps
  <2> QED
    BY <1>9, <2>1 DEF RestCreate, TypeOK
<1>10. ASSUME NEW r \in Requests, NEW u \in Users, NEW m \in Messages,
              RestDelete(r, u, m)
       PROVE  TypeOK'
  <2>1. [Idle EXCEPT !.step = "deleting", !.kind = "delete", !.user = u, !.msg = m]
           \in Task
    BY IdleType DEF Task, Steps
  <2> QED
    BY <1>10, <2>1 DEF RestDelete, TypeOK
<1>11. ASSUME NEW w \in Writers, NEW m \in Messages, Insert(w, m)
       PROVE  TypeOK'
  <2>1. [task[w] EXCEPT !.step = "scoring", !.msg = m] \in Task
    BY <1>0, TaskUpdates DEF Steps
  <2>2. task' = [task EXCEPT ![w] = [task[w] EXCEPT !.step = "scoring", !.msg = m]]
    BY <1>11 DEF Insert
  <2>3. task' \in [Writers -> Task]
    BY <2>1, <2>2, TaskType
  <2>4. row' \in [Messages -> RowStates]
    BY <1>11 DEF Insert, TypeOK, RowStates
  <2>5. task[w].user \in Users
    BY <1>11 DEF Insert, TypeOK
  <2>6. author' \in [Messages -> Users \cup {NoUser}]
    BY <1>11, <2>5 DEF Insert, TypeOK
  <2> QED
    BY <1>11, <2>3, <2>4, <2>6 DEF Insert, TypeOK
<1>12. ASSUME NEW w \in Writers, InsertFails(w) \/ RefreshFails(w) \/ DeleteFails(w)
       PROVE  TypeOK'
  <2>1. WriteFails(w)
    BY <1>12 DEF InsertFails, RefreshFails, DeleteFails
  <2>2. task' \in [Writers -> Task]
    BY <2>1, IdleType, TaskType DEF WriteFails
  <2>3. CASE w \in Sockets
    BY <2>1, <2>2, <2>3, CloseHandlerType DEF WriteFails, TypeOK
  <2>4. CASE w \notin Sockets
    BY <2>1, <2>2, <2>4 DEF WriteFails, TypeOK
  <2> QED
    BY <2>3, <2>4
<1>13. ASSUME NEW w \in Writers, Commit(w) \/ CommitDelete(w) \/ Refresh(w)
       PROVE  TypeOK'
  <2>1. PICK st \in Steps : task' = [task EXCEPT ![w] = [task[w] EXCEPT !.step = st]]
    BY <1>13 DEF Commit, CommitDelete, Refresh, Steps
  <2>2. task' \in [Writers -> Task]
    BY <1>0, <2>1, TaskUpdates, TaskType
  <2>3. row' \in [Messages -> RowStates]
    BY <1>13 DEF Commit, CommitDelete, Refresh, TypeOK, RowStates
  <2> QED
    BY <1>13, <2>2, <2>3 DEF Commit, CommitDelete, Refresh, TypeOK
<1>14. ASSUME NEW w \in Writers, CommitFails(w)
       PROVE  TypeOK'
  <2>1. task' \in [Writers -> Task]
    BY <1>14, IdleType, TaskType DEF CommitFails
  <2>2. row' \in [Messages -> RowStates] /\ author' \in [Messages -> Users \cup {NoUser}]
    BY <1>14 DEF CommitFails, TypeOK, RowStates
  <2>3. phase' \in [Sockets -> Phases] /\ registry' \in [Users -> SUBSET Sockets]
    BY <1>14, CloseHandlerType DEF CommitFails, TypeOK
  <2> QED
    BY <1>14, <2>1, <2>2, <2>3 DEF CommitFails, TypeOK
<1>15. ASSUME NEW w \in Writers, Announce(w)
       PROVE  TypeOK'
  <2> DEFINE targets == registry[task[w].user]
             ended == Ended(targets)
             sending == [task[w] EXCEPT !.step = "sending", !.waiting = targets \ ended,
                                        !.failed = ended]
  <2>1. wire' \in [Sockets -> Seq(Frame)]
    BY <1>15, AnnouncementType, SendToType DEF Announce
  <2>2. targets \in SUBSET Sockets
    BY <1>15 DEF Announce, SafetyInv, TaskInv, TypeOK
  <2>3. sending \in Task
    <3>1. targets \ ended \in SUBSET Sockets /\ ended \in SUBSET Sockets
      BY <2>2 DEF Ended
    <3> HIDE DEF targets, ended
    <3> QED
      BY <1>0, <3>1, TaskUpdates DEF Steps
  <2> HIDE DEF targets, ended
  <2>4. task' \in [Writers -> Task]
    <3>1. CASE targets = {}
      BY <1>15, <3>1, IdleType, TaskType DEF Announce, targets
    <3>2. CASE targets # {}
      <4>1. task' = [task EXCEPT ![w] = sending]
        BY <1>15, <3>2 DEF Announce, targets, ended
      <4> HIDE DEF sending
      <4> QED
        BY <2>3, <4>1, TaskType
    <3> QED
      BY <3>1, <3>2
  <2> QED
    BY <1>15, <2>1, <2>4 DEF Announce, TypeOK
<1>16. ASSUME NEW w \in Writers, NEW s \in Sockets, SendReturns(w, s)
       PROVE  TypeOK'
  <2> DEFINE returned == [task[w] EXCEPT !.waiting = @ \ {s}]
             raised == [task[w] EXCEPT !.waiting = @ \ {s}, !.failed = @ \cup {s}]
  <2>1. task[w].waiting \ {s} \in SUBSET Sockets /\ task[w].failed \cup {s} \in SUBSET Sockets
    BY <1>0 DEF Task
  <2>2. returned \in Task /\ raised \in Task
    BY <1>0, <2>1, TaskUpdates
  <2>3. \/ task' = [task EXCEPT ![w] = returned]
        \/ task' = [task EXCEPT ![w] = raised]
    BY <1>16 DEF SendReturns
  <2> HIDE DEF returned, raised
  <2>4. task' \in [Writers -> Task]
    BY <2>2, <2>3, TaskType
  <2> QED
    BY <1>16, <2>4 DEF SendReturns, TypeOK
<1>17. ASSUME NEW w \in Writers, FinishSend(w)
       PROVE  TypeOK'
  <2>1. task' \in [Writers -> Task]
    BY <1>17, IdleType, TaskType DEF FinishSend
  <2>2. registry' \in [Users -> SUBSET Sockets]
    BY <1>17 DEF FinishSend, Disconnect, TypeOK
  <2> QED
    BY <1>17, <2>1, <2>2 DEF FinishSend, TypeOK
<1>18. ASSUME NEW u \in Users, DeleteAccount(u)
       PROVE  TypeOK'
  BY <1>18 DEF DeleteAccount, TypeOK, RowStates
<1>19. CASE UNCHANGED vars
  BY <1>19 DEF vars, TypeOK
<1> QED
  BY <1>1, <1>2, <1>3, <1>4, <1>5, <1>6, <1>7, <1>8, <1>9, <1>10, <1>11, <1>12,
     <1>13, <1>14, <1>15, <1>16, <1>17, <1>18, <1>19
     DEF Next, SocketStep, Handshake, WriterStep, RestStep


-----------------------------------------------------------------------------
(* What no step undoes. *)

(* A settled row stays settled and keeps its author; a gone row stays gone. *)
LEMMA RowsSettle ==
    ASSUME TypeOK, SafetyInv, [Next]_vars, NEW m \in Messages, row[m] \in Settled
    PROVE  /\ row'[m] \in Settled
           /\ author'[m] = author[m]
           /\ row[m] = "gone" => row'[m] = "gone"
<1>1. ASSUME NEW w \in Writers, NEW n \in Messages, Insert(w, n)
      PROVE  row'[m] = row[m] /\ author'[m] = author[m]
  BY <1>1 DEF Insert, TypeOK, Settled
<1>2. ASSUME NEW w \in Writers, Commit(w)
      PROVE  row'[m] = row[m] /\ author'[m] = author[m]
  <2>1. row[task[w].msg] = "pending"
    BY <1>2 DEF Commit, SafetyInv, TaskInv
  <2> QED
    BY <1>2, <2>1 DEF Commit, TypeOK, Settled
<1>3. ASSUME NEW w \in Writers, CommitDelete(w)
      PROVE  row'[m] \in {row[m], "gone"} /\ author'[m] = author[m]
  BY <1>3 DEF CommitDelete, TypeOK
<1>4. ASSUME NEW u \in Users, DeleteAccount(u)
      PROVE  row'[m] \in {row[m], "gone"} /\ author'[m] = author[m]
  BY <1>4 DEF DeleteAccount, TypeOK
<1>5. ASSUME NEW w \in Writers, CommitFails(w)
      PROVE  row'[m] = row[m] /\ author'[m] = author[m]
  <2>1. row[task[w].msg] = "pending"
    BY <1>5 DEF CommitFails, SafetyInv, TaskInv
  <2> QED
    BY <1>5, <2>1 DEF CommitFails, TypeOK, Settled
<1>6. CASE UNCHANGED <<row, author>>
  BY <1>6
<1> QED
  BY <1>1, <1>2, <1>3, <1>4, <1>5, <1>6
     DEF Settled, Next, SocketStep, Handshake, WriterStep, RestStep, vars,
         PeerGone, PeerStall, StallEnds, Accept, AuthTimeout, BadFirstFrame, Refuse,
         FirstFrame, LookupFails, LookupRaises, LookupFinds, Register, Greeted, GreetingFails,
         ReceiveDisconnect, Ping, BadFrame, Answer, SocketMessage, RestCreate,
         RestDelete, InsertFails, WriteFails, DeleteFails, Refresh, RefreshFails, Announce,
         SendReturns, FinishSend

(* A client that has gone and a handler that has ended stay so, and a     *)
(* socket keeps the identity its first frame claimed.                      *)
LEMMA SocketsAge ==
    ASSUME TypeOK, SafetyInv, [Next]_vars, NEW s \in Sockets
    PROVE  /\ peer[s] = "gone" => peer'[s] = "gone"
           /\ phase[s] = "closed" => phase'[s] = "closed"
           /\ phase[s] # "accepted" => ident'[s] = ident[s]
<1>1. ASSUME NEW r \in Sockets, PeerGone(r) \/ PeerStall(r) \/ StallEnds(r)
      PROVE  UNCHANGED <<phase, ident>> /\ (peer[s] = "gone" => peer'[s] = "gone")
  BY <1>1 DEF PeerGone, PeerStall, StallEnds, TypeOK
<1>2. ASSUME NEW r \in Sockets,
             Accept(r) \/ LookupFinds(r) \/ Register(r) \/ Greeted(r)
      PROVE  /\ UNCHANGED <<peer, ident>>
             /\ phase[s] = "closed" => phase'[s] = "closed"
  BY <1>2 DEF Accept, LookupFinds, Register, Greeted, TypeOK
<1>3. ASSUME NEW r \in Sockets, NEW u \in Users, FirstFrame(r, u)
      PROVE  /\ UNCHANGED peer
             /\ phase[s] = "closed" => phase'[s] = "closed"
             /\ phase[s] # "accepted" => ident'[s] = ident[s]
  BY <1>3 DEF FirstFrame, TypeOK
<1>4. ASSUME NEW r \in Sockets, phase' = [phase EXCEPT ![r] = "closed"]
      PROVE  phase[s] = "closed" => phase'[s] = "closed"
  BY <1>4 DEF TypeOK
<1> QED
  BY <1>1, <1>2, <1>3, <1>4
     DEF Next, SocketStep, Handshake, WriterStep, RestStep, vars,
         AuthTimeout, BadFirstFrame, Refuse, LookupFails, LookupRaises, GreetingFails,
         ReceiveDisconnect, CloseHandler, Ping, BadFrame, Answer, SocketMessage,
         RestCreate, RestDelete, DeleteAccount, Insert, InsertFails, WriteFails, DeleteFails,
         Commit, CommitFails, Refresh, RefreshFails, CommitDelete, Announce,
         SendReturns, FinishSend

(* A row being scored stays pending unless its writer's commit ends that. *)
LEMMA ScoringStays ==
    ASSUME TypeOK, SafetyInv, [Next]_vars, NEW v \in Writers,
           task[v].step = "scoring", task'[v] = task[v]
    PROVE  row'[task[v].msg] = "pending" /\ author'[task[v].msg] = author[task[v].msg]
<1> DEFINE m == task[v].msg
<1>1. row[m] = "pending" /\ m \in Messages
  BY DEF SafetyInv, TaskInv
<1>2. ASSUME NEW w \in Writers, NEW n \in Messages, Insert(w, n)
      PROVE  row'[m] = row[m] /\ author'[m] = author[m]
  BY <1>1, <1>2 DEF Insert, TypeOK
<1>3. ASSUME NEW w \in Writers, Commit(w)
      PROVE  row'[m] = row[m] /\ author'[m] = author[m]
  <2>0. task[w] \in Task
    BY DEF TypeOK
  <2>1. task'[w].step = "refreshing"
    BY <1>3, <2>0 DEF Commit, TypeOK, Task
  <2>2. task[w].msg # m
    BY <1>3, <2>1 DEF Commit, SafetyInv, ScoringApart
  <2> QED
    BY <1>1, <1>3, <2>2 DEF Commit, TypeOK
<1>7. ASSUME NEW w \in Writers, CommitFails(w)
      PROVE  row'[m] = row[m] /\ author'[m] = author[m]
  <2>1. task'[w] = Idle
    BY <1>7 DEF CommitFails, TypeOK
  <2>2. task[w].msg # m
    BY <1>7, <2>1 DEF CommitFails, SafetyInv, ScoringApart, Idle
  <2> QED
    BY <1>1, <1>7, <2>2 DEF CommitFails, TypeOK
<1>4. ASSUME NEW w \in Writers, CommitDelete(w)
      PROVE  row'[m] = row[m] /\ author'[m] = author[m]
  <2>1. row[task[w].msg] \in Settled
    BY <1>4 DEF CommitDelete, SafetyInv, TaskInv
  <2>2. task[w].msg # m
    BY <1>1, <2>1 DEF Settled
  <2> QED
    BY <1>4, <2>2 DEF CommitDelete, TypeOK
<1>5. ASSUME NEW u \in Users, DeleteAccount(u)
      PROVE  row'[m] = row[m] /\ author'[m] = author[m]
  BY <1>1, <1>5 DEF DeleteAccount, TypeOK
<1>6. CASE UNCHANGED <<row, author>>
  BY <1>1, <1>6
<1> QED
  BY <1>1, <1>2, <1>3, <1>4, <1>5, <1>6, <1>7
     DEF Next, SocketStep, Handshake, WriterStep, RestStep, vars,
         PeerGone, PeerStall, StallEnds, Accept, AuthTimeout, BadFirstFrame, Refuse,
         FirstFrame, LookupFails, LookupRaises, LookupFinds, Register, Greeted, GreetingFails,
         ReceiveDisconnect, Ping, BadFrame, Answer, SocketMessage, RestCreate,
         RestDelete, InsertFails, WriteFails, DeleteFails, Refresh, RefreshFails, Announce,
         SendReturns, FinishSend

(* While a socket's handler is in the middle of a write, nothing else ends *)
(* it: whoever does, resets its task.                                      *)
LEMMA BusyStaysOpen ==
    ASSUME TypeOK, SafetyInv, [Next]_vars, NEW s \in Sockets,
           task[s].step # "idle", task'[s] = task[s]
    PROVE  phase'[s] = "open"
<1>1. phase[s] = "open" /\ s \in Writers
  BY DEF SafetyInv, TaskInv, Writers
<1>2. task[s] # Idle
  BY DEF Idle
<1>3. ASSUME NEW r \in Sockets,
             Accept(r) \/ LookupFinds(r) \/ Register(r) \/ Greeted(r)
      PROVE  phase'[s] = phase[s]
  BY <1>1, <1>3 DEF Accept, LookupFinds, Register, Greeted, TypeOK
<1>4. ASSUME NEW r \in Sockets, NEW u \in Users, FirstFrame(r, u)
      PROVE  phase'[s] = phase[s]
  BY <1>1, <1>4 DEF FirstFrame, TypeOK
<1>5. ASSUME NEW r \in Sockets,
             \/ AuthTimeout(r) \/ BadFirstFrame(r) \/ LookupFails(r)
             \/ LookupRaises(r) \/ GreetingFails(r)
      PROVE  phase'[s] = phase[s]
  BY <1>1, <1>5
     DEF AuthTimeout, BadFirstFrame, LookupFails, LookupRaises, GreetingFails, Refuse,
         TypeOK
<1>6. ASSUME NEW r \in Sockets, ReceiveDisconnect(r) \/ Ping(r) \/ BadFrame(r)
      PROVE  phase'[s] = phase[s]
  <2>1. r # s
    BY <1>1, <1>2, <1>6 DEF ReceiveDisconnect, Ping, BadFrame, Answer, Receiving
  <2> QED
    BY <1>6, <2>1 DEF ReceiveDisconnect, Ping, BadFrame, Answer, CloseHandler, TypeOK
<1>7. ASSUME NEW w \in Writers, InsertFails(w) \/ RefreshFails(w) \/ DeleteFails(w)
      PROVE  phase'[s] = phase[s]
  <2>1. WriteFails(w)
    BY <1>7 DEF InsertFails, RefreshFails, DeleteFails
  <2>2. w # s
    BY <1>1, <1>2, <2>1 DEF WriteFails, TypeOK
  <2> QED
    BY <2>1, <2>2 DEF WriteFails, CloseHandler, TypeOK
<1>8. ASSUME NEW w \in Writers, CommitFails(w)
      PROVE  phase'[s] = phase[s]
  <2>1. w # s
    BY <1>1, <1>2, <1>8 DEF CommitFails, TypeOK
  <2> QED
    BY <1>8, <2>1 DEF CommitFails, CloseHandler, TypeOK
<1>9. CASE UNCHANGED phase
  BY <1>1, <1>9
<1> QED
  BY <1>1, <1>3, <1>4, <1>5, <1>6, <1>7, <1>8, <1>9
     DEF Next, SocketStep, Handshake, WriterStep, RestStep, vars,
         PeerGone, PeerStall, StallEnds, SocketMessage, RestCreate, RestDelete,
         DeleteAccount, Insert, Commit, Refresh, CommitDelete, Announce,
         SendReturns, FinishSend

-----------------------------------------------------------------------------
(* The parts of SafetyInv, one after the other. *)

(* A writer that does not act keeps its part of the invariant. *)
LEMMA OtherTasks ==
    ASSUME TypeOK, SafetyInv, [Next]_vars, NEW v \in Writers, task'[v] = task[v]
    PROVE  TaskInv(v)'
<1> DEFINE t == task[v]
<1>1. TaskInv(v)
  BY DEF SafetyInv
<1>2. t.step \in {"scoring", "refreshing", "deleting", "announcing"} =>
         t.msg \in Messages /\ author'[t.msg] = t.user
  BY <1>1, RowsSettle, ScoringStays DEF TaskInv
<1>3. t.step = "scoring" => row'[t.msg] = "pending"
  BY ScoringStays
<1>4. t.step \in {"refreshing", "deleting", "announcing"} => row'[t.msg] \in Settled
  BY <1>1, RowsSettle DEF TaskInv
<1>5. t.step = "announcing" /\ t.kind = "delete" => row'[t.msg] = "gone"
  BY <1>1, RowsSettle DEF TaskInv
<1>6. v \in Sockets /\ t.step # "idle" => phase'[v] = "open" /\ t.user = ident'[v]
  BY <1>1, BusyStaysOpen, SocketsAge DEF TaskInv
<1>7. \A s \in t.failed : peer'[s] = "gone" \/ phase'[s] = "closed"
  <2>1. t.failed \subseteq Sockets
    BY DEF TypeOK, Task
  <2> QED
    BY <1>1, <2>1, SocketsAge DEF TaskInv
<1>8. t.step # "idle" => t.user \in Users /\ t.kind \in {"create", "delete"}
  BY <1>1 DEF TaskInv
<1>9. /\ t.step \in {"inserting", "scoring", "refreshing"} => t.kind = "create"
      /\ t.step = "deleting" => t.kind = "delete"
      /\ t.waiting # {} => t.step = "sending"
  BY <1>1 DEF TaskInv
<1> QED
  BY <1>2, <1>3, <1>4, <1>5, <1>6, <1>7, <1>8, <1>9 DEF TaskInv

(* A writer that has just become idle owes nothing. *)
LEMMA IdleInv == ASSUME NEW w \in Writers, task'[w] = Idle PROVE TaskInv(w)'
  BY DEF TaskInv, Idle

(* What the acting writer knows when it has acted. *)
LEMMA ActingTask ==
    ASSUME TypeOK, SafetyInv, [Next]_vars, NEW v \in Writers, task'[v] # task[v]
    PROVE  TaskInv(v)'
<1> USE DEF Steps
<1>0. TaskInv(v) /\ task[v] \in Task
  BY DEF SafetyInv, TypeOK
<1>1. ASSUME SocketMessage(v), v \in Sockets
      PROVE  TaskInv(v)'
  <2>1. phase'[v] = "open" /\ ident'[v] = ident[v] /\ ident[v] \in Users
    BY <1>1 DEF SocketMessage, Receiving, SafetyInv, PhaseInv
  <2>2. task'[v] = [Idle EXCEPT !.step = "inserting", !.kind = "create", !.user = ident[v]]
    BY <1>1 DEF SocketMessage, TypeOK
  <2> QED
    BY <2>1, <2>2 DEF TaskInv, Idle
<1>2. ASSUME NEW u \in Users, RestCreate(v, u), v \notin Sockets
      PROVE  TaskInv(v)'
  <2>1. task'[v] = [Idle EXCEPT !.step = "inserting", !.kind = "create", !.user = u]
    BY <1>2 DEF RestCreate, TypeOK
  <2> QED
    BY <1>2, <2>1 DEF TaskInv, Idle
<1>3. ASSUME NEW u \in Users, NEW m \in Messages, RestDelete(v, u, m), v \notin Sockets
      PROVE  TaskInv(v)'
  <2>1. task'[v] = [Idle EXCEPT !.step = "deleting", !.kind = "delete", !.user = u,
                                !.msg = m]
    BY <1>3 DEF RestDelete, TypeOK
  <2>2. row'[m] = "stored" /\ author'[m] = u
    BY <1>3 DEF RestDelete
  <2> QED
    BY <1>3, <2>1, <2>2 DEF TaskInv, Idle, Settled
<1>4. ASSUME NEW m \in Messages, Insert(v, m)
      PROVE  TaskInv(v)'
  <2>1. task'[v] = [task[v] EXCEPT !.step = "scoring", !.msg = m]
    BY <1>4 DEF Insert, TypeOK
  <2>2. row'[m] = "pending" /\ author'[m] = task[v].user
    BY <1>4 DEF Insert, TypeOK
  <2>3. /\ task'[v].step = "scoring" /\ task'[v].msg = m
        /\ task'[v].user = task[v].user /\ task'[v].kind = task[v].kind
        /\ task'[v].failed = task[v].failed /\ task'[v].waiting = task[v].waiting
    BY <1>0, <2>1 DEF Task
  <2>4. task[v].step = "inserting" /\ UNCHANGED <<phase, ident, peer>>
    BY <1>4 DEF Insert
  <2> QED
    BY <1>0, <2>2, <2>3, <2>4 DEF TaskInv
<1>5. ASSUME Commit(v)
      PROVE  TaskInv(v)'
  <2>1. task'[v] = [task[v] EXCEPT !.step = "refreshing"]
    BY <1>5 DEF Commit, TypeOK
  <2>2. row'[task[v].msg] = "stored" /\ UNCHANGED author
    BY <1>0, <1>5 DEF Commit, TypeOK, TaskInv
  <2> QED
    BY <1>0, <1>5, <2>1, <2>2 DEF Commit, TaskInv, Task, Settled
<1>6. ASSUME Refresh(v)
      PROVE  TaskInv(v)'
  <2>1. task'[v] = [task[v] EXCEPT !.step = "announcing"]
    BY <1>6 DEF Refresh, TypeOK
  <2> QED
    BY <1>0, <1>6, <2>1 DEF Refresh, TaskInv, Task
<1>7. ASSUME CommitDelete(v)
      PROVE  TaskInv(v)'
  <2>1. task'[v] = [task[v] EXCEPT !.step = "announcing"]
    BY <1>7 DEF CommitDelete, TypeOK
  <2>2. row'[task[v].msg] = "gone" /\ UNCHANGED author
    BY <1>0, <1>7 DEF CommitDelete, TypeOK, TaskInv
  <2> QED
    BY <1>0, <1>7, <2>1, <2>2 DEF CommitDelete, TaskInv, Task, Settled
<1>8. ASSUME Announce(v)
      PROVE  TaskInv(v)'
  <2>1. CASE task'[v] = Idle
    BY <2>1, IdleInv
  <2>2. CASE task'[v] = [task[v] EXCEPT
                           !.step = "sending",
                           !.waiting = registry[task[v].user] \ Ended(registry[task[v].user]),
                           !.failed = Ended(registry[task[v].user])]
    <3>1. /\ task'[v].step = "sending" /\ task'[v].user = task[v].user
          /\ task'[v].kind = task[v].kind
          /\ task'[v].failed = Ended(registry[task[v].user])
      BY <1>0, <2>2 DEF Task
    <3>2. task[v].step = "announcing" /\ UNCHANGED <<phase, ident, peer>>
      BY <1>8 DEF Announce
    <3>3. \A s \in task'[v].failed : phase'[s] = "closed"
      BY <3>1, <3>2 DEF Ended
    <3> QED
      BY <1>0, <3>1, <3>2, <3>3 DEF TaskInv
  <2> QED
    BY <1>8, <2>1, <2>2 DEF Announce, TypeOK
<1>9. ASSUME NEW s \in Sockets, SendReturns(v, s)
      PROVE  TaskInv(v)'
  <2>1. CASE task'[v] = [task[v] EXCEPT !.waiting = @ \ {s}]
    BY <1>0, <1>9, <2>1 DEF SendReturns, TaskInv, Task
  <2>2. CASE /\ peer[s] = "gone" \/ phase[s] = "closed"
             /\ task'[v] = [task[v] EXCEPT !.waiting = @ \ {s}, !.failed = @ \cup {s}]
    BY <1>0, <1>9, <2>2 DEF SendReturns, TaskInv, Task
  <2> QED
    BY <1>9, <2>1, <2>2 DEF SendReturns, TypeOK
<1>10. ASSUME \/ InsertFails(v) \/ CommitFails(v) \/ RefreshFails(v) \/ DeleteFails(v)
              \/ FinishSend(v)
       PROVE  TaskInv(v)'
  <2>1. task'[v] = Idle
    BY <1>10
       DEF InsertFails, CommitFails, RefreshFails, DeleteFails, WriteFails, FinishSend,
           TypeOK
  <2> QED
    BY <2>1, IdleInv
<1>11. ASSUME NEW w \in Writers, w # v,
              \/ InsertFails(w) \/ CommitFails(w) \/ RefreshFails(w) \/ DeleteFails(w)
              \/ FinishSend(w) \/ Commit(w) \/ Refresh(w) \/ CommitDelete(w) \/ Announce(w)
              \/ \E m \in Messages : Insert(w, m)
              \/ \E s \in Sockets : SendReturns(w, s)
              \/ SocketMessage(w)
              \/ \E u \in Users : RestCreate(w, u)
              \/ \E u \in Users, m \in Messages : RestDelete(w, u, m)
       PROVE  FALSE
  BY <1>11 DEF InsertFails, CommitFails, RefreshFails, DeleteFails, WriteFails,
     FinishSend, Commit, Refresh, CommitDelete, Announce, Insert, SendReturns, SocketMessage, RestCreate,
     RestDelete, TypeOK
<1>12. CASE UNCHANGED task
  BY <1>12
<1>13. CASE \E s \in Sockets : SocketMessage(s)
  BY <1>1, <1>11, <1>13 DEF Writers
<1>14. CASE \E r \in Requests, u \in Users : RestStep(r, u)
  BY <1>2, <1>3, <1>11, <1>14, ConstantsDistinct DEF RestStep, Writers
<1>15. CASE \E w \in Writers : WriterStep(w)
  BY <1>4, <1>5, <1>6, <1>7, <1>8, <1>9, <1>10, <1>11, <1>15 DEF WriterStep
<1> QED
  BY <1>12, <1>13, <1>14, <1>15
     DEF Next, SocketStep, Handshake, vars,
         PeerGone, PeerStall, StallEnds, Accept, AuthTimeout, BadFirstFrame, Refuse,
         FirstFrame, LookupFails, LookupRaises, LookupFinds, Register, Greeted, GreetingFails,
         ReceiveDisconnect, Ping, BadFrame, Answer, DeleteAccount

(* Every step keeps what each write knows about its row. *)
LEMMA TaskStep ==
    ASSUME TypeOK, SafetyInv, [Next]_vars
    PROVE  \A w \in Writers : TaskInv(w)'
  BY OtherTasks, ActingTask

(* A writer that starts scoring has just inserted a row under a fresh id,  *)
(* and no other writer acted with it.                                      *)
LEMMA NewlyScoring ==
    ASSUME TypeOK, SafetyInv, [Next]_vars, NEW v \in Writers,
           task'[v] # task[v], task'[v].step = "scoring"
    PROVE  /\ row[task'[v].msg] = "free"
           /\ \A w \in Writers : w # v => task'[w] = task[w]
<1>0. \A w \in Writers : task[w] \in Task
  BY DEF TypeOK
<1>1. ASSUME NEW w \in Writers, NEW m \in Messages, Insert(w, m)
      PROVE  /\ row[task'[v].msg] = "free"
             /\ \A x \in Writers : x # v => task'[x] = task[x]
  <2>1. w = v
    BY <1>1 DEF Insert, TypeOK
  <2>2. task'[v] = [task[v] EXCEPT !.step = "scoring", !.msg = m]
    BY <1>1, <2>1 DEF Insert, TypeOK
  <2>3. task'[v].msg = m
    BY <1>0, <2>2 DEF Task
  <2> QED
    BY <1>1, <2>1, <2>3 DEF Insert, TypeOK
<1>2. ASSUME NEW w \in Writers, NEW st \in Steps \ {"scoring"},
             task' = [task EXCEPT ![w] = [task[w] EXCEPT !.step = st]]
      PROVE  FALSE
  BY <1>0, <1>2 DEF Task, TypeOK
<1>3. ASSUME NEW w \in Writers, Commit(w) \/ CommitDelete(w) \/ Refresh(w)
      PROVE  FALSE
  BY <1>2, <1>3 DEF Commit, CommitDelete, Refresh, Steps
<1>4. ASSUME NEW w \in Writers, task' = [task EXCEPT ![w] = Idle]
      PROVE  FALSE
  BY <1>4 DEF Idle, TypeOK
<1>5. ASSUME NEW w \in Writers, Announce(w)
      PROVE  FALSE
  <2> DEFINE ended == Ended(registry[task[w].user])
             waiting == registry[task[w].user] \ ended
  <2>1. task' = [task EXCEPT ![w] = [task[w] EXCEPT !.step = "sending",
                                                    !.waiting = waiting,
                                                    !.failed = ended]]
    BY <1>4, <1>5 DEF Announce
  <2> HIDE DEF ended, waiting
  <2> QED
    BY <1>0, <2>1 DEF Task, TypeOK
<1>6. ASSUME NEW w \in Writers, NEW s \in Sockets, SendReturns(w, s)
      PROVE  FALSE
  <2>1. w = v /\ task[v].waiting # {}
    BY <1>6 DEF SendReturns, TypeOK
  <2>2. task[v].step = "sending"
    BY <2>1 DEF SafetyInv, TaskInv
  <2>3. task'[v].step = task[v].step
    BY <1>0, <1>6, <2>1 DEF SendReturns, Task, TypeOK
  <2> QED
    BY <2>2, <2>3
<1>7. ASSUME NEW s \in Sockets, SocketMessage(s)
      PROVE  FALSE
  BY <1>7 DEF SocketMessage, Idle, TypeOK
<1>8. ASSUME NEW r \in Requests, NEW u \in Users, RestStep(r, u)
      PROVE  FALSE
  <2>1. ASSUME RestCreate(r, u)
        PROVE  FALSE
    BY <2>1 DEF RestCreate, Idle, TypeOK
  <2>2. ASSUME NEW m \in Messages, RestDelete(r, u, m)
        PROVE  FALSE
    <3> DEFINE t == [Idle EXCEPT !.step = "deleting", !.kind = "delete",
                                 !.user = u, !.msg = m]
    <3>1. t.step = "deleting"
      BY DEF Idle
    <3>2. task' = [task EXCEPT ![r] = t]
      BY <2>2 DEF RestDelete
    <3> QED
      BY <3>1, <3>2 DEF TypeOK
  <2> QED
    BY <1>8, <2>1, <2>2 DEF RestStep
<1>9. ASSUME NEW w \in Writers,
             \/ InsertFails(w) \/ CommitFails(w) \/ RefreshFails(w) \/ DeleteFails(w)
             \/ FinishSend(w)
      PROVE  FALSE
  BY <1>4, <1>9
     DEF InsertFails, CommitFails, RefreshFails, DeleteFails, FinishSend, WriteFails
<1>10. CASE UNCHANGED task
  BY <1>10
<1> QED
  BY <1>1, <1>3, <1>5, <1>6, <1>7, <1>8, <1>9, <1>10
     DEF Next, SocketStep, Handshake, WriterStep, vars,
         PeerGone, PeerStall, StallEnds, Accept, AuthTimeout, BadFirstFrame, Refuse,
         FirstFrame, LookupFails, LookupRaises, LookupFinds, Register, Greeted, GreetingFails,
         ReceiveDisconnect, Ping, BadFrame, Answer, DeleteAccount

(* Two rows being scored are two rows: an insert takes a fresh id. *)
LEMMA ScoringApartStep ==
    ASSUME TypeOK, SafetyInv, [Next]_vars
    PROVE  ScoringApart'
<1> SUFFICES ASSUME NEW v \in Writers, NEW w \in Writers, v # w,
                    task'[v].step = "scoring", task'[w].step = "scoring",
                    task'[v].msg = task'[w].msg
             PROVE  FALSE
  BY DEF ScoringApart
<1>1. CASE task'[v] = task[v] /\ task'[w] = task[w]
  BY <1>1 DEF SafetyInv, ScoringApart
<1>2. \A x, y \in Writers :
         /\ x # y /\ task'[x] # task[x]
         /\ task'[x].step = "scoring" /\ task'[y].step = "scoring"
         => task'[x].msg # task'[y].msg
  <2> SUFFICES ASSUME NEW x \in Writers, NEW y \in Writers, x # y,
                      task'[x] # task[x],
                      task'[x].step = "scoring", task'[y].step = "scoring"
               PROVE  task'[x].msg # task'[y].msg
    OBVIOUS
  <2>1. row[task'[x].msg] = "free" /\ task'[y] = task[y]
    BY NewlyScoring
  <2>2. row[task[y].msg] = "pending"
    BY <2>1 DEF SafetyInv, TaskInv
  <2> QED
    BY <2>1, <2>2
<1> QED
  BY <1>1, <1>2

-----------------------------------------------------------------------------
(* Wires. *)

(* The phases of a socket that is not registered yet, that has named its   *)
(* user, and whose handler may be sent to.                                 *)
Early  == {"new", "accepted", "lookup", "found"}
Named  == {"lookup", "found", "greeting", "open"}
Joined == {"greeting", "open"}

(* What may be appended to the wire of s in one step. *)
ChatFrameOf(s, f) ==
    f.type \in ChatTypes =>
       /\ f.msg \in Messages
       /\ f.user = ident[s]
       /\ author[f.msg] = ident[s]
       /\ row[f.msg] \in Settled
       /\ f.type = "message_deleted" => row[f.msg] = "gone"
       /\ phase[s] \in {"greeting", "open", "closed"}

NewFrame(s, f) ==
    peer[s] # "gone" /\ wire'[s] = Append(wire[s], f) /\ ChatFrameOf(s, f)

(* A send reaches each of its targets whose client is there. *)
LEMMA SendToEach ==
    ASSUME TypeOK, NEW targets, NEW f, SendTo(targets, f), NEW s \in Sockets
    PROVE  \/ wire'[s] = wire[s] /\ (s \in targets => peer[s] = "gone")
           \/ s \in targets /\ peer[s] # "gone" /\ wire'[s] = Append(wire[s], f)
  BY DEF SendTo

(* One step puts at most one frame on a wire, and never a chat frame that *)
(* is about somebody else or not yet true.                                 *)
LEMMA FramesSent ==
    ASSUME TypeOK, SafetyInv, [Next]_vars, NEW s \in Sockets
    PROVE  \/ wire'[s] = wire[s]
           \/ \E f \in Frame : NewFrame(s, f)
<1>1. ASSUME NEW r \in Sockets, NEW f \in Frame, f.type \notin ChatTypes, SendTo({r}, f)
      PROVE  \/ wire'[s] = wire[s]
             \/ \E g \in Frame : NewFrame(s, g)
  <2>1. ChatFrameOf(s, f)
    BY <1>1 DEF ChatFrameOf
  <2> QED
    BY <1>1, <2>1, SendToEach DEF NewFrame
<1>2. ASSUME NEW w \in Writers, Announce(w)
      PROVE  \/ wire'[s] = wire[s]
             \/ \E f \in Frame : NewFrame(s, f)
  <2> DEFINE f == Announcement(w)
  <2>1. f \in Frame
    BY AnnouncementType
  <2>2. CASE wire'[s] = wire[s]
    BY <2>2
  <2>3. CASE /\ s \in registry[task[w].user] /\ peer[s] # "gone"
             /\ wire'[s] = Append(wire[s], f)
    <3>1. TaskInv(w) /\ task[w].step = "announcing"
      BY <1>2 DEF SafetyInv, Announce
    <3>2. task[w].user \in Users
      BY <3>1 DEF TaskInv
    <3>3. ident[s] = task[w].user /\ phase[s] \in {"greeting", "open", "closed"}
      BY <2>3, <3>2 DEF SafetyInv, RegistrySound
    <3>4. /\ f.msg = task[w].msg /\ f.user = task[w].user
          /\ f.type = "message_deleted" => task[w].kind = "delete"
      BY DEF Announcement, MessageFrame, MessageDeletedFrame
    <3>5. ChatFrameOf(s, f)
      BY <3>1, <3>3, <3>4 DEF TaskInv, ChatFrameOf
    <3> QED
      BY <2>1, <2>3, <3>5 DEF NewFrame
  <2> HIDE DEF f
  <2>4. SendTo(registry[task[w].user], f)
    BY <1>2 DEF Announce, f
  <2> QED
    BY <2>2, <2>3, <2>4, SendToEach
<1>3. ASSUME NEW r \in Sockets, Refuse(r)
      PROVE  SendTo({r}, ErrorFrame) /\ ErrorFrame \in Frame
             /\ ErrorFrame.type \notin ChatTypes
  BY <1>3, FrameTypes DEF Refuse, ErrorFrame, ChatTypes
<1>4. ASSUME NEW r \in Sockets, Register(r)
      PROVE  SendTo({r}, AuthOkFrame(ident[r])) /\ AuthOkFrame(ident[r]) \in Frame
             /\ AuthOkFrame(ident[r]).type \notin ChatTypes
  <2>1. ident[r] \in Users
    BY <1>4 DEF Register, SafetyInv, PhaseInv
  <2> QED
    BY <1>4, <2>1, FrameTypes DEF Register, AuthOkFrame, ChatTypes
<1>5. ASSUME NEW r \in Sockets, Ping(r) \/ BadFrame(r)
      PROVE  \E f \in Frame : f.type \notin ChatTypes /\ SendTo({r}, f)
  BY <1>5, FrameTypes DEF Ping, BadFrame, Answer, PongFrame, ErrorFrame, ChatTypes
<1>6. CASE UNCHANGED wire
  BY <1>6
<1> QED
  BY <1>1, <1>2, <1>3, <1>4, <1>5, <1>6
     DEF Next, SocketStep, Handshake, WriterStep, RestStep, vars,
         PeerGone, PeerStall, StallEnds, Accept, AuthTimeout, BadFirstFrame,
         FirstFrame, LookupFails, LookupRaises, LookupFinds, Greeted, GreetingFails,
         ReceiveDisconnect, SocketMessage, RestCreate, RestDelete, DeleteAccount,
         Insert, InsertFails, WriteFails, DeleteFails, Commit, CommitFails, Refresh,
         RefreshFails, CommitDelete, SendReturns, FinishSend

(* The wire and the registry of a socket still in the handshake do not     *)
(* move, and a socket leaves the handshake registered.                     *)
LEMMA PhaseMoves ==
    ASSUME TypeOK, SafetyInv, [Next]_vars, NEW s \in Sockets
    PROVE  /\ phase'[s] \in Early => phase[s] \in Early /\ wire'[s] = wire[s]
           /\ phase'[s] \in Named => phase[s] \in Named \/ ident'[s] \in Users
           /\ phase'[s] \in Joined =>
                 \/ phase[s] \in Joined
                 \/ phase[s] = "found" /\ s \in registry'[ident[s]]
<1> USE DEF Early, Named, Joined
<1>1. ASSUME NEW r \in Sockets, NEW f, SendTo({r}, f), r # s
      PROVE  wire'[s] = wire[s]
  BY <1>1, SendToEach
<1>2. ASSUME NEW r \in Sockets,
             \/ Refuse(r) \/ LookupRaises(r) \/ LookupFinds(r) \/ Greeted(r)
             \/ GreetingFails(r) \/ Accept(r)
      PROVE  /\ phase'[s] \in Early => phase[s] \in Early /\ wire'[s] = wire[s]
             /\ phase'[s] \in Named => phase[s] \in Named
             /\ phase'[s] \in Joined => phase[s] \in Joined
  <2>1. CASE r = s
    BY <1>2, <2>1
       DEF Refuse, LookupRaises, LookupFinds, Greeted, GreetingFails, Accept, TypeOK
  <2>2. CASE r # s
    BY <1>1, <1>2, <2>2
       DEF Refuse, LookupRaises, LookupFinds, Greeted, GreetingFails, Accept, TypeOK
  <2> QED
    BY <2>1, <2>2
<1>3. ASSUME NEW r \in Sockets, NEW u \in Users, FirstFrame(r, u)
      PROVE  /\ phase'[s] \in Early => phase[s] \in Early /\ wire'[s] = wire[s]
             /\ phase'[s] \in Named => phase[s] \in Named \/ ident'[s] \in Users
             /\ phase'[s] \in Joined => phase[s] \in Joined
  BY <1>3 DEF FirstFrame, TypeOK
<1>4. ASSUME NEW r \in Sockets, Register(r)
      PROVE  /\ phase'[s] \in Early => phase[s] \in Early /\ wire'[s] = wire[s]
             /\ phase'[s] \in Named => phase[s] \in Named
             /\ phase'[s] \in Joined =>
                   \/ phase[s] \in Joined
                   \/ phase[s] = "found" /\ s \in registry'[ident[s]]
  <2>1. phase' = [phase EXCEPT ![r] = "greeting"] /\ phase[r] = "found"
    BY <1>4 DEF Register
  <2>2. CASE r = s
    <3>1. ident[s] \in Users
      BY <1>4, <2>2 DEF Register, SafetyInv, PhaseInv
    <3>2. s \in registry'[ident[s]]
      BY <1>4, <2>2, <3>1 DEF Register, TypeOK
    <3> QED
      BY <2>1, <2>2, <3>2 DEF TypeOK
  <2>3. CASE r # s
    <3>1. wire'[s] = wire[s]
      BY <1>1, <1>4, <2>3 DEF Register
    <3> QED
      BY <2>1, <2>3, <3>1 DEF TypeOK
  <2> QED
    BY <2>2, <2>3
<1>5. ASSUME NEW r \in Sockets, ReceiveDisconnect(r) \/ Ping(r) \/ BadFrame(r)
      PROVE  /\ phase'[s] \in Early => phase[s] \in Early /\ wire'[s] = wire[s]
             /\ phase'[s] \in Named => phase[s] \in Named
             /\ phase'[s] \in Joined => phase[s] \in Joined
  <2>1. UNCHANGED phase \/ phase' = [phase EXCEPT ![r] = "closed"]
    BY <1>5 DEF ReceiveDisconnect, CloseHandler, Ping, BadFrame, Answer
  <2>2. phase'[s] \in Early => wire'[s] = wire[s]
    <3>1. CASE UNCHANGED wire
      BY <3>1
    <3>2. CASE \E f : SendTo({r}, f) /\ phase[r] = "open"
      BY <1>1, <2>1, <3>2 DEF TypeOK
    <3> QED
      BY <1>5, <3>1, <3>2 DEF ReceiveDisconnect, Ping, BadFrame, Answer, Receiving
  <2> QED
    BY <2>1, <2>2 DEF TypeOK
<1>6. ASSUME NEW w \in Writers, Announce(w)
      PROVE  UNCHANGED phase /\ (phase[s] \in Early => wire'[s] = wire[s])
  <2>1. task[w].user \in Users
    BY <1>6 DEF Announce, SafetyInv, TaskInv
  <2>2. phase[s] \in Early => s \notin registry[task[w].user]
    BY <2>1 DEF SafetyInv, PhaseInv
  <2> QED
    BY <1>6, <2>2, SendToEach DEF Announce
<1>7. ASSUME NEW w \in Writers,
             InsertFails(w) \/ CommitFails(w) \/ RefreshFails(w) \/ DeleteFails(w)
      PROVE  /\ UNCHANGED wire
             /\ phase'[s] \in {phase[s], "closed"}
  BY <1>7
     DEF InsertFails, CommitFails, RefreshFails, DeleteFails, WriteFails, CloseHandler,
         TypeOK
<1>8. CASE UNCHANGED <<phase, wire>>
  BY <1>8
<1> QED
  BY <1>2, <1>3, <1>4, <1>5, <1>6, <1>7, <1>8
     DEF Next, SocketStep, Handshake, WriterStep, RestStep, vars,
         PeerGone, PeerStall, StallEnds, AuthTimeout, BadFirstFrame, LookupFails,
         SocketMessage, RestCreate, RestDelete, DeleteAccount,
         Insert, Commit, Refresh, CommitDelete, SendReturns, FinishSend

(* A socket enters a group by the last step of its handshake only, and     *)
(* leaves one only when its client or its handler is gone.                 *)
LEMMA RegistryMoves ==
    ASSUME TypeOK, SafetyInv, [Next]_vars, NEW s \in Sockets, NEW u \in Users
    PROVE  /\ s \in registry'[u] /\ s \notin registry[u] =>
                 /\ phase[s] = "found" /\ phase'[s] = "greeting"
                 /\ ident[s] = u /\ UNCHANGED <<peer, ident>>
                 /\ SendTo({s}, AuthOkFrame(u))
           /\ s \in registry[u] /\ s \notin registry'[u] =>
                 peer'[s] = "gone" \/ phase'[s] = "closed"
<1>1. ASSUME NEW r \in Sockets, CloseHandler(r)
      PROVE  /\ s \in registry'[u] => s \in registry[u]
             /\ s \in registry[u] /\ s \notin registry'[u] => phase'[s] = "closed"
  <2>1. /\ phase' = [phase EXCEPT ![r] = "closed"]
        /\ registry' = [registry EXCEPT ![ident[r]] = registry[ident[r]] \ {r}]
    BY <1>1 DEF CloseHandler, Disconnect
  <2> QED
    BY <2>1 DEF TypeOK
<1>2. ASSUME NEW w \in Writers, FinishSend(w)
      PROVE  /\ s \in registry'[u] => s \in registry[u]
             /\ s \in registry[u] /\ s \notin registry'[u] =>
                   peer'[s] = "gone" \/ phase'[s] = "closed"
  <2>1. \A t \in task[w].failed : peer[t] = "gone" \/ phase[t] = "closed"
    BY DEF SafetyInv, TaskInv
  <2>2. registry' = [registry EXCEPT ![task[w].user] =
                       registry[task[w].user] \ task[w].failed]
    BY <1>2 DEF FinishSend, Disconnect
  <2>3. UNCHANGED <<peer, phase>>
    BY <1>2 DEF FinishSend
  <2> QED
    BY <2>1, <2>2, <2>3 DEF TypeOK
<1>3. ASSUME NEW r \in Sockets, Register(r)
      PROVE  /\ s \in registry[u] => s \in registry'[u]
             /\ s \in registry'[u] /\ s \notin registry[u] =>
                   /\ phase[s] = "found" /\ phase'[s] = "greeting"
                   /\ ident[s] = u /\ UNCHANGED <<peer, ident>>
                   /\ SendTo({s}, AuthOkFrame(u))
  <2>1. /\ registry' = [registry EXCEPT ![ident[r]] = registry[ident[r]] \cup {r}]
        /\ phase' = [phase EXCEPT ![r] = "greeting"] /\ phase[r] = "found"
        /\ SendTo({r}, AuthOkFrame(ident[r])) /\ UNCHANGED <<peer, ident>>
    BY <1>3 DEF Register
  <2>2. s \in registry'[u] /\ s \notin registry[u] => s = r /\ ident[r] = u
    BY <2>1 DEF TypeOK
  <2> QED
    BY <2>1, <2>2 DEF TypeOK
<1>4. CASE UNCHANGED registry
  BY <1>4
<1> QED
  BY <1>1, <1>2, <1>3, <1>4
     DEF Next, SocketStep, Handshake, WriterStep, RestStep, vars,
         PeerGone, PeerStall, StallEnds, Accept, AuthTimeout, BadFirstFrame, Refuse,
         FirstFrame, LookupFails, LookupRaises, LookupFinds, Greeted, GreetingFails,
         ReceiveDisconnect, Ping, BadFrame, Answer, SocketMessage, RestCreate,
         RestDelete, DeleteAccount, Insert, InsertFails, WriteFails, DeleteFails, Commit,
         CommitFails, Refresh, RefreshFails, CommitDelete, Announce, SendReturns

(* Every step keeps the handshake silent and unregistered. *)
LEMMA PhaseStep ==
    ASSUME TypeOK, SafetyInv, [Next]_vars, NEW s \in Sockets
    PROVE  PhaseInv(s)'
<1>1. PhaseInv(s)
  BY DEF SafetyInv
<1>2. ASSUME phase'[s] \in Early
      PROVE  wire'[s] = <<>> /\ \A u \in Users : s \notin registry'[u]
  BY <1>1, <1>2, PhaseMoves, RegistryMoves DEF PhaseInv, Early
<1>3. ASSUME phase'[s] \in Named
      PROVE  ident'[s] \in Users
  BY <1>1, <1>3, PhaseMoves, SocketsAge DEF PhaseInv, Named
<1> QED
  BY <1>2, <1>3 DEF PhaseInv, Early, Named

(* What a frame says stays true: its row never comes back, and the socket  *)
(* it was sent on never changes hands.                                     *)
LEMMA FrameStep ==
    ASSUME TypeOK, SafetyInv, [Next]_vars, NEW s \in Sockets
    PROVE  FrameInv(s)'
<1> SUFFICES ASSUME NEW i \in DOMAIN wire'[s], wire'[s][i].type \in ChatTypes
             PROVE  LET f == wire'[s][i] IN
                    /\ f.msg \in Messages
                    /\ f.user = ident'[s]
                    /\ author'[f.msg] = ident'[s]
                    /\ row'[f.msg] \in Settled
                    /\ f.type = "message_deleted" => row'[f.msg] = "gone"
  BY DEF FrameInv
<1>1. wire[s] \in Seq(Frame)
  BY DEF TypeOK
<1>2. CASE i \in DOMAIN wire[s] /\ wire'[s][i] = wire[s][i]
  <2>1. phase[s] # "accepted"
    BY <1>2 DEF SafetyInv, PhaseInv
  <2>2. ident'[s] = ident[s]
    BY <2>1, SocketsAge
  <2>3. FrameInv(s)
    BY DEF SafetyInv
  <2> QED
    BY <1>2, <2>2, <2>3, RowsSettle DEF FrameInv
<1>3. CASE \E f \in Frame : NewFrame(s, f) /\ wire'[s][i] = f
  <2>1. PICK f \in Frame : NewFrame(s, f) /\ wire'[s][i] = f
    BY <1>3
  <2>2. ChatFrameOf(s, f) /\ f.type \in ChatTypes
    BY <2>1 DEF NewFrame
  <2>3. ident'[s] = ident[s]
    BY <2>2, SocketsAge DEF ChatFrameOf
  <2> QED
    BY <2>1, <2>2, <2>3, RowsSettle DEF ChatFrameOf
<1>4. CASE wire'[s] = wire[s]
  BY <1>2, <1>4
<1>5. CASE \E f \in Frame : NewFrame(s, f)
  <2>1. PICK f \in Frame : NewFrame(s, f)
    BY <1>5
  <2>2. wire'[s] = Append(wire[s], f)
    BY <2>1 DEF NewFrame
  <2>3. \/ i \in DOMAIN wire[s] /\ wire'[s][i] = wire[s][i]
        \/ wire'[s][i] = f
    BY <1>1, <2>2
  <2> QED
    BY <1>2, <1>3, <2>1, <2>3
<1> QED
  BY <1>4, <1>5, FramesSent

(* Every step keeps sockets under the user their handshake proved. *)
LEMMA RegistrySoundStep ==
    ASSUME TypeOK, SafetyInv, [Next]_vars
    PROVE  RegistrySound'
<1> SUFFICES ASSUME NEW u \in Users, NEW s \in registry'[u]
             PROVE  /\ ident'[s] = u
                    /\ phase'[s] \in {"greeting", "open", "closed"}
                    /\ \/ wire'[s] # <<>> /\ wire'[s][1] = AuthOkFrame(u)
                       \/ wire'[s] = <<>> /\ peer'[s] = "gone"
  BY DEF RegistrySound, AuthOkFrame
<1>1. TypeOK'
  BY TypeStep
<1>2. s \in Sockets /\ phase'[s] \in Phases /\ wire[s] \in Seq(Frame)
  BY <1>1 DEF TypeOK
<1>3. CASE s \in registry[u]
  <2>1. /\ ident[s] = u /\ phase[s] \in {"greeting", "open", "closed"}
        /\ \/ wire[s] # <<>> /\ wire[s][1] = AuthOkFrame(u)
           \/ wire[s] = <<>> /\ peer[s] = "gone"
    BY <1>3 DEF SafetyInv, RegistrySound
  <2>2. ident'[s] = u
    BY <1>2, <2>1, SocketsAge
  <2>3. phase'[s] \in {"greeting", "open", "closed"}
    BY <1>2, <2>1, PhaseMoves DEF Phases, Early
  <2>4. CASE wire[s] = <<>> /\ peer[s] = "gone"
    <3>1. wire'[s] = wire[s] /\ peer'[s] = "gone"
      BY <1>2, <2>4, FramesSent, SocketsAge DEF NewFrame
    <3> QED
      BY <2>2, <2>3, <2>4, <3>1
  <2>5. CASE wire[s] # <<>> /\ wire[s][1] = AuthOkFrame(u)
    <3>1. wire'[s] # <<>> /\ wire'[s][1] = wire[s][1]
      BY <1>2, <2>5, FramesSent DEF NewFrame
    <3> QED
      BY <2>2, <2>3, <2>5, <3>1
  <2> QED
    BY <2>1, <2>4, <2>5
<1>4. CASE s \notin registry[u]
  <2>1. /\ phase[s] = "found" /\ phase'[s] = "greeting" /\ ident'[s] = u
        /\ peer'[s] = peer[s] /\ SendTo({s}, AuthOkFrame(u))
    BY <1>2, <1>4, RegistryMoves
  <2>2. wire[s] = <<>>
    BY <1>2, <2>1 DEF SafetyInv, PhaseInv
  <2>3. \/ wire'[s] = <<>> /\ peer[s] = "gone"
        \/ wire'[s] = Append(wire[s], AuthOkFrame(u))
    BY <1>2, <2>1, <2>2, SendToEach
  <2>4. ASSUME NEW f
        PROVE  Append(<<>>, f) # <<>> /\ Append(<<>>, f)[1] = f
    OBVIOUS
  <2>5. wire'[s] = Append(wire[s], AuthOkFrame(u)) =>
           wire'[s] # <<>> /\ wire'[s][1] = AuthOkFrame(u)
    BY <2>2, <2>4
  <2> QED
    BY <2>1, <2>3, <2>5
<1> QED
  BY <1>3, <1>4

(* Every step keeps each live socket in its user's group. *)
LEMMA RegistryCompleteStep ==
    ASSUME TypeOK, SafetyInv, [Next]_vars
    PROVE  RegistryComplete'
<1> SUFFICES ASSUME NEW s \in Sockets, phase'[s] \in Joined, peer'[s] # "gone"
             PROVE  s \in registry'[ident'[s]]
  BY DEF RegistryComplete, Live, Joined
<1>1. CASE phase[s] \in Joined
  <2>1. ident'[s] = ident[s] /\ peer[s] # "gone"
    BY <1>1, SocketsAge DEF Joined
  <2>2. ident[s] \in Users /\ s \in registry[ident[s]]
    BY <1>1, <2>1 DEF SafetyInv, PhaseInv, RegistryComplete, Live, Joined
  <2> QED
    BY <2>1, <2>2, RegistryMoves DEF Joined
<1>2. CASE phase[s] = "found" /\ s \in registry'[ident[s]]
  BY <1>2, SocketsAge
<1> QED
  BY <1>1, <1>2, PhaseMoves

(* A row that needs an author has one when it is inserted, and an account  *)
(* is deleted with all its rows.                                           *)
LEMMA NoOrphanRowsStep ==
    ASSUME TypeOK, SafetyInv, [Next]_vars
    PROVE  NoOrphanRows'
<1> SUFFICES ASSUME NEW m \in Messages, row'[m] \in {"pending", "stored"}
             PROVE  author'[m] \in users'
  BY DEF NoOrphanRows
<1>1. ASSUME NEW w \in Writers, NEW n \in Messages, Insert(w, n)
      PROVE  author'[m] \in users'
  BY <1>1 DEF Insert, TypeOK, SafetyInv, NoOrphanRows
<1>2. ASSUME NEW w \in Writers, Commit(w)
      PROVE  author'[m] \in users'
  <2>1. row[task[w].msg] = "pending"
    BY <1>2 DEF Commit, SafetyInv, TaskInv
  <2> QED
    BY <1>2, <2>1 DEF Commit, TypeOK, SafetyInv, NoOrphanRows
<1>3. ASSUME NEW w \in Writers, CommitDelete(w)
      PROVE  author'[m] \in users'
  BY <1>3 DEF CommitDelete, TypeOK, SafetyInv, NoOrphanRows
<1>4. ASSUME NEW u \in Users, DeleteAccount(u)
      PROVE  author'[m] \in users'
  BY <1>4 DEF DeleteAccount, TypeOK, SafetyInv, NoOrphanRows
<1>5. ASSUME NEW w \in Writers, CommitFails(w)
      PROVE  author'[m] \in users'
  BY <1>5 DEF CommitFails, TypeOK, SafetyInv, NoOrphanRows
<1>6. CASE UNCHANGED <<users, row, author>>
  BY <1>6 DEF SafetyInv, NoOrphanRows
<1> QED
  BY <1>1, <1>2, <1>3, <1>4, <1>5, <1>6
     DEF Next, SocketStep, Handshake, WriterStep, RestStep, vars,
         PeerGone, PeerStall, StallEnds, Accept, AuthTimeout, BadFirstFrame, Refuse,
         FirstFrame, LookupFails, LookupRaises, LookupFinds, Register, Greeted, GreetingFails,
         ReceiveDisconnect, Ping, BadFrame, Answer, SocketMessage, RestCreate,
         RestDelete, InsertFails, WriteFails, DeleteFails, Refresh, RefreshFails, Announce,
         SendReturns, FinishSend

(* Every step keeps ids not handed out yet without an author. *)
LEMMA FreeUnownedStep ==
    ASSUME TypeOK, SafetyInv, [Next]_vars
    PROVE  FreeUnowned'
<1> SUFFICES ASSUME NEW m \in Messages, row'[m] = "free"
             PROVE  author'[m] = NoUser
  BY DEF FreeUnowned
<1>1. ASSUME NEW w \in Writers, NEW n \in Messages, Insert(w, n)
      PROVE  author'[m] = NoUser
  BY <1>1 DEF Insert, TypeOK, SafetyInv, FreeUnowned
<1>2. ASSUME NEW w \in Writers, Commit(w) \/ CommitFails(w) \/ CommitDelete(w)
      PROVE  author'[m] = NoUser
  BY <1>2 DEF Commit, CommitFails, CommitDelete, TypeOK, SafetyInv, FreeUnowned
<1>3. ASSUME NEW u \in Users, DeleteAccount(u)
      PROVE  author'[m] = NoUser
  BY <1>3 DEF DeleteAccount, TypeOK, SafetyInv, FreeUnowned
<1>4. CASE UNCHANGED <<row, author>>
  BY <1>4 DEF SafetyInv, FreeUnowned
<1> QED
  BY <1>1, <1>2, <1>3, <1>4
     DEF Next, SocketStep, Handshake, WriterStep, RestStep, vars,
         PeerGone, PeerStall, StallEnds, Accept, AuthTimeout, BadFirstFrame, Refuse,
         FirstFrame, LookupFails, LookupRaises, LookupFinds, Register, Greeted, GreetingFails,
         ReceiveDisconnect, Ping, BadFrame, Answer, SocketMessage, RestCreate,
         RestDelete, InsertFails, WriteFails, DeleteFails, Refresh, RefreshFails, Announce,
         SendReturns, FinishSend

-----------------------------------------------------------------------------
(* The invariant. *)

(* The empty server satisfies the invariant. *)
LEMMA InitEstablishes == Init => TypeOK /\ SafetyInv
<1> SUFFICES ASSUME Init PROVE TypeOK /\ SafetyInv
  OBVIOUS
<1>1. TypeOK
  BY IdleType DEF Init, TypeOK, RowStates, Phases, PeerStates
<1>2. \A w \in Writers : task[w] = Idle
  BY DEF Init
<1>3. \A w \in Writers : TaskInv(w)
  BY <1>2 DEF TaskInv, Idle
<1>4. ScoringApart
  BY <1>2 DEF ScoringApart, Idle
<1>5. ASSUME NEW s \in Sockets
      PROVE  PhaseInv(s) /\ FrameInv(s)
  BY DEF Init, PhaseInv, FrameInv
<1>6. RegistrySound
  BY DEF Init, RegistrySound
<1>7. RegistryComplete
  BY DEF Init, RegistryComplete, Live
<1>8. NoOrphanRows /\ FreeUnowned
  BY DEF Init, NoOrphanRows, FreeUnowned
<1> QED
  BY <1>1, <1>3, <1>4, <1>5, <1>6, <1>7, <1>8 DEF SafetyInv

(* Every step preserves the invariant. *)
LEMMA NextKeeps == TypeOK /\ SafetyInv /\ [Next]_vars => (TypeOK /\ SafetyInv)'
  BY TypeStep, TaskStep, ScoringApartStep, PhaseStep, FrameStep, RegistrySoundStep,
     RegistryCompleteStep, NoOrphanRowsStep, FreeUnownedStep DEF SafetyInv

(* The invariant is inductive, hence holds of every reachable state. *)
LEMMA Inductive == Spec => [](TypeOK /\ SafetyInv)
  BY InitEstablishes, NextKeeps, PTL DEF Spec

-----------------------------------------------------------------------------
(* The theorems. *)

(* Every variable keeps its type: in particular a write that reached its   *)
(* announcement knows a user and a message.                                *)
THEOREM TypeCorrect == Spec => []TypeOK
  BY Inductive, PTL

(* The whole inductive invariant holds: what each write in progress, each  *)
(* socket and each frame already sent says about the database.             *)
THEOREM InvariantHolds == Spec => []SafetyInv
  BY Inductive, PTL

(* A socket is registered under the user its handshake proved, and only    *)
(* after the handshake: send_to_user can never target an unauthenticated   *)
(* connection.                                                             *)
THEOREM RegistryIsSound == Spec => []RegistrySound
<1>1. SafetyInv => RegistrySound
  BY DEF SafetyInv
<1> QED
  BY <1>1, Inductive, PTL

(* No live socket falls out of its user's group, however sends fail and    *)
(* handlers end around it.                                                 *)
THEOREM RegistryIsComplete == Spec => []RegistryComplete
<1>1. SafetyInv => RegistryComplete
  BY DEF SafetyInv
<1> QED
  BY <1>1, Inductive, PTL

(* No frame about one user's message is ever put on another user's socket. *)
THEOREM MessagesStayPrivate == Spec => []FramesOnlyToAuthor
<1>1. SafetyInv => FramesOnlyToAuthor
  BY DEF SafetyInv, FrameInv, FramesOnlyToAuthor
<1> QED
  BY <1>1, Inductive, PTL

(* A message is announced after its commit, a deletion after its own.      *)
THEOREM AnnouncedIsCommitted == Spec => []AnnouncedAfterCommit
<1>1. SafetyInv => AnnouncedAfterCommit
  BY DEF SafetyInv, FrameInv, AnnouncedAfterCommit, ChatTypes, Settled
<1> QED
  BY <1>1, Inductive, PTL

(* No message outlives its author's account, whatever sockets are open.    *)
THEOREM AccountsLeaveNothing == Spec => []NoOrphanRows
<1>1. SafetyInv => NoOrphanRows
  BY DEF SafetyInv
<1> QED
  BY <1>1, Inductive, PTL

-----------------------------------------------------------------------------
(* Realtime implements ChatLog: its initial states are initial states of   *)
(* ChatLog under the mapping of Realtime!Log, and each of its steps is one  *)
(* of ChatLog or leaves ChatLog's variables alone.                          *)

(* The mapping, variable by variable. *)
StatusMap == [m \in Messages |-> Status(m)]
OwnerMap  == [m \in Messages |-> Owner(m)]
OwedMap   == [w \in Writers |-> IF Unsaid(w) THEN Announcement(w) ELSE Nothing]
JoinedMap == [s \in Sockets |-> JoinedAs(s)]

LogVars == <<users, StatusMap, OwnerMap, OwedMap, JoinedMap, wire>>

-----------------------------------------------------------------------------
(* The registry. *)

(* A handler leaves its loop with its client gone, or unregistered. *)
LEMMA HandlerLeaves ==
    ASSUME TypeOK, SafetyInv, [Next]_vars, NEW s \in Sockets,
           phase[s] \in Joined, phase'[s] \notin Joined
    PROVE  peer[s] = "gone" \/ s \notin registry'[ident[s]]
<1>0. ident[s] \in Users
  BY DEF SafetyInv, PhaseInv, Joined
<1>1. ASSUME NEW r \in Sockets, CloseHandler(r)
      PROVE  s \notin registry'[ident[s]]
  <2>1. phase' = [phase EXCEPT ![r] = "closed"]
    BY <1>1 DEF CloseHandler
  <2>2. r = s
    BY <2>1 DEF TypeOK
  <2> QED
    BY <1>0, <1>1, <2>2 DEF CloseHandler, Disconnect, TypeOK
<1>2. ASSUME NEW r \in Sockets, Refuse(r), phase[r] \in {"accepted", "lookup"}
      PROVE  FALSE
  BY <1>2 DEF Refuse, TypeOK, Joined
<1>3. ASSUME NEW r \in Sockets,
             \/ Accept(r) \/ LookupRaises(r) \/ LookupFinds(r) \/ Register(r)
             \/ Greeted(r) \/ \E u \in Users : FirstFrame(r, u)
      PROVE  FALSE
  BY <1>3
     DEF Accept, LookupRaises, LookupFinds, Register, Greeted, FirstFrame, TypeOK, Joined
<1>4. ASSUME NEW r \in Sockets, GreetingFails(r)
      PROVE  peer[s] = "gone"
  BY <1>4 DEF GreetingFails, TypeOK, Joined
<1>5. ASSUME NEW r \in Sockets, ReceiveDisconnect(r)
      PROVE  peer[s] = "gone"
  BY <1>5 DEF ReceiveDisconnect, CloseHandler, TypeOK, Joined
<1>6. ASSUME NEW r \in Sockets, AuthTimeout(r) \/ BadFirstFrame(r) \/ LookupFails(r)
      PROVE  FALSE
  BY <1>2, <1>6 DEF AuthTimeout, BadFirstFrame, LookupFails
<1>7. CASE UNCHANGED phase
  BY <1>7
<1> QED
  BY <1>1, <1>3, <1>4, <1>5, <1>6, <1>7
     DEF Next, SocketStep, Handshake, WriterStep, RestStep, vars,
         PeerGone, PeerStall, StallEnds, Ping, BadFrame, Answer, SocketMessage,
         RestCreate, RestDelete, DeleteAccount, Insert, InsertFails, WriteFails,
         DeleteFails, Commit, CommitFails, Refresh, RefreshFails, CommitDelete,
         Announce, SendReturns, FinishSend

(* Every step keeps the handlers of registered, reachable sockets there. *)
LEMMA RegisteredOpenStep ==
    ASSUME TypeOK, SafetyInv, RegisteredOpen, [Next]_vars
    PROVE  RegisteredOpen'
<1> SUFFICES ASSUME NEW u \in Users, NEW s \in registry'[u], peer'[s] # "gone"
             PROVE  phase'[s] \in Joined
  BY DEF RegisteredOpen, Joined
<1>1. s \in Sockets
  BY TypeStep DEF TypeOK
<1>2. peer[s] # "gone"
  BY <1>1, SocketsAge
<1>3. CASE s \in registry[u]
  <2>1. phase[s] \in Joined /\ ident[s] = u
    BY <1>2, <1>3 DEF RegisteredOpen, SafetyInv, RegistrySound, Joined
  <2> QED
    BY <1>1, <1>2, <2>1, HandlerLeaves
<1>4. CASE s \notin registry[u]
  BY <1>1, <1>4, RegistryMoves DEF Joined
<1> QED
  BY <1>3, <1>4

(* A fan-out to u reaches exactly those who are joined as u. *)
LEMMA TargetsAreJoined ==
    ASSUME TypeOK, SafetyInv, RegisteredOpen, NEW u \in Users, NEW s \in Sockets
    PROVE  s \in registry[u] /\ peer[s] # "gone" <=> JoinedAs(s) = u
<1>1. ASSUME s \in registry[u], peer[s] # "gone"
      PROVE  JoinedAs(s) = u
  BY <1>1 DEF JoinedAs, Live, RegisteredOpen, SafetyInv, RegistrySound
<1>2. ASSUME JoinedAs(s) = u
      PROVE  s \in registry[u] /\ peer[s] # "gone"
  BY <1>2, ConstantsDistinct DEF JoinedAs, Live, SafetyInv, RegistryComplete
<1> QED
  BY <1>1, <1>2

-----------------------------------------------------------------------------
(* What of the mapping an action can change. *)

LEMMA SameRows ==
    ASSUME UNCHANGED <<row, author>>
    PROVE  StatusMap' = StatusMap /\ OwnerMap' = OwnerMap
  BY DEF StatusMap, OwnerMap, Status, Owner

LEMMA SameTasks ==
    ASSUME UNCHANGED task
    PROVE  OwedMap' = OwedMap
  BY DEF OwedMap, Unsaid, Announcement

LEMMA SameSockets ==
    ASSUME UNCHANGED <<phase, ident, peer>>
    PROVE  JoinedMap' = JoinedMap
  BY DEF JoinedMap, JoinedAs, Live

(* A step of one writer changes what that writer owes. *)
LEMMA OneTask ==
    ASSUME TypeOK, NEW w \in Writers, NEW t, task' = [task EXCEPT ![w] = t]
    PROVE  /\ task'[w] = t
           /\ OwedMap' = [OwedMap EXCEPT ![w] = IF Unsaid(w)' THEN Announcement(w)' ELSE Nothing]
<1>1. \A v \in Writers : v # w => task'[v] = task[v]
  BY DEF TypeOK
<1>2. task'[w] = t
  BY DEF TypeOK
<1>3. \A v \in Writers : v # w => (Unsaid(v)' <=> Unsaid(v)) /\ Announcement(v)' = Announcement(v)
  BY <1>1 DEF Unsaid, Announcement
<1> QED
  BY <1>2, <1>3 DEF OwedMap

(* A writer that owes nothing before a step nor after it leaves what is    *)
(* owed alone.                                                             *)
LEMMA OwesNothing ==
    ASSUME TypeOK, NEW w \in Writers, NEW t, task' = [task EXCEPT ![w] = t],
           ~Unsaid(w), t.step \notin {"refreshing", "announcing"}
    PROVE  OwedMap' = OwedMap
<1>1. task'[w] = t /\ OwedMap' = [OwedMap EXCEPT ![w] = IF Unsaid(w)' THEN Announcement(w)' ELSE Nothing]
  BY OneTask
<1>2. ~Unsaid(w)'
  BY <1>1 DEF Unsaid
<1> QED
  BY <1>1, <1>2 DEF OwedMap

(* A socket that may only cease to be joined leaves, or nothing changes. *)
LEMMA OneLeaves ==
    ASSUME NEW s \in Sockets,
           \A r \in Sockets : r # s => JoinedAs(r)' = JoinedAs(r),
           JoinedAs(s)' \in {JoinedAs(s), NoUser},
           UNCHANGED <<users, StatusMap, OwnerMap, OwedMap, wire>>
    PROVE  Log!Leave(s) \/ UNCHANGED LogVars
<1>1. CASE JoinedAs(s)' = JoinedAs(s)
  BY <1>1 DEF LogVars, JoinedMap
<1>2. CASE JoinedAs(s)' # JoinedAs(s)
  <2>1. JoinedMap[s] # NoUser /\ JoinedMap' = [JoinedMap EXCEPT ![s] = NoUser]
    BY <1>2 DEF JoinedMap
  <2> QED
    BY <2>1 DEF Log!Leave, JoinedMap, StatusMap, OwnerMap, OwedMap
<1> QED
  BY <1>1, <1>2

-----------------------------------------------------------------------------
(* The steps of the client's end and of the handshake. *)

(* Clients that go away, stop reading or read again. *)
LEMMA PeerSteps ==
    ASSUME TypeOK, NEW s \in Sockets, PeerGone(s) \/ PeerStall(s) \/ StallEnds(s)
    PROVE  Log!Leave(s) \/ UNCHANGED LogVars
<1>1. UNCHANGED <<users, row, author, phase, ident, task, wire>>
  BY DEF PeerGone, PeerStall, StallEnds
<1>2. \A r \in Sockets : r # s => peer'[r] = peer[r]
  BY DEF PeerGone, PeerStall, StallEnds, TypeOK
<1>3. peer[s] # "gone"
  BY DEF PeerGone, PeerStall, StallEnds
<1>4. \A r \in Sockets : r # s => JoinedAs(r)' = JoinedAs(r)
  BY <1>1, <1>2 DEF JoinedAs, Live
<1>5. JoinedAs(s)' \in {JoinedAs(s), NoUser}
  BY <1>1, <1>3 DEF JoinedAs, Live
<1>6. UNCHANGED <<users, StatusMap, OwnerMap, OwedMap, wire>>
  BY <1>1, SameRows, SameTasks
<1> QED
  BY <1>4, <1>5, <1>6, OneLeaves

(* The handshake up to its last step, and its end, change nobody's joining. *)
LEMMA HandshakeSilent ==
    ASSUME TypeOK, NEW s \in Sockets,
           \/ Accept(s) \/ (\E u \in Users : FirstFrame(s, u))
           \/ LookupRaises(s) \/ LookupFinds(s) \/ Greeted(s) \/ GreetingFails(s)
    PROVE  UNCHANGED LogVars
<1> USE DEF Accept, FirstFrame, LookupRaises, LookupFinds, Greeted, GreetingFails
<1>1. UNCHANGED <<users, row, author, peer, task, wire>>
  OBVIOUS
<1>2. \A r \in Sockets : r # s => phase'[r] = phase[r] /\ ident'[r] = ident[r]
  BY DEF TypeOK
<1>3. JoinedAs(s)' = JoinedAs(s)
  BY <1>1 DEF TypeOK, JoinedAs, Live
<1>4. \A r \in Sockets : r # s => JoinedAs(r)' = JoinedAs(r)
  BY <1>1, <1>2 DEF JoinedAs, Live
<1>5. JoinedMap' = JoinedMap
  BY <1>3, <1>4 DEF JoinedMap
<1> QED
  BY <1>1, <1>5, SameRows, SameTasks DEF LogVars

(* What is put on the wire of one socket whose joining does not change. *)
LEMMA OneTold ==
    ASSUME TypeOK, NEW s \in Sockets, NEW type \in {"pong", "error"},
           SendTo({s}, [type |-> type, user |-> NoUser, msg |-> NoMessage, cid |-> NoSocket]),
           peer[s] # "gone" => JoinedAs(s) # NoUser \/ (type = "error" /\ wire[s] = <<>>),
           UNCHANGED <<users, StatusMap, OwnerMap, OwedMap, JoinedMap>>
    PROVE  Log!Tell(s, type) \/ UNCHANGED LogVars
<1> DEFINE f == [type |-> type, user |-> NoUser, msg |-> NoMessage, cid |-> NoSocket]
<1>1. CASE peer[s] = "gone"
  <2>1. wire' = wire
    BY <1>1 DEF SendTo, TypeOK
  <2> QED
    BY <2>1 DEF LogVars
<1>2. CASE peer[s] # "gone"
  <2>1. wire' = [wire EXCEPT ![s] = Append(wire[s], f)]
    BY <1>2 DEF SendTo, TypeOK
  <2>2. JoinedMap[s] # NoUser \/ (type = "error" /\ wire[s] = <<>>)
    BY <1>2 DEF JoinedMap
  <2> QED
    BY <2>1, <2>2 DEF Log!Tell, Log!Frame, JoinedMap, StatusMap, OwnerMap, OwedMap
<1> QED
  BY <1>1, <1>2

(* A refusal is one error, to a socket told nothing so far. *)
LEMMA Refusals ==
    ASSUME TypeOK, SafetyInv, NEW s \in Sockets,
           AuthTimeout(s) \/ BadFirstFrame(s) \/ LookupFails(s)
    PROVE  Log!Tell(s, "error") \/ UNCHANGED LogVars
<1>1. Refuse(s) /\ phase[s] \in {"accepted", "lookup"}
  BY DEF AuthTimeout, BadFirstFrame, LookupFails
<1>2. wire[s] = <<>>
  BY <1>1 DEF SafetyInv, PhaseInv
<1>3. \A r \in Sockets : JoinedAs(r)' = JoinedAs(r)
  BY <1>1 DEF Refuse, JoinedAs, Live, TypeOK
<1>4. JoinedMap' = JoinedMap
  BY <1>3 DEF JoinedMap
<1>5. UNCHANGED <<users, StatusMap, OwnerMap, OwedMap>>
  BY <1>1, SameRows, SameTasks DEF Refuse
<1> QED
  BY <1>1, <1>2, <1>4, <1>5, OneTold DEF Refuse, ErrorFrame

(* The registration of a socket whose client is there is its joining. *)
LEMMA Joins ==
    ASSUME TypeOK, SafetyInv, NEW s \in Sockets, Register(s)
    PROVE  Log!Join(s, ident[s]) \/ UNCHANGED LogVars
<1> DEFINE u == ident[s]
<1>1. /\ phase[s] = "found" /\ SendTo({s}, AuthOkFrame(u))
      /\ phase' = [phase EXCEPT ![s] = "greeting"]
      /\ UNCHANGED <<users, row, author, ident, peer, task>>
  BY DEF Register
<1>2. wire[s] = <<>>
  BY <1>1 DEF SafetyInv, PhaseInv
<1>3. \A r \in Sockets : r # s => JoinedAs(r)' = JoinedAs(r)
  BY <1>1 DEF JoinedAs, Live, TypeOK
<1>4. UNCHANGED <<StatusMap, OwnerMap, OwedMap>>
  BY <1>1, SameRows, SameTasks
<1>5. JoinedAs(s) = NoUser
  BY <1>1 DEF JoinedAs, Live
<1>6. CASE peer[s] = "gone"
  <2>1. JoinedAs(s)' = NoUser
    BY <1>1, <1>6 DEF JoinedAs, Live
  <2>2. JoinedMap' = JoinedMap
    BY <1>3, <1>5, <2>1 DEF JoinedMap
  <2>3. wire' = wire
    BY <1>1, <1>6 DEF SendTo, TypeOK
  <2> QED
    BY <1>1, <1>4, <2>2, <2>3 DEF LogVars
<1>7. CASE peer[s] # "gone"
  <2>1. JoinedAs(s)' = u
    BY <1>1, <1>7 DEF JoinedAs, Live, TypeOK
  <2>2. JoinedMap' = [JoinedMap EXCEPT ![s] = u] /\ JoinedMap[s] = NoUser
    BY <1>3, <1>5, <2>1 DEF JoinedMap
  <2>3. wire' = [wire EXCEPT ![s] = <<AuthOkFrame(u)>>]
    <3>1. wire' = [wire EXCEPT ![s] = Append(wire[s], AuthOkFrame(u))]
      BY <1>1, <1>7 DEF SendTo, TypeOK
    <3>2. Append(<<>>, AuthOkFrame(u)) = <<AuthOkFrame(u)>>
      OBVIOUS
    <3> QED
      BY <1>2, <3>1, <3>2
  <2> QED
    BY <1>1, <1>2, <1>4, <2>2, <2>3
       DEF Log!Join, Log!Frame, AuthOkFrame, JoinedMap, StatusMap, OwnerMap, OwedMap
<1> QED
  BY <1>6, <1>7

(* A disconnection that is noticed changes nobody's joining any more. *)
LEMMA Disconnections ==
    ASSUME TypeOK, NEW s \in Sockets, ReceiveDisconnect(s)
    PROVE  UNCHANGED LogVars
<1>1. /\ phase' = [phase EXCEPT ![s] = "closed"] /\ peer[s] = "gone"
      /\ UNCHANGED <<users, row, author, ident, peer, task, wire>>
  BY DEF ReceiveDisconnect, CloseHandler
<1>2. \A r \in Sockets : JoinedAs(r)' = JoinedAs(r)
  BY <1>1 DEF JoinedAs, Live, TypeOK
<1> QED
  BY <1>1, <1>2, SameRows, SameTasks DEF LogVars, JoinedMap

(* Pings and junk are answered on the socket they came from. *)
LEMMA Answers ==
    ASSUME TypeOK, SafetyInv, NEW s \in Sockets, Ping(s) \/ BadFrame(s)
    PROVE  (\E type \in {"pong", "error"} : Log!Tell(s, type)) \/ UNCHANGED LogVars
<1>1. PICK type \in {"pong", "error"} :
         Answer(s, [type |-> type, user |-> NoUser, msg |-> NoMessage, cid |-> NoSocket])
  BY DEF Ping, BadFrame, PongFrame, ErrorFrame
<1> DEFINE f == [type |-> type, user |-> NoUser, msg |-> NoMessage, cid |-> NoSocket]
<1>2. /\ phase[s] = "open" /\ SendTo({s}, f)
      /\ phase' = phase \/ (peer[s] = "gone" /\ phase' = [phase EXCEPT ![s] = "closed"])
      /\ UNCHANGED <<users, row, author, ident, peer, task>>
  BY <1>1 DEF Answer, Receiving, CloseHandler
<1>3. \A r \in Sockets : JoinedAs(r)' = JoinedAs(r)
  BY <1>2 DEF JoinedAs, Live, TypeOK
<1>4. UNCHANGED <<StatusMap, OwnerMap, OwedMap, JoinedMap>>
  BY <1>2, <1>3, SameRows, SameTasks DEF JoinedMap
<1>5. peer[s] # "gone" => JoinedAs(s) # NoUser
  BY <1>2, ConstantsDistinct DEF JoinedAs, Live, SafetyInv, PhaseInv
<1> QED
  BY <1>2, <1>4, <1>5, OneTold

-----------------------------------------------------------------------------
(* The steps of the writers. *)

(* What a client or a request asks for is owed by nobody yet. *)
LEMMA Asked ==
    ASSUME TypeOK, NEW w \in Writers,
           \/ w \in Sockets /\ SocketMessage(w)
           \/ w \in Requests /\ \E u \in Users : RestStep(w, u)
    PROVE  UNCHANGED LogVars
<1>1. /\ task[w] = Idle
      /\ UNCHANGED <<users, row, author, phase, ident, peer, wire>>
  BY DEF SocketMessage, Receiving, RestStep, RestCreate, RestDelete
<1>2. ~Unsaid(w)
  BY <1>1 DEF Unsaid, Idle
<1>3. ASSUME \E u : task' = [task EXCEPT ![w] = [Idle EXCEPT !.step = "inserting",
                                                         !.kind = "create", !.user = u]]
      PROVE  OwedMap' = OwedMap
  <2>1. PICK u : task' = [task EXCEPT ![w] = [Idle EXCEPT !.step = "inserting",
                                                        !.kind = "create", !.user = u]]
    BY <1>3
  <2>2. [Idle EXCEPT !.step = "inserting", !.kind = "create", !.user = u].step = "inserting"
    BY DEF Idle
  <2> QED
    BY <1>2, <2>1, <2>2, OwesNothing
<1>4. ASSUME \E u, m : task' = [task EXCEPT ![w] = [Idle EXCEPT !.step = "deleting",
                                       !.kind = "delete", !.user = u, !.msg = m]]
      PROVE  OwedMap' = OwedMap
  <2>1. PICK u, m : task' = [task EXCEPT ![w] = [Idle EXCEPT !.step = "deleting",
                                       !.kind = "delete", !.user = u, !.msg = m]]
    BY <1>4
  <2>2. [Idle EXCEPT !.step = "deleting", !.kind = "delete", !.user = u, !.msg = m].step
           = "deleting"
    BY DEF Idle
  <2> QED
    BY <1>2, <2>1, <2>2, OwesNothing
<1>5. OwedMap' = OwedMap
  BY <1>3, <1>4 DEF SocketMessage, RestStep, RestCreate, RestDelete
<1> QED
  BY <1>1, <1>5, SameRows, SameSockets DEF LogVars

(* An insert that is not committed is not there. *)
LEMMA Inserts ==
    ASSUME TypeOK, SafetyInv, NEW w \in Writers, NEW m \in Messages, Insert(w, m)
    PROVE  UNCHANGED LogVars
<1>1. /\ task[w].step = "inserting" /\ row[m] = "free"
      /\ row' = [row EXCEPT ![m] = "pending"]
      /\ author' = [author EXCEPT ![m] = task[w].user]
      /\ task' = [task EXCEPT ![w] = [task[w] EXCEPT !.step = "scoring", !.msg = m]]
      /\ UNCHANGED <<users, phase, ident, peer, wire>>
  BY DEF Insert
<1>2. \A n \in Messages : Status(n)' = Status(n) /\ Owner(n)' = Owner(n)
  BY <1>1 DEF Status, Owner, Settled, TypeOK
<1>3. [task[w] EXCEPT !.step = "scoring", !.msg = m].step = "scoring"
  BY DEF TypeOK, Task
<1>4. ~Unsaid(w)
  BY <1>1 DEF Unsaid
<1>5. OwedMap' = OwedMap
  BY <1>1, <1>3, <1>4, OwesNothing
<1> QED
  BY <1>1, <1>2, <1>5, SameSockets DEF LogVars, StatusMap, OwnerMap

(* The commit stores the message, in the name its announcement will bear. *)
LEMMA Commits ==
    ASSUME TypeOK, SafetyInv, NEW w \in Writers, Commit(w)
    PROVE  Log!Store(w, task[w].user, task[w].msg)
<1> DEFINE u == task[w].user
           m == task[w].msg
<1>1. /\ task[w].step = "scoring"
      /\ row' = [row EXCEPT ![m] = "stored"]
      /\ task' = [task EXCEPT ![w] = [task[w] EXCEPT !.step = "refreshing"]]
      /\ UNCHANGED <<users, author, phase, ident, peer, wire>>
  BY DEF Commit
<1>2. task[w].kind = "create" /\ m \in Messages /\ row[m] = "pending" /\ author[m] = u
  BY <1>1 DEF SafetyInv, TaskInv
<1>3. u \in users
  BY <1>2 DEF SafetyInv, NoOrphanRows
<1>4. StatusMap[m] = "absent" /\ StatusMap' = [StatusMap EXCEPT ![m] = "stored"]
  BY <1>1, <1>2 DEF StatusMap, Status, Settled, TypeOK
<1>5. OwnerMap' = [OwnerMap EXCEPT ![m] = u]
  BY <1>1, <1>2 DEF OwnerMap, Owner, Settled, TypeOK
<1>6. OwedMap[w] = Nothing
  BY <1>1 DEF OwedMap, Unsaid
<1>7. task'[w] = [task[w] EXCEPT !.step = "refreshing"]
  BY <1>1, OneTask
<1>8. task'[w].step = "refreshing" /\ task'[w].kind = "create"
      /\ task'[w].user = u /\ task'[w].msg = m
  BY <1>2, <1>7 DEF TypeOK, Task
<1>9. Unsaid(w)' /\ Announcement(w)' = MessageFrame(u, m, IF w \in Sockets THEN w ELSE NoSocket)
  BY <1>8 DEF Unsaid, Announcement
<1>10. OwedMap' = [OwedMap EXCEPT ![w] = MessageFrame(u, m, IF w \in Sockets THEN w ELSE NoSocket)]
  BY <1>1, <1>9, OneTask
<1> QED
  BY <1>1, <1>3, <1>4, <1>5, <1>6, <1>10, SameSockets
     DEF Log!Store, Log!Frame, Log!Nothing, Nothing, MessageFrame,
         StatusMap, OwnerMap, OwedMap, JoinedMap

(* Reading the row back leaves the announcement as it is. *)
LEMMA Refreshes ==
    ASSUME TypeOK, NEW w \in Writers, Refresh(w)
    PROVE  UNCHANGED LogVars
<1>1. /\ task[w].step = "refreshing"
      /\ task' = [task EXCEPT ![w] = [task[w] EXCEPT !.step = "announcing"]]
      /\ UNCHANGED <<users, row, author, phase, ident, peer, wire>>
  BY DEF Refresh
<1>2. task'[w] = [task[w] EXCEPT !.step = "announcing"]
  BY <1>1, OneTask
<1>3. /\ task'[w].step = "announcing" /\ task'[w].kind = task[w].kind
      /\ task'[w].user = task[w].user /\ task'[w].msg = task[w].msg
  BY <1>2 DEF TypeOK, Task
<1>4. Unsaid(w) /\ Unsaid(w)' /\ Announcement(w)' = Announcement(w)
  BY <1>1, <1>3 DEF Unsaid, Announcement
<1>5. OwedMap' = OwedMap
  BY <1>1, <1>4, OneTask DEF OwedMap
<1> QED
  BY <1>1, <1>5, SameRows, SameSockets DEF LogVars

(* The end of a write that raises: a socket's handler ends with it. *)
LEMMA HandlerEnds ==
    ASSUME TypeOK, NEW w \in Writers, WriteFails(w) \/ CommitFails(w)
    PROVE  /\ UNCHANGED <<users, wire>>
           /\ \A s \in Sockets : JoinedAs(s)' = IF s = w THEN NoUser ELSE JoinedAs(s)
           /\ task' = [task EXCEPT ![w] = Idle]
<1>1. /\ UNCHANGED <<users, ident, peer, wire>>
      /\ IF w \in Sockets THEN phase' = [phase EXCEPT ![w] = "closed"] ELSE phase' = phase
      /\ task' = [task EXCEPT ![w] = Idle]
  BY DEF WriteFails, CommitFails, CloseHandler
<1> QED
  BY <1>1 DEF JoinedAs, Live, TypeOK

(* A write that raises before it is committed leaves nothing but a handler's *)
(* end.                                                                    *)
LEMMA WritesFail ==
    ASSUME TypeOK, SafetyInv, NEW w \in Writers,
           InsertFails(w) \/ CommitFails(w) \/ DeleteFails(w)
    PROVE  (\E s \in Sockets : Log!Leave(s)) \/ UNCHANGED LogVars
<1>1. /\ task[w].step \in {"inserting", "scoring", "deleting"}
      /\ WriteFails(w) \/ CommitFails(w)
  BY DEF InsertFails, CommitFails, DeleteFails
<1>2. OwedMap' = OwedMap
  BY <1>1, HandlerEnds, OwesNothing DEF Unsaid, Idle
<1>3. UNCHANGED <<StatusMap, OwnerMap>>
  <2>1. CASE WriteFails(w)
    BY <2>1, SameRows DEF WriteFails
  <2>2. CASE CommitFails(w)
    <3>1. row[task[w].msg] = "pending"
      BY <2>2 DEF CommitFails, SafetyInv, TaskInv
    <3>2. \A m \in Messages : Status(m)' = Status(m) /\ Owner(m)' = Owner(m)
      BY <2>2, <3>1 DEF CommitFails, Status, Owner, Settled, TypeOK
    <3> QED
      BY <3>2 DEF StatusMap, OwnerMap
  <2> QED
    BY <1>1, <2>1, <2>2
<1>4. UNCHANGED <<users, StatusMap, OwnerMap, OwedMap, wire>>
  BY <1>1, <1>2, <1>3, HandlerEnds
<1>5. CASE w \in Sockets
  BY <1>1, <1>4, <1>5, HandlerEnds, OneLeaves
<1>6. CASE w \notin Sockets
  <2>1. JoinedMap' = JoinedMap
    BY <1>1, <1>6, HandlerEnds DEF JoinedMap
  <2> QED
    BY <1>4, <2>1 DEF LogVars
<1> QED
  BY <1>5, <1>6

(* What a refresh that raises leaves stored is not announced. *)
LEMMA RefreshesFail ==
    ASSUME TypeOK, SafetyInv, NEW w \in Writers, RefreshFails(w)
    PROVE  Log!Forget(w)
<1>1. task[w].step = "refreshing" /\ WriteFails(w)
  BY DEF RefreshFails
<1>2. task[w].kind = "create"
  BY <1>1 DEF SafetyInv, TaskInv
<1>3. OwedMap[w].type = "message"
  BY <1>1, <1>2 DEF OwedMap, Unsaid, Announcement, MessageFrame
<1>4. ~Unsaid(w)'
  BY <1>1, HandlerEnds, OneTask DEF Unsaid, Idle
<1>5. OwedMap' = [OwedMap EXCEPT ![w] = Nothing]
  BY <1>1, <1>4, HandlerEnds, OneTask
<1>6. JoinedMap' = [s \in Sockets |-> IF s = w THEN NoUser ELSE JoinedMap[s]]
  BY <1>1, HandlerEnds DEF JoinedMap
<1>7. UNCHANGED <<users, StatusMap, OwnerMap, wire>>
  BY <1>1, HandlerEnds, SameRows DEF WriteFails
<1> QED
  BY <1>3, <1>5, <1>6, <1>7
     DEF Log!Forget, Log!Frame, Log!Nothing, Nothing, StatusMap, OwnerMap, OwedMap, JoinedMap

(* The commit of a deletion removes the message, once more if need be. *)
LEMMA Deletes ==
    ASSUME TypeOK, SafetyInv, NEW w \in Writers, CommitDelete(w)
    PROVE  Log!Remove(w, task[w].user, task[w].msg)
<1> DEFINE u == task[w].user
           m == task[w].msg
<1>1. /\ task[w].step = "deleting"
      /\ row' = [row EXCEPT ![m] = "gone"]
      /\ task' = [task EXCEPT ![w] = [task[w] EXCEPT !.step = "announcing"]]
      /\ UNCHANGED <<users, author, phase, ident, peer, wire>>
  BY DEF CommitDelete
<1>2. task[w].kind = "delete" /\ m \in Messages /\ row[m] \in Settled /\ author[m] = u
  BY <1>1 DEF SafetyInv, TaskInv
<1>3. StatusMap' = [StatusMap EXCEPT ![m] = "gone"]
  BY <1>1, <1>2 DEF StatusMap, Status, Settled, TypeOK
<1>4. OwnerMap[m] = u /\ OwnerMap' = OwnerMap
  BY <1>1, <1>2 DEF OwnerMap, Owner, Settled, TypeOK
<1>5. OwedMap[w] = Nothing
  BY <1>1 DEF OwedMap, Unsaid
<1>6. task'[w] = [task[w] EXCEPT !.step = "announcing"]
  BY <1>1, OneTask
<1>7. task'[w].step = "announcing" /\ task'[w].kind = "delete"
      /\ task'[w].user = u /\ task'[w].msg = m
  BY <1>2, <1>6 DEF TypeOK, Task
<1>8. OwedMap' = [OwedMap EXCEPT ![w] = MessageDeletedFrame(u, m)]
  BY <1>1, <1>7, OneTask DEF Unsaid, Announcement
<1> QED
  BY <1>1, <1>3, <1>4, <1>5, <1>8, SameSockets
     DEF Log!Remove, Log!Frame, Log!Nothing, Nothing, MessageDeletedFrame,
         StatusMap, OwnerMap, OwedMap, JoinedMap

(* The start of a fan-out tells everyone who is joined, at once. *)
LEMMA Announces ==
    ASSUME TypeOK, SafetyInv, RegisteredOpen, NEW w \in Writers, Announce(w)
    PROVE  Log!Announce(w)
<1> DEFINE u == task[w].user
           f == Announcement(w)
<1>1. /\ task[w].step = "announcing" /\ SendTo(registry[u], f)
      /\ UNCHANGED <<users, row, author, phase, ident, peer>>
  BY DEF Announce
<1>2. u \in Users
  BY <1>1 DEF SafetyInv, TaskInv
<1>3. OwedMap[w] = f /\ OwedMap[w].user = u /\ OwedMap[w] # Nothing
  BY <1>1 DEF OwedMap, Unsaid, Announcement, MessageFrame, MessageDeletedFrame, Nothing
<1>4. wire' = [s \in Sockets |-> IF JoinedMap[s] = OwedMap[w].user
                                 THEN Append(wire[s], OwedMap[w]) ELSE wire[s]]
  <2>1. wire' = [s \in Sockets |-> IF s \in registry[u] /\ peer[s] # "gone"
                                   THEN Append(wire[s], f) ELSE wire[s]]
    BY <1>1 DEF SendTo
  <2>2. \A s \in Sockets : s \in registry[u] /\ peer[s] # "gone" <=> JoinedMap[s] = u
    BY <1>2, TargetsAreJoined DEF JoinedMap
  <2> QED
    BY <1>3, <2>1, <2>2
<1>5. PICK t : task' = [task EXCEPT ![w] = t] /\ t.step \in {"idle", "sending"}
  <2> DEFINE ended == Ended(registry[u])
             sending == [task[w] EXCEPT !.step = "sending",
                                        !.waiting = registry[u] \ ended,
                                        !.failed = ended]
  <2>1. sending.step = "sending"
    BY DEF TypeOK, Task
  <2>2. Idle.step = "idle"
    BY DEF Idle
  <2>3. task' = [task EXCEPT ![w] = Idle] \/ task' = [task EXCEPT ![w] = sending]
    BY DEF Announce
  <2> HIDE DEF sending
  <2> QED
    BY <2>1, <2>2, <2>3
<1>6. OwedMap' = [OwedMap EXCEPT ![w] = Nothing]
  <2>1. ~Unsaid(w)'
    BY <1>5, OneTask DEF Unsaid
  <2> QED
    BY <1>5, <2>1, OneTask
<1> QED
  BY <1>1, <1>3, <1>4, <1>6, SameRows, SameSockets
     DEF Log!Announce, Log!Frame, Log!Nothing, Nothing, StatusMap, OwnerMap, OwedMap, JoinedMap

(* What is left of a fan-out is nobody's business. *)
LEMMA FanOutEnds ==
    ASSUME TypeOK, SafetyInv, NEW w \in Writers,
           FinishSend(w) \/ \E s \in Sockets : SendReturns(w, s)
    PROVE  UNCHANGED LogVars
<1>1. UNCHANGED <<users, row, author, phase, ident, peer, wire>>
  BY DEF FinishSend, SendReturns
<1>2. task[w].step = "sending" /\ task[w] \in Task
  BY DEF FinishSend, SendReturns, SafetyInv, TaskInv, TypeOK
<1>3. PICK t : task' = [task EXCEPT ![w] = t] /\ t.step \in {"idle", "sending"}
  <2>1. CASE FinishSend(w)
    BY <2>1 DEF FinishSend, Idle
  <2>2. CASE \E s \in Sockets : SendReturns(w, s)
    <3>1. PICK s \in Sockets : SendReturns(w, s)
      BY <2>2
    <3> DEFINE done == [task[w] EXCEPT !.waiting = @ \ {s}]
               lost == [task[w] EXCEPT !.waiting = @ \ {s}, !.failed = @ \cup {s}]
    <3>2. done.step = "sending" /\ lost.step = "sending"
      BY <1>2 DEF Task
    <3>3. task' = [task EXCEPT ![w] = done] \/ task' = [task EXCEPT ![w] = lost]
      BY <3>1 DEF SendReturns
    <3> HIDE DEF done, lost
    <3> QED
      BY <3>2, <3>3
  <2> QED
    BY <2>1, <2>2
<1>4. OwedMap' = OwedMap
  BY <1>2, <1>3, OwesNothing DEF Unsaid
<1> QED
  BY <1>1, <1>4, SameRows, SameSockets DEF LogVars

(* The cascade of an account's deletion takes what that account owns. *)
LEMMA AccountsGo ==
    ASSUME TypeOK, SafetyInv, NEW u \in Users, DeleteAccount(u)
    PROVE  Log!DeleteAccount(u)
<1>1. /\ u \in users /\ users' = users \ {u}
      /\ \A m \in Messages : author[m] = u => row[m] # "pending"
      /\ row' = [m \in Messages |-> IF author[m] = u THEN "gone" ELSE row[m]]
      /\ UNCHANGED <<author, phase, ident, peer, task, wire>>
  BY DEF DeleteAccount
<1>2. \A m \in Messages : author[m] = u => row[m] \in Settled
  BY <1>1, ConstantsDistinct DEF SafetyInv, FreeUnowned, TypeOK, RowStates, Settled
<1>3. \A m \in Messages : Owner(m) = u <=> author[m] = u
  BY <1>2, ConstantsDistinct DEF Owner
<1>4. \A m \in Messages : Status(m)' = IF Owner(m) = u THEN "gone" ELSE Status(m)
  BY <1>1, <1>3 DEF Status, Settled
<1>5. \A m \in Messages : Owner(m)' = Owner(m)
  BY <1>1, <1>2 DEF Owner, Settled
<1>6. StatusMap' = [m \in Messages |-> IF OwnerMap[m] = u THEN "gone" ELSE StatusMap[m]]
  BY <1>4 DEF StatusMap, OwnerMap
<1>7. OwnerMap' = OwnerMap
  BY <1>5 DEF OwnerMap
<1> QED
  BY <1>1, <1>6, <1>7, SameTasks, SameSockets
     DEF Log!DeleteAccount, StatusMap, OwnerMap, OwedMap, JoinedMap

-----------------------------------------------------------------------------
(* The refinement. *)

(* The empty server is the empty log. *)
LEMMA InitRefines == Init => Log!Init /\ RegisteredOpen
<1> SUFFICES ASSUME Init PROVE Log!Init /\ RegisteredOpen
  OBVIOUS
<1>1. /\ StatusMap = [m \in Messages |-> "absent"]
      /\ OwnerMap = [m \in Messages |-> NoUser]
  BY DEF Init, StatusMap, Status, OwnerMap, Owner, Settled
<1>2. OwedMap = [w \in Writers |-> Nothing]
  BY DEF Init, OwedMap, Unsaid, Idle
<1>3. JoinedMap = [s \in Sockets |-> NoUser]
  BY DEF Init, JoinedMap, JoinedAs, Live
<1>4. RegisteredOpen
  BY DEF Init, RegisteredOpen
<1> QED
  BY <1>1, <1>2, <1>3, <1>4
     DEF Init, Log!Init, Log!Frame, Log!Nothing, Nothing, StatusMap, OwnerMap, OwedMap, JoinedMap

(* Every step is a step of the log, or none. *)
LEMMA StepMaps ==
    ASSUME TypeOK, SafetyInv, RegisteredOpen, [Next]_vars
    PROVE  Log!Next \/ UNCHANGED LogVars
<1>1. ASSUME NEW s \in Sockets, SocketStep(s)
      PROVE  Log!Next \/ UNCHANGED LogVars
  <2>1. CASE PeerGone(s) \/ PeerStall(s) \/ StallEnds(s)
    BY <2>1, PeerSteps DEF Log!Next, Log!SocketStep
  <2>2. CASE \/ Accept(s) \/ (\E u \in Users : FirstFrame(s, u))
             \/ LookupRaises(s) \/ LookupFinds(s) \/ Greeted(s) \/ GreetingFails(s)
    BY <2>2, HandshakeSilent
  <2>3. CASE AuthTimeout(s) \/ BadFirstFrame(s) \/ LookupFails(s)
    BY <2>3, Refusals DEF Log!Next, Log!SocketStep
  <2>4. CASE Register(s)
    <3>1. ident[s] \in Users
      BY <2>4 DEF Register, SafetyInv, PhaseInv
    <3> QED
      BY <2>4, <3>1, Joins DEF Log!Next, Log!SocketStep
  <2>5. CASE ReceiveDisconnect(s)
    BY <2>5, Disconnections
  <2>6. CASE Ping(s) \/ BadFrame(s)
    BY <2>6, Answers DEF Log!Next, Log!SocketStep
  <2>7. CASE SocketMessage(s)
    BY <2>7, Asked DEF Writers
  <2> QED
    BY <1>1, <2>1, <2>2, <2>3, <2>4, <2>5, <2>6, <2>7 DEF SocketStep, Handshake
<1>2. ASSUME NEW w \in Writers, WriterStep(w)
      PROVE  Log!Next \/ UNCHANGED LogVars
  <2>1. CASE \E m \in Messages : Insert(w, m)
    BY <2>1, Inserts
  <2>2. CASE InsertFails(w) \/ CommitFails(w) \/ DeleteFails(w)
    BY <2>2, WritesFail DEF Log!Next, Log!SocketStep
  <2>3. CASE Commit(w) \/ CommitDelete(w)
    <3>1. task[w].user \in Users /\ task[w].msg \in Messages
      BY <2>3 DEF Commit, CommitDelete, SafetyInv, TaskInv
    <3>2. Log!WriterStep(w)
      BY <2>3, <3>1, Commits, Deletes DEF Log!WriterStep
    <3> QED
      BY <3>2 DEF Log!Next
  <2>4. CASE Refresh(w)
    BY <2>4, Refreshes
  <2>5. CASE RefreshFails(w) \/ Announce(w)
    BY <2>5, RefreshesFail, Announces DEF Log!Next, Log!WriterStep
  <2>6. CASE FinishSend(w) \/ \E s \in Sockets : SendReturns(w, s)
    BY <2>6, FanOutEnds
  <2> QED
    BY <1>2, <2>1, <2>2, <2>3, <2>4, <2>5, <2>6 DEF WriterStep
<1>3. ASSUME NEW u \in Users, DeleteAccount(u)
      PROVE  Log!Next \/ UNCHANGED LogVars
  BY <1>3, AccountsGo DEF Log!Next
<1>4. ASSUME NEW u \in Users, NEW r \in Requests, RestStep(r, u)
      PROVE  Log!Next \/ UNCHANGED LogVars
  BY <1>4, Asked DEF Writers
<1>5. CASE UNCHANGED vars
  BY <1>5, SameRows, SameTasks, SameSockets DEF vars, LogVars
<1> QED
  BY <1>1, <1>2, <1>3, <1>4, <1>5 DEF Next

LEMMA StepRefines ==
    TypeOK /\ SafetyInv /\ RegisteredOpen /\ [Next]_vars => [Log!Next]_(Log!vars)
  BY StepMaps DEF Log!vars, LogVars, StatusMap, OwnerMap, OwedMap, JoinedMap

LEMMA RegisteredOpenHolds == Spec => []RegisteredOpen
<1>1. Init => RegisteredOpen
  BY InitRefines
<1>2. TypeOK /\ SafetyInv /\ RegisteredOpen /\ [Next]_vars => RegisteredOpen'
  BY RegisteredOpenStep
<1> QED
  BY <1>1, <1>2, Inductive, PTL DEF Spec

(* Realtime implements ChatLog: the registry, the handshake's phases, the  *)
(* awaits of a write and the sends that fail are invisible to the clients.  *)
(* A write is announced once, after its commit, to every live socket of its *)
(* user at one point of their common order and to no other socket, or its   *)
(* writer failed after the commit and it is not announced at all.          *)
THEOREM RealtimeIsChatLog == Spec => ImplementsChatLog
<1>1. Init => Log!Init
  BY InitRefines
<1>2. TypeOK /\ SafetyInv /\ RegisteredOpen /\ [Next]_vars => [Log!Next]_(Log!vars)
  BY StepRefines
<1> QED
  BY <1>1, <1>2, RegisteredOpenHolds, Inductive, PTL DEF Spec, ImplementsChatLog, Log!Spec
-----------------------------------------------------------------------------
(* What the log says of the wires. *)

(* A step that tells s nothing, or only what is between it and the server. *)
Quietly(s) ==
    \/ wire'[s] = wire[s]
    \/ \E f \in Frame : f.type \notin ChatTypes /\ wire'[s] = Append(wire[s], f)

(* A step that tells everybody joined as its user what w owes. *)
SpeaksFor(w) ==
    /\ Unsaid(w) /\ ~Unsaid(w)'
    /\ \A v \in Writers : v # w => OwedMap'[v] = OwedMap[v]
    /\ \A s \in Sockets :
          /\ JoinedAs(s)' = JoinedAs(s)
          /\ wire'[s] = IF JoinedAs(s) = task[w].user THEN Append(wire[s], Announcement(w))
                        ELSE wire[s]

(* A chat frame is told to everybody it concerns at once; who joins has    *)
(* been told none.                                                         *)
LEMMA ToldTogether ==
    ASSUME TypeOK, SafetyInv, Log!Next \/ UNCHANGED LogVars
    PROVE  \/ \E w \in Writers : SpeaksFor(w)
           \/ \A s \in Sockets : /\ Quietly(s)
                                 /\ \/ JoinedAs(s)' \in {JoinedAs(s), NoUser}
                                    \/ ChatAt(s)' = {}
<1> DEFINE Silence == \A s \in Sockets : /\ Quietly(s)
                                         /\ \/ JoinedAs(s)' \in {JoinedAs(s), NoUser}
                                            \/ ChatAt(s)' = {}
<1>1. \A s \in Sockets : JoinedMap[s] = JoinedAs(s) /\ JoinedMap'[s] = JoinedAs(s)'
  BY DEF JoinedMap
<1>2. ASSUME wire' = wire, \A s \in Sockets : JoinedMap'[s] \in {JoinedMap[s], NoUser}
      PROVE  Silence
  BY <1>1, <1>2 DEF Quietly
<1>3. ASSUME NEW s \in Sockets, NEW type \in {"pong", "error"}, Log!Tell(s, type)
      PROVE  Silence
  <2> DEFINE f == [type |-> type, user |-> NoUser, msg |-> NoMessage, cid |-> NoSocket]
  <2>1. wire' = [wire EXCEPT ![s] = Append(wire[s], f)] /\ JoinedMap' = JoinedMap
    BY <1>3 DEF Log!Tell, Log!Frame, JoinedMap
  <2>2. f \in Frame /\ f.type \notin ChatTypes
    BY DEF Frame, ChatTypes
  <2> QED
    BY <1>1, <2>1, <2>2 DEF Quietly, TypeOK
<1>4. ASSUME NEW s \in Sockets, NEW u \in Users, Log!Join(s, u)
      PROVE  Silence
  <2> DEFINE f == AuthOkFrame(u)
  <2>1. /\ wire' = [wire EXCEPT ![s] = <<f>>] /\ wire[s] = <<>>
        /\ JoinedMap' = [JoinedMap EXCEPT ![s] = u]
    BY <1>4 DEF Log!Join, Log!Frame, AuthOkFrame, JoinedMap
  <2>2. f \in Frame /\ f.type \notin ChatTypes
    BY FrameTypes DEF AuthOkFrame, ChatTypes
  <2> HIDE DEF f
  <2>3. wire'[s] = <<f>> /\ \A r \in Sockets : r # s => wire'[r] = wire[r]
    BY <2>1 DEF TypeOK
  <2>4. <<f>> = Append(<<>>, f) /\ DOMAIN <<f>> = {1} /\ <<f>>[1] = f
    OBVIOUS
  <2>5. Quietly(s) /\ ChatAt(s)' = {}
    BY <2>1, <2>2, <2>3, <2>4 DEF Quietly, ChatAt
  <2>6. \A r \in Sockets : r # s => Quietly(r) /\ JoinedAs(r)' = JoinedAs(r)
    BY <1>1, <2>1, <2>3 DEF Quietly, JoinedMap
  <2> QED
    BY <2>5, <2>6
<1>5. ASSUME NEW w \in Writers, Log!Announce(w)
      PROVE  SpeaksFor(w)
  <2>1. /\ OwedMap[w] # Nothing /\ UNCHANGED JoinedMap
        /\ wire' = [s \in Sockets |-> IF JoinedMap[s] = OwedMap[w].user
                                      THEN Append(wire[s], OwedMap[w]) ELSE wire[s]]
        /\ OwedMap' = [OwedMap EXCEPT ![w] = Nothing]
    BY <1>5 DEF Log!Announce, Log!Nothing, Log!Frame, Nothing, JoinedMap, OwedMap
  <2>2. Unsaid(w) /\ OwedMap[w] = Announcement(w) /\ Announcement(w).user = task[w].user
    BY <2>1 DEF OwedMap, Announcement, MessageFrame, MessageDeletedFrame
  <2>3. OwedMap'[w] = Nothing
    BY <2>1 DEF OwedMap
  <2>4. ~Unsaid(w)'
    BY <2>3 DEF OwedMap, Announcement, MessageFrame, MessageDeletedFrame, Nothing
  <2> QED
    BY <1>1, <2>1, <2>2, <2>4 DEF SpeaksFor, OwedMap
<1>6. ASSUME NEW s \in Sockets, Log!Leave(s)
      PROVE  Silence
  <2>1. wire' = wire /\ JoinedMap' = [JoinedMap EXCEPT ![s] = NoUser]
    BY <1>6 DEF Log!Leave, JoinedMap
  <2> QED
    BY <1>2, <2>1 DEF JoinedMap
<1>7. ASSUME NEW w \in Writers, Log!Forget(w)
      PROVE  Silence
  <2>1. wire' = wire /\ JoinedMap' = [s \in Sockets |-> IF s = w THEN NoUser ELSE JoinedMap[s]]
    BY <1>7 DEF Log!Forget, JoinedMap
  <2> QED
    BY <1>2, <2>1
<1>8. ASSUME NEW w \in Writers, NEW u \in Users, NEW m \in Messages,
             Log!Store(w, u, m) \/ Log!Remove(w, u, m)
      PROVE  Silence
  BY <1>2, <1>8 DEF Log!Store, Log!Remove, JoinedMap
<1>9. ASSUME NEW u \in Users, Log!DeleteAccount(u)
      PROVE  Silence
  BY <1>2, <1>9 DEF Log!DeleteAccount, JoinedMap
<1>10. ASSUME UNCHANGED LogVars
       PROVE  Silence
  BY <1>2, <1>10 DEF LogVars, JoinedMap
<1> HIDE DEF Silence
<1>11. (\E w \in Writers : SpeaksFor(w)) \/ Silence
  <2>1. ASSUME NEW w \in Writers, Log!WriterStep(w)
        PROVE  SpeaksFor(w) \/ Silence
    BY <1>5, <1>7, <1>8, <2>1 DEF Log!WriterStep
  <2>2. ASSUME NEW s \in Sockets, Log!SocketStep(s)
        PROVE  Silence
    BY <1>3, <1>4, <1>6, <2>2 DEF Log!SocketStep
  <2>3. CASE Log!Next
    BY <1>9, <2>1, <2>2, <2>3 DEF Log!Next
  <2> QED
    BY <1>10, <2>3
<1> QED
  BY <1>11 DEF Silence

-----------------------------------------------------------------------------
(* The tabs of one user agree. *)

Alike(s, t) ==
    \A i \in ChatAt(s), j \in ChatAt(t) :
       FromEnd(s, i) = FromEnd(t, j) => wire[s][i] = wire[t][j]

(* A chat frame goes to the end, and everything before it is one further   *)
(* from there.                                                             *)
LEMMA OneMoreChatFrame ==
    ASSUME TypeOK, NEW s \in Sockets, NEW f \in Frame, f.type \in ChatTypes,
           wire'[s] = Append(wire[s], f), NEW i \in ChatAt(s)'
    PROVE  \/ wire'[s][i] = f /\ FromEnd(s, i)' = 1
           \/ /\ i \in ChatAt(s) /\ wire'[s][i] = wire[s][i]
              /\ FromEnd(s, i) \in Nat \ {0}
              /\ FromEnd(s, i)' = FromEnd(s, i) + 1
<1> DEFINE n == Len(wire[s]) + 1
           After(k) == {j \in ChatAt(s) : j >= k}
<1>1. wire[s] \in Seq(Frame) /\ n \in Nat \ {0}
  BY DEF TypeOK
<1>2. /\ DOMAIN wire[s] = 1..(n - 1) /\ DOMAIN wire'[s] = 1..n
      /\ wire'[s][n] = f /\ \A k \in 1..(n - 1) : wire'[s][k] = wire[s][k]
  BY <1>1
<1> HIDE DEF n
<1>3. ChatAt(s)' = ChatAt(s) \cup {n} /\ ChatAt(s) \subseteq 1..(n - 1)
  BY <1>1, <1>2 DEF ChatAt
<1>4. {j \in ChatAt(s)' : j >= i} = After(i) \cup {n}
  BY <1>1, <1>3
<1>5. n \notin After(i) /\ IsFiniteSet(After(i))
  <2>1. 1 \in Int /\ n - 1 \in Int
    BY <1>1
  <2>2. IsFiniteSet(1..(n - 1))
    BY <2>1, FS_Interval
  <2>3. After(i) \subseteq 1..(n - 1)
    BY <1>3
  <2>4. n \notin After(i)
    BY <1>1, <2>3
  <2> QED
    BY <2>2, <2>3, <2>4, FS_Subset
<1>6. Cardinality(After(i) \cup {n}) = Cardinality(After(i)) + 1
  BY <1>5, FS_AddElement
<1>7. FromEnd(s, i)' = Cardinality(After(i)) + 1
  BY <1>4, <1>6 DEF FromEnd
<1>8. CASE i = n
  <2>1. After(i) = {}
    BY <1>1, <1>3, <1>8
  <2>2. Cardinality(After(i)) = 0
    BY <2>1, FS_EmptySet
  <2>3. FromEnd(s, i)' = 1
    BY <1>7, <2>2
  <2> QED
    BY <1>2, <1>8, <2>3
<1>9. CASE i \in ChatAt(s)
  <2>1. i \in After(i)
    BY <1>1, <1>3, <1>9
  <2>2. Cardinality(After(i)) \in Nat \ {0}
    BY <1>5, <2>1, FS_EmptySet, FS_CardinalityType
  <2> QED
    BY <1>2, <1>3, <1>9, <1>7, <2>2 DEF FromEnd
<1> QED
  BY <1>3, <1>8, <1>9

(* Anything else leaves the chat frames, and their places, alone. *)
LEMMA NoMoreChatFrames ==
    ASSUME TypeOK, NEW s \in Sockets, Quietly(s)
    PROVE  /\ ChatAt(s)' = ChatAt(s)
           /\ \A i \in ChatAt(s) : wire'[s][i] = wire[s][i] /\ FromEnd(s, i)' = FromEnd(s, i)
<1>1. wire[s] \in Seq(Frame)
  BY DEF TypeOK
<1>2. ChatAt(s)' = ChatAt(s) /\ \A i \in ChatAt(s) : wire'[s][i] = wire[s][i]
  <2>1. CASE wire'[s] = wire[s]
    BY <2>1 DEF ChatAt
  <2>2. ASSUME NEW f \in Frame, f.type \notin ChatTypes, wire'[s] = Append(wire[s], f)
        PROVE  ChatAt(s)' = ChatAt(s) /\ \A i \in ChatAt(s) : wire'[s][i] = wire[s][i]
    BY <1>1, <2>2 DEF ChatAt
  <2> QED
    BY <2>1, <2>2 DEF Quietly
<1> QED
  BY <1>2 DEF FromEnd

(* Every step keeps the tabs of one user alike. *)
LEMMA TabsAgreeStep ==
    ASSUME TypeOK, SafetyInv, SafetyInv', TabsAgree, Log!Next \/ UNCHANGED LogVars
    PROVE  TabsAgree'
<1> SUFFICES ASSUME NEW s \in Sockets, NEW t \in Sockets,
                    Live(s)', Live(t)', ident'[s] = ident'[t]
             PROVE  Alike(s, t)'
  BY DEF TabsAgree, Alike
<1>1. JoinedAs(s)' = JoinedAs(t)' /\ JoinedAs(s)' \in Users
  BY DEF JoinedAs, Live, SafetyInv, PhaseInv
<1>2. JoinedAs(s) = JoinedAs(t) /\ JoinedAs(s) \in Users => Alike(s, t)
  BY ConstantsDistinct DEF JoinedAs, TabsAgree, Alike
<1>3. ASSUME Quietly(s), Quietly(t),
             JoinedAs(s)' \in {JoinedAs(s), NoUser} \/ ChatAt(s)' = {},
             JoinedAs(t)' \in {JoinedAs(t), NoUser} \/ ChatAt(t)' = {}
      PROVE  Alike(s, t)'
  <2>1. CASE ChatAt(s)' = {} \/ ChatAt(t)' = {}
    BY <2>1 DEF Alike
  <2>2. CASE JoinedAs(s)' = JoinedAs(s) /\ JoinedAs(t)' = JoinedAs(t)
    <3>1. Alike(s, t)
      BY <1>1, <1>2, <2>2
    <3> QED
      BY <1>3, <3>1, NoMoreChatFrames DEF Alike
  <2> QED
    BY <1>1, <1>3, <2>1, <2>2, ConstantsDistinct
<1>4. ASSUME NEW w \in Writers, SpeaksFor(w)
      PROVE  Alike(s, t)'
  <2> DEFINE f == Announcement(w)
  <2>1. f \in Frame /\ f.type \in ChatTypes
    BY AnnouncementType DEF Announcement, MessageFrame, MessageDeletedFrame, ChatTypes
  <2> HIDE DEF f
  <2>2. Alike(s, t) /\ JoinedAs(s) = JoinedAs(t)
    BY <1>1, <1>2, <1>4 DEF SpeaksFor
  <2>3. CASE JoinedAs(s) = task[w].user
    <3>1. wire'[s] = Append(wire[s], f) /\ wire'[t] = Append(wire[t], f)
      BY <1>4, <2>2, <2>3 DEF SpeaksFor, f
    <3> SUFFICES ASSUME NEW i \in ChatAt(s)', NEW j \in ChatAt(t)',
                        FromEnd(s, i)' = FromEnd(t, j)'
                 PROVE  wire'[s][i] = wire'[t][j]
      BY DEF Alike
    <3>2. \/ wire'[s][i] = f /\ FromEnd(s, i)' = 1
          \/ /\ i \in ChatAt(s) /\ wire'[s][i] = wire[s][i]
             /\ FromEnd(s, i) \in Nat \ {0} /\ FromEnd(s, i)' = FromEnd(s, i) + 1
      BY <2>1, <3>1, OneMoreChatFrame
    <3>3. \/ wire'[t][j] = f /\ FromEnd(t, j)' = 1
          \/ /\ j \in ChatAt(t) /\ wire'[t][j] = wire[t][j]
             /\ FromEnd(t, j) \in Nat \ {0} /\ FromEnd(t, j)' = FromEnd(t, j) + 1
      BY <2>1, <3>1, OneMoreChatFrame
    <3> QED
      BY <2>2, <3>2, <3>3 DEF Alike
  <2>4. CASE JoinedAs(s) # task[w].user
    <3>1. Quietly(s) /\ Quietly(t)
      BY <1>4, <2>2, <2>4 DEF SpeaksFor, Quietly
    <3> QED
      BY <2>2, <3>1, NoMoreChatFrames DEF Alike
  <2> QED
    BY <2>3, <2>4
<1> QED
  BY <1>3, <1>4, ToldTogether

(* Two live sockets of one user, however they joined and whoever else left, *)
(* have been told the same frames in the same order since the younger of    *)
(* them joined: it follows from ChatLog.                                   *)
THEOREM TabsShowTheSame == Spec => []TabsAgree
<1>1. Init => TabsAgree
  BY DEF Init, TabsAgree, Live
<1>2. TypeOK /\ SafetyInv /\ RegisteredOpen /\ SafetyInv' /\ TabsAgree /\ [Next]_vars => TabsAgree'
  BY StepMaps, TabsAgreeStep
<1> QED
  BY <1>1, <1>2, Inductive, RegisteredOpenHolds, PTL DEF Spec
-----------------------------------------------------------------------------
(* Nobody is told twice. *)

(* What is owed is unsaid, and conversely. *)
LEMMA OwedMessages ==
    ASSUME NEW w \in Writers
    PROVE  /\ SaysStored(w) <=> OwedMap[w].type = "message"
           /\ SaysStored(w) => OwedMap[w].msg = task[w].msg
           /\ SaysStored(w)' <=> OwedMap'[w].type = "message"
           /\ SaysStored(w)' => OwedMap'[w].msg = task'[w].msg
  BY DEF SaysStored, OwedMap, Nothing, Announcement, MessageFrame, MessageDeletedFrame

(* A step that leaves unsaid no more than there was. *)
OwesNoMore ==
    \A w \in Writers : SaysStored(w)' => SaysStored(w) /\ task'[w].msg = task[w].msg

(* A step by which w comes to owe what nobody has heard of. *)
OwesNew(w) ==
    /\ wire' = wire /\ Status(task'[w].msg) = "absent" /\ task'[w].msg \in Messages
    /\ \A v \in Writers : v # w /\ SaysStored(v)' => SaysStored(v) /\ task'[v].msg = task[v].msg

(* A message is owed once it is stored, under an id nobody has heard of. *)
LEMMA WhatIsOwed ==
    ASSUME TypeOK, SafetyInv, Log!Next \/ UNCHANGED LogVars
    PROVE  OwesNoMore \/ \E w \in Writers : OwesNew(w)
<1>1. ASSUME \A v \in Writers : OwedMap'[v] = OwedMap[v] \/ OwedMap'[v].type # "message"
      PROVE  OwesNoMore
  BY <1>1, OwedMessages DEF OwesNoMore
<1>2. ASSUME NEW w \in Writers, NEW u \in Users, NEW m \in Messages, Log!Store(w, u, m)
      PROVE  OwesNew(w)
  <2>1. /\ StatusMap[m] = "absent" /\ wire' = wire
        /\ OwedMap' = [OwedMap EXCEPT ![w] =
                         MessageFrame(u, m, IF w \in Sockets THEN w ELSE NoSocket)]
    BY <1>2 DEF Log!Store, Log!Frame, MessageFrame, StatusMap, OwedMap
  <2>2. OwedMap'[w].type = "message" /\ OwedMap'[w].msg = m
    BY <2>1 DEF OwedMap, MessageFrame
  <2>3. \A v \in Writers : v # w => OwedMap'[v] = OwedMap[v]
    BY <2>1 DEF OwedMap
  <2> QED
    BY <2>1, <2>2, <2>3, OwedMessages DEF OwesNew, StatusMap
<1>3. ASSUME NEW w \in Writers, NEW u \in Users, NEW m \in Messages, Log!Remove(w, u, m)
      PROVE  OwesNoMore
  <2>1. OwedMap' = [OwedMap EXCEPT ![w] = MessageDeletedFrame(u, m)]
    BY <1>3 DEF Log!Remove, Log!Frame, MessageDeletedFrame, OwedMap
  <2>2. OwedMap'[w].type # "message"
    BY <2>1 DEF OwedMap, MessageDeletedFrame
  <2>3. \A v \in Writers : v # w => OwedMap'[v] = OwedMap[v]
    BY <2>1 DEF OwedMap
  <2> QED
    BY <1>1, <2>2, <2>3
<1>4. ASSUME NEW w \in Writers, Log!Announce(w) \/ Log!Forget(w)
      PROVE  OwesNoMore
  <2>1. OwedMap' = [OwedMap EXCEPT ![w] = Nothing]
    BY <1>4 DEF Log!Announce, Log!Forget, Log!Nothing, Log!Frame, Nothing, OwedMap
  <2>2. OwedMap'[w].type # "message"
    BY <2>1 DEF OwedMap, Nothing
  <2>3. \A v \in Writers : v # w => OwedMap'[v] = OwedMap[v]
    BY <2>1 DEF OwedMap
  <2> QED
    BY <1>1, <2>2, <2>3
<1>5. ASSUME OwedMap' = OwedMap
      PROVE  OwesNoMore
  BY <1>1, <1>5
<1>6. ASSUME NEW s \in Sockets, Log!SocketStep(s)
      PROVE  OwedMap' = OwedMap
  BY <1>6 DEF Log!SocketStep, Log!Leave, Log!Tell, Log!Join, OwedMap
<1>7. ASSUME NEW u \in Users, Log!DeleteAccount(u)
      PROVE  OwedMap' = OwedMap
  BY <1>7 DEF Log!DeleteAccount, OwedMap
<1>8. CASE UNCHANGED LogVars
  BY <1>5, <1>8 DEF LogVars
<1>9. CASE Log!Next
  <2>1. ASSUME NEW w \in Writers, Log!WriterStep(w)
        PROVE  OwesNoMore \/ OwesNew(w)
    BY <1>2, <1>3, <1>4, <2>1 DEF Log!WriterStep
  <2> QED
    BY <1>5, <1>6, <1>7, <1>9, <2>1 DEF Log!Next
<1> QED
  BY <1>8, <1>9

(* A step that tells s no message leaves those it carries where they are. *)
LEMMA NoMoreMessages ==
    ASSUME TypeOK, NEW s \in Sockets, NEW m \in Messages,
           \/ wire'[s] = wire[s]
           \/ \E f \in Frame : /\ wire'[s] = Append(wire[s], f)
                               /\ ~(f.type = "message" /\ f.msg = m)
    PROVE  Carries(s, m, "message")' = Carries(s, m, "message")
<1>1. wire[s] \in Seq(Frame)
  BY DEF TypeOK
<1>2. CASE wire'[s] = wire[s]
  BY <1>2 DEF Carries
<1>3. ASSUME NEW f \in Frame, wire'[s] = Append(wire[s], f), ~(f.type = "message" /\ f.msg = m)
      PROVE  Carries(s, m, "message")' = Carries(s, m, "message")
  BY <1>1, <1>3 DEF Carries
<1> QED
  BY <1>2, <1>3
(* Every step keeps what is owed unheard of, and what is told told once.   *)
LEMMA ToldInvStep ==
    ASSUME TypeOK, SafetyInv, ToldInv, Log!Next \/ UNCHANGED LogVars
    PROVE  ToldInv'
<1>1. ASSUME NEW s \in Sockets, NEW m \in Messages, Status(m) = "absent"
      PROVE  Carries(s, m, "message") = {}
  BY <1>1 DEF SafetyInv, FrameInv, Carries, ChatTypes, Status, Settled
<1>2. ASSUME NEW w \in Writers, SaysStored(w)
      PROVE  task[w].msg \in Messages /\ Status(task[w].msg) # "absent"
  BY <1>2 DEF SafetyInv, TaskInv, SaysStored, Unsaid, Status, Settled
<1>3. \A s \in Sockets, m \in Messages : Quietly(s) =>
         Carries(s, m, "message")' = Carries(s, m, "message")
  BY NoMoreMessages DEF Quietly, ChatTypes
<1>4. ASSUME NEW w \in Writers, SpeaksFor(w)
      PROVE  ToldInv'
  <2> DEFINE f == Announcement(w)
             Says(m) == f.type = "message" /\ f.msg = m
  <2>1. f \in Frame /\ f.msg = task[w].msg /\ (f.type = "message" => SaysStored(w))
    BY <1>4, AnnouncementType
       DEF Announcement, MessageFrame, MessageDeletedFrame, SpeaksFor, SaysStored
  <2>2. /\ \A s \in Sockets : wire'[s] = wire[s] \/ wire'[s] = Append(wire[s], f)
        /\ ~SaysStored(w)'
    BY <1>4 DEF SpeaksFor, SaysStored
  <2> HIDE DEF f
  <2>3. \A v \in Writers : SaysStored(v)' =>
           v # w /\ SaysStored(v) /\ task'[v].msg = task[v].msg
    BY <1>4, <2>2, OwedMessages DEF SpeaksFor
  <2>4. \A s \in Sockets, m \in Messages : ~Says(m) =>
           Carries(s, m, "message")' = Carries(s, m, "message")
    BY <2>1, <2>2, NoMoreMessages
  <2>5. ASSUME NEW s \in Sockets, NEW m \in Messages, Says(m),
               NEW i \in Carries(s, m, "message")', NEW j \in Carries(s, m, "message")'
        PROVE  i = j
    <3>1. Carries(s, m, "message") = {}
      BY <2>1, <2>5 DEF ToldInv
    <3>2. wire[s] \in Seq(Frame)
      BY DEF TypeOK
    <3>3. CASE wire'[s] = wire[s]
      BY <2>5, <3>1, <3>3 DEF Carries
    <3>4. CASE wire'[s] = Append(wire[s], f)
      <4>1. ASSUME NEW k \in Carries(s, m, "message")'
            PROVE  k = Len(wire[s]) + 1
        <5>1. /\ k \in 1..(Len(wire[s]) + 1)
              /\ k # Len(wire[s]) + 1 => k \in DOMAIN wire[s] /\ wire'[s][k] = wire[s][k]
          BY <3>2, <3>4, <4>1 DEF Carries
        <5> QED
          BY <3>1, <4>1, <5>1 DEF Carries
      <4> QED
        BY <2>5, <4>1
    <3> QED
      BY <2>2, <3>3, <3>4
  <2>6. ASSUME NEW v \in Writers, SaysStored(v)', NEW s \in Sockets
        PROVE  Carries(s, task[v].msg, "message")' = {}
    <3>1. v # w /\ SaysStored(v) /\ task'[v].msg = task[v].msg /\ task[v].msg \in Messages
      BY <1>2, <2>3, <2>6
    <3>2. ~Says(task[v].msg)
      BY <2>1, <3>1 DEF ToldInv
    <3> QED
      BY <2>4, <3>1, <3>2 DEF ToldInv
  <2>7. \A u, v \in Writers :
           SaysStored(u)' /\ SaysStored(v)' /\ task'[u].msg = task'[v].msg => u = v
    BY <2>3 DEF ToldInv
  <2>8. \A s \in Sockets, m \in Messages :
           \A i, j \in Carries(s, m, "message")' : i = j
    BY <2>4, <2>5 DEF ToldInv
  <2> QED
    BY <2>6, <2>7, <2>8 DEF ToldInv
<1>5. ASSUME \A s \in Sockets : Quietly(s)
      PROVE  ToldInv'
  <2>1. \A s \in Sockets, m \in Messages : Carries(s, m, "message")' = Carries(s, m, "message")
    BY <1>3, <1>5
  <2>2. \A s \in Sockets, m \in Messages :
           \A i, j \in Carries(s, m, "message")' : i = j
    BY <2>1 DEF ToldInv
  <2>3. CASE OwesNoMore
    <3>1. \A w \in Writers : SaysStored(w)' =>
             SaysStored(w) /\ task'[w].msg = task[w].msg /\ task[w].msg \in Messages
      BY <1>2, <2>3 DEF OwesNoMore
    <3>2. \A v, w \in Writers :
             SaysStored(v)' /\ SaysStored(w)' /\ task'[v].msg = task'[w].msg => v = w
      BY <3>1 DEF ToldInv
    <3>3. \A w \in Writers, s \in Sockets :
             SaysStored(w)' => Carries(s, task[w].msg, "message")' = {}
      BY <2>1, <3>1 DEF ToldInv
    <3> QED
      BY <2>2, <3>2, <3>3 DEF ToldInv
  <2>4. ASSUME NEW w \in Writers, OwesNew(w)
        PROVE  ToldInv'
    <3>1. /\ task'[w].msg \in Messages /\ Status(task'[w].msg) = "absent"
          /\ \A v \in Writers : v # w /\ SaysStored(v)' =>
                /\ SaysStored(v) /\ task'[v].msg = task[v].msg /\ task[v].msg \in Messages
                /\ task'[v].msg # task'[w].msg
      BY <1>2, <2>4 DEF OwesNew
    <3>2. \A u, v \in Writers :
             SaysStored(u)' /\ SaysStored(v)' /\ task'[u].msg = task'[v].msg => u = v
      BY <3>1 DEF ToldInv
    <3>3. ASSUME NEW v \in Writers, NEW s \in Sockets, SaysStored(v)'
          PROVE  Carries(s, task[v].msg, "message")' = {}
      <4>1. CASE v = w
        BY <1>1, <2>1, <3>1, <4>1
      <4>2. CASE v # w
        BY <2>1, <3>1, <3>3, <4>2 DEF ToldInv
      <4> QED
        BY <4>1, <4>2
    <3> QED
      BY <2>2, <3>2, <3>3 DEF ToldInv
  <2> QED
    BY <2>3, <2>4, WhatIsOwed
<1> QED
  BY <1>4, <1>5, ToldTogether

(* No socket is told of one message twice, its sender's included, whichever *)
(* way it came in and whoever else is writing.                             *)
THEOREM ToldOnceOnly == Spec => []MessageToldOnce
<1>1. Init => ToldInv
  BY DEF Init, ToldInv, SaysStored, Unsaid, Idle, Carries
<1>2. TypeOK /\ SafetyInv /\ RegisteredOpen /\ ToldInv /\ [Next]_vars => ToldInv'
  BY StepMaps, ToldInvStep
<1>3. ToldInv => MessageToldOnce
  <2> SUFFICES ASSUME ToldInv, NEW s \in Sockets, NEW m \in Messages
               PROVE  Cardinality(Carries(s, m, "message")) <= 1
    BY DEF MessageToldOnce
  <2> DEFINE C == Carries(s, m, "message")
  <2>1. CASE C = {}
    BY <2>1, FS_EmptySet
  <2>2. CASE C # {}
    <3>1. PICK i \in C : C = {i}
      BY <2>2 DEF ToldInv
    <3> QED
      BY <3>1, FS_Singleton
  <2> QED
    BY <2>1, <2>2
<1> QED
  BY <1>1, <1>2, <1>3, Inductive, RegisteredOpenHolds, PTL DEF Spec
=============================================================================
