------------------------------ MODULE ChatLog ------------------------------
(***************************************************************************)
(* What the realtime half of the chat promises, without handlers, awaits,   *)
(* transactions or a registry: messages are stored and removed, sockets     *)
(* join as a user and leave, and what is to be said of a user's messages is *)
(* said once, to all sockets joined as that user at the same time, and to   *)
(* nobody else.  Realtime implements it (Realtime!ImplementsChatLog).       *)
(***************************************************************************)
EXTENDS Naturals, Sequences

CONSTANTS Users, Sockets, Writers, Messages, NoUser, NoSocket, NoMessage

VARIABLES
    users,    \* the accounts that exist
    status,   \* [Messages -> {"absent", "stored", "gone"}]
    owner,    \* [Messages -> Users], NoUser for what was never stored
    owed,     \* [Writers -> frames]: what a writer has done and not yet said
    joined,   \* [Sockets -> Users], NoUser for what is not, or no longer, joined
    told      \* [Sockets -> sequences of frames], in the order they were told

vars == <<users, status, owner, owed, joined, told>>

Frame(type, u, m, c) == [type |-> type, user |-> u, msg |-> m, cid |-> c]
Nothing == Frame("nothing", NoUser, NoMessage, NoSocket)

Init ==
    /\ users = Users
    /\ status = [m \in Messages |-> "absent"]
    /\ owner = [m \in Messages |-> NoUser]
    /\ owed = [w \in Writers |-> Nothing]
    /\ joined = [s \in Sockets |-> NoUser]
    /\ told = [s \in Sockets |-> <<>>]

(* A socket that stores a message will find its own mark in what is said. *)
Store(w, u, m) ==
    /\ u \in users /\ status[m] = "absent" /\ owed[w] = Nothing
    /\ status' = [status EXCEPT ![m] = "stored"]
    /\ owner' = [owner EXCEPT ![m] = u]
    /\ owed' = [owed EXCEPT ![w] =
                  Frame("message", u, m, IF w \in Sockets THEN w ELSE NoSocket)]
    /\ UNCHANGED <<users, joined, told>>

(* A message may be removed twice, and both times that is said. *)
Remove(w, u, m) ==
    /\ owner[m] = u /\ owed[w] = Nothing
    /\ status' = [status EXCEPT ![m] = "gone"]
    /\ owed' = [owed EXCEPT ![w] = Frame("message_deleted", u, m, NoSocket)]
    /\ UNCHANGED <<users, owner, joined, told>>

(* An account goes with its messages, and nothing is said. *)
DeleteAccount(u) ==
    /\ u \in users
    /\ users' = users \ {u}
    /\ status' = [m \in Messages |-> IF owner[m] = u THEN "gone" ELSE status[m]]
    /\ UNCHANGED <<owner, owed, joined, told>>

(* A socket is told once, and before anything else, that it has joined; the *)
(* account it has proved to be may be gone by then.                         *)
Join(s, u) ==
    /\ joined[s] = NoUser /\ told[s] = <<>>
    /\ joined' = [joined EXCEPT ![s] = u]
    /\ told' = [told EXCEPT ![s] = <<Frame("auth_ok", u, NoMessage, NoSocket)>>]
    /\ UNCHANGED <<users, status, owner, owed>>

Leave(s) ==
    /\ joined[s] # NoUser
    /\ joined' = [joined EXCEPT ![s] = NoUser]
    /\ UNCHANGED <<users, status, owner, owed, told>>

(* Pongs and errors are nobody else's business; a socket that has not joined *)
(* is told one error, and is then never told, nor joins, anything.           *)
Tell(s, type) ==
    /\ type \in {"pong", "error"}
    /\ joined[s] # NoUser \/ (type = "error" /\ told[s] = <<>>)
    /\ told' = [told EXCEPT ![s] = Append(@, Frame(type, NoUser, NoMessage, NoSocket))]
    /\ UNCHANGED <<users, status, owner, owed, joined>>

Announce(w) ==
    /\ owed[w] # Nothing
    /\ told' = [s \in Sockets |-> IF joined[s] = owed[w].user
                                  THEN Append(told[s], owed[w]) ELSE told[s]]
    /\ owed' = [owed EXCEPT ![w] = Nothing]
    /\ UNCHANGED <<users, status, owner, joined>>

(* What raised after it stored a message does not say so: a request answers *)
(* with a failure, a socket leaves.                                         *)
Forget(w) ==
    /\ owed[w].type = "message"
    /\ owed' = [owed EXCEPT ![w] = Nothing]
    /\ joined' = [s \in Sockets |-> IF s = w THEN NoUser ELSE joined[s]]
    /\ UNCHANGED <<users, status, owner, told>>

WriterStep(w) ==
    \/ Announce(w) \/ Forget(w)
    \/ \E u \in Users, m \in Messages : Store(w, u, m) \/ Remove(w, u, m)

SocketStep(s) ==
    \/ Leave(s)
    \/ \E type \in {"pong", "error"} : Tell(s, type)
    \/ \E u \in Users : Join(s, u)

Next ==
    \/ \E w \in Writers : WriterStep(w)
    \/ \E s \in Sockets : SocketStep(s)
    \/ \E u \in Users : DeleteAccount(u)

Spec == Init /\ [][Next]_vars
=============================================================================
