------------------------------ MODULE Sessions ------------------------------
(***************************************************************************)
(* The accounts and sessions half of the backend: register, login, refresh, *)
(* logout and DELETE /users/me of routes/users.py over the users and        *)
(* refresh_tokens tables, with the browsers that hold the refresh cookie.   *)
(* One action is what one request does between two points where another     *)
(* transaction can be seen: its SELECT, its flush and commit (READ          *)
(* COMMITTED), the row locks it has to wait for, and its response.          *)
(***************************************************************************)
EXTENDS Naturals, FiniteSets

CONSTANTS Users,      \* ids the users sequence can hand out, never reused
          Names,      \* usernames
          Tokens,     \* refresh tokens secrets.token_urlsafe can return
          Browsers,   \* cookie jars, each shared by the tabs of one browser
          Requests,   \* slots for concurrent requests (reused)
          NoUser, NoName, NoToken, NoBrowser,
          Lossy       \* whether a request or its response can get lost

ASSUME ConstantsDistinct ==
    /\ NoUser \notin Users
    /\ NoName \notin Names
    /\ NoToken \notin Tokens
    /\ NoBrowser \notin Browsers
    /\ Lossy \in BOOLEAN

VARIABLES
    acct,     \* [Users -> States]: the users table, per id
    name,     \* [Users -> Names]: users.username
    stale,    \* users whose password hash needs rehashing
    tok,      \* [Tokens -> States]: the refresh_tokens table, per token
    owner,    \* [Tokens -> Users]: refresh_tokens.user_id
    root,     \* [Tokens -> Tokens]: the login a token descends from (history)
    expired,  \* tokens past their expires_at
    req,      \* [Requests -> Request]: the requests in flight
    jar,      \* [Browsers -> Tokens]: the refresh_token cookie
    bearer,   \* [Browsers -> Users]: whom the access token in memory names
    used,     \* [Tokens -> Nat]: refreshes a token has paid for (history)
    out,      \* tokens that a logout has revoked (history)
    raced     \* logins that had two requests in flight at once (history)

vars == <<acct, name, stale, tok, owner, root, expired, req, jar, bearer,
          used, out, raced>>
tables  == <<acct, name, stale, tok, owner, root>>
history == <<used, out, raced>>

States == {"free", "live", "gone"}
Ops    == {"none", "register", "login", "refresh", "logout", "delete"}
Steps  == {"idle", "sent", "looked", "locking", "replied"}

Request == [op      : Ops,
            step    : Steps,
            browser : Browsers \cup {NoBrowser},
            name    : Names \cup {NoName},
            user    : Users \cup {NoUser},
            token   : Tokens \cup {NoToken},   \* the cookie it presents
            purged  : SUBSET Tokens,           \* expired rows it has deleted
            reply   : {"none", "set", "clear"},
            fresh   : Tokens \cup {NoToken}]   \* the cookie it sets

Idle == [op |-> "none", step |-> "idle", browser |-> NoBrowser, name |-> NoName,
         user |-> NoUser, token |-> NoToken, purged |-> {}, reply |-> "none",
         fresh |-> NoToken]

At(r, op, step) == req[r].op = op /\ req[r].step = step

(* The response of a request that sets no cookie: 200, 400, 401 or 500. *)
Answered(r) == [req EXCEPT ![r].step = "replied", ![r].purged = {}]
(* Mutants: a rotation does not set the cookie; the cookie is not the token. *)
MutNoCookie(r, t) ==
    [req EXCEPT ![r].step = "replied", ![r].purged = {},
                ![r].reply = IF req[r].op = "login" THEN "set" ELSE "none",
                ![r].fresh = t]
MutWrongCookie(r, t) == [req EXCEPT ![r].step = "replied", ![r].purged = {},
                                    ![r].reply = "set", ![r].fresh = req[r].user]

Accepted(r, t) == [req EXCEPT ![r].step = "replied", ![r].purged = {},
                              ![r].reply = "set", ![r].fresh = t]

Init ==
    /\ acct = [u \in Users |-> "free"]
    /\ name = [u \in Users |-> NoName]
    /\ stale \in SUBSET Users
    /\ tok = [t \in Tokens |-> "free"]
    /\ owner = [t \in Tokens |-> NoUser]
    /\ root = [t \in Tokens |-> NoToken]
    /\ expired = {}
    /\ req = [r \in Requests |-> Idle]
    /\ jar = [b \in Browsers |-> NoToken]
    /\ bearer = [b \in Browsers |-> NoUser]
    /\ used = [t \in Tokens |-> 0]
    /\ out = {}
    /\ raced = {}

-----------------------------------------------------------------------------
(* Row locks.  A flush that deletes a row holds it until its transaction   *)
(* ends; an INSERT that references a row waits for whoever is deleting it. *)

(* A DELETE of u's row is waiting for its cascade. *)
Locked(u) == \E r \in Requests : At(r, "delete", "locking") /\ req[r].user = u

(* Rows some other transaction has purged and not yet committed. *)
HeldBesides(r) == UNION {req[q].purged : q \in Requests \ {r}}

(* Mutant: the foreign key does not cascade. *)
MutNoCascade(u) == {}

TokensOf(u) == {t \in Tokens : tok[t] = "live" /\ owner[t] = u}
Named(n) == {u \in Users : acct[u] = "live" /\ name[u] = n}
Lineage(l) == {t \in Tokens : root[t] = l}

-----------------------------------------------------------------------------
(* What browsers send.  A refresh or logout without a cookie changes       *)
(* nothing and is no step.                                                 *)

(* Bounds: a request is sent only if the ids and tokens left are enough.   *)
Pending(ops) == Cardinality({r \in Requests : req[r].op \in ops
                                              /\ req[r].step # "replied"})
IdsLeft == Pending({"register"}) < Cardinality({u \in Users : acct[u] = "free"})
TokensLeft ==
    Pending({"login", "refresh"}) < Cardinality({t \in Tokens : tok[t] = "free"})

SendNamed(b, r, op, n) ==
    /\ op = "register" => IdsLeft
    /\ op = "login" => TokensLeft
    /\ req[r] = Idle
    /\ req' = [req EXCEPT ![r] = [Idle EXCEPT !.op = op, !.step = "sent",
                                              !.browser = b, !.name = n]]
    /\ UNCHANGED <<tables, expired, jar, bearer, history>>

SendCookie(b, r, op) ==
    /\ op = "refresh" => TokensLeft
    /\ req[r] = Idle
    /\ jar[b] # NoToken
    /\ req' = [req EXCEPT ![r] = [Idle EXCEPT !.op = op, !.step = "sent",
                                              !.browser = b, !.token = jar[b]]]
    /\ raced' = IF \E q \in Requests : req[q].token \in Lineage(root[jar[b]])
                THEN raced \cup {root[jar[b]]} ELSE raced
    /\ UNCHANGED <<tables, expired, jar, bearer, used, out>>

SendDelete(b, r) ==
    /\ req[r] = Idle
    /\ bearer[b] # NoUser
    /\ req' = [req EXCEPT ![r] = [Idle EXCEPT !.op = "delete", !.step = "sent",
                                              !.browser = b, !.user = bearer[b]]]
    /\ UNCHANGED <<tables, expired, jar, bearer, history>>

-----------------------------------------------------------------------------
(* register_user: look the username up, then insert; the unique index has  *)
(* the last word.                                                          *)

RegisterLookup(r) ==
    /\ At(r, "register", "sent")
    /\ req' = IF Named(req[r].name) = {} THEN [req EXCEPT ![r].step = "looked"]
              ELSE Answered(r)
    /\ UNCHANGED <<tables, expired, jar, bearer, history>>

(* Mutant: no unique index. *)
MutNoUniqueIndex(r, u) ==
    /\ At(r, "register", "looked")
    /\ acct[u] = "free"
    /\ acct' = [acct EXCEPT ![u] = "live"]
    /\ name' = [name EXCEPT ![u] = req[r].name]
    /\ stale' = stale \ {u}
    /\ req' = Answered(r)
    /\ UNCHANGED <<tok, owner, root, expired, jar, bearer, history>>

RegisterCommit(r, u) ==
    /\ At(r, "register", "looked")
    /\ Named(req[r].name) = {}
    /\ acct[u] = "free"
    /\ acct' = [acct EXCEPT ![u] = "live"]
    /\ name' = [name EXCEPT ![u] = req[r].name]
    /\ stale' = stale \ {u}
    /\ req' = Answered(r)
    /\ UNCHANGED <<tok, owner, root, expired, jar, bearer, history>>

(* The insert collides with a row committed since the lookup: a 500.  It   *)
(* waits for a row that is being deleted.                                  *)
RegisterFails(r) ==
    /\ At(r, "register", "looked")
    /\ \E u \in Named(req[r].name) : ~Locked(u)
    /\ req' = Answered(r)
    /\ UNCHANGED <<tables, expired, jar, bearer, history>>

-----------------------------------------------------------------------------
(* login *)

(* The SELECT and the password check. *)
LoginLookup(r) ==
    /\ At(r, "login", "sent")
    /\ \/ /\ \E u \in Named(req[r].name) :
                req' = [req EXCEPT ![r].step = "looked", ![r].user = u]
       \/ req' = Answered(r)
    /\ UNCHANGED <<tables, expired, jar, bearer, history>>

(* The new session's row, and the better hash the password has earned. *)
LoginCommit(r, t) ==
    /\ At(r, "login", "looked")
    /\ acct[req[r].user] = "live" /\ ~Locked(req[r].user)
    /\ tok[t] = "free"
    /\ stale' = stale \ {req[r].user}
    /\ tok' = [tok EXCEPT ![t] = "live"]
    /\ owner' = [owner EXCEPT ![t] = req[r].user]
    /\ root' = [root EXCEPT ![t] = t]
    /\ req' = Accepted(r, t)
    /\ UNCHANGED <<acct, name, expired, jar, bearer, history>>

(* Mutant: a refresh whose account has gone is never answered. *)
MutRefreshHangs(r) ==
    /\ At(r, "login", "looked")
    /\ acct[req[r].user] # "live"
    /\ req' = Answered(r)
    /\ UNCHANGED <<tables, expired, jar, bearer, history>>

(* The account has gone since: its rows can be neither updated nor         *)
(* referenced, and the request is a 500.                                   *)
WriteFails(r) ==
    /\ At(r, "login", "looked") \/ At(r, "refresh", "looked")
    /\ acct[req[r].user] # "live"
    /\ req' = Answered(r)
    /\ UNCHANGED <<tables, expired, jar, bearer, history>>

-----------------------------------------------------------------------------
(* refresh_access_token *)

(* Purge, then SELECT: the row of a token another refresh is about to     *)
(* delete is still there.  Without a row the purge alone is committed.    *)
RefreshLookup(r) ==
    LET purge == {t \in expired : tok[t] = "live"}
        t == req[r].token IN
    /\ At(r, "refresh", "sent")
    /\ purge \cap HeldBesides(r) = {}
    /\ IF tok[t] = "live" /\ t \notin purge
       THEN /\ req' = [req EXCEPT ![r].step = "looked", ![r].user = owner[t],
                                  ![r].purged = purge]
            /\ UNCHANGED tok
       ELSE /\ tok' = [x \in Tokens |-> IF x \in purge THEN "gone" ELSE tok[x]]
            /\ req' = Answered(r)
    /\ UNCHANGED <<acct, name, stale, owner, root, expired, jar, bearer, history>>

(* Mutant: the presented token's row is kept. *)
MutKeepsOld(r, t) ==
    /\ At(r, "refresh", "looked")
    /\ acct[req[r].user] = "live" /\ ~Locked(req[r].user)
    /\ tok[t] = "free"
    /\ tok' = [x \in Tokens |-> IF x = t THEN "live"
                                ELSE IF x \in req[r].purged THEN "gone" ELSE tok[x]]
    /\ owner' = [owner EXCEPT ![t] = req[r].user]
    /\ root' = [root EXCEPT ![t] = root[req[r].token]]
    /\ used' = [used EXCEPT ![req[r].token] = @ + 1]
    /\ req' = Accepted(r, t)
    /\ UNCHANGED <<acct, name, stale, expired, jar, bearer, out, raced>>

(* The rotation: the replacement's INSERT and the presented row's DELETE,  *)
(* which may find nothing left to delete, in one commit with the purge.    *)
Rotate(r, t) ==
    LET old == req[r].token IN
    /\ At(r, "refresh", "looked")
    /\ acct[req[r].user] = "live" /\ ~Locked(req[r].user)
    /\ old \notin HeldBesides(r)
    /\ tok[t] = "free"
    /\ tok' = [x \in Tokens |-> IF x = t THEN "live"
                                ELSE IF x = old \/ x \in req[r].purged THEN "gone"
                                ELSE tok[x]]
    /\ owner' = [owner EXCEPT ![t] = req[r].user]
    /\ root' = [root EXCEPT ![t] = root[old]]
    /\ used' = [used EXCEPT ![old] = @ + 1]
    /\ req' = Accepted(r, t)
    /\ UNCHANGED <<acct, name, stale, expired, jar, bearer, out, raced>>

-----------------------------------------------------------------------------
(* logout *)

Logout(r) ==
    LET t == req[r].token IN
    /\ At(r, "logout", "sent")
    /\ t \notin HeldBesides(r)
    /\ tok' = [tok EXCEPT ![t] = "gone"]
    /\ out' = out \cup {t}
    /\ req' = [req EXCEPT ![r].step = "replied", ![r].reply = "clear"]
    /\ UNCHANGED <<acct, name, stale, owner, root, expired, jar, bearer, used, raced>>

-----------------------------------------------------------------------------
(* delete_users_me: get_current_user, DELETE FROM users, its cascade.      *)

DeleteLookup(r) ==
    /\ At(r, "delete", "sent")
    /\ req' = IF acct[req[r].user] = "live" THEN [req EXCEPT ![r].step = "looked"]
              ELSE Answered(r)
    /\ UNCHANGED <<tables, expired, jar, bearer, history>>

(* The DELETE locks the row, or finds that another request has deleted it. *)
DeleteLock(r) ==
    /\ At(r, "delete", "looked")
    /\ ~Locked(req[r].user)
    /\ req' = IF acct[req[r].user] = "live" THEN [req EXCEPT ![r].step = "locking"]
              ELSE Answered(r)
    /\ UNCHANGED <<tables, expired, jar, bearer, history>>

(* The cascade waits for session rows a refresh has purged. *)
DeleteCommit(r) ==
    LET u == req[r].user IN
    /\ At(r, "delete", "locking")
    /\ TokensOf(u) \cap HeldBesides(r) = {}
    /\ acct' = [acct EXCEPT ![u] = "gone"]
    /\ tok' = [t \in Tokens |-> IF t \in TokensOf(u) THEN "gone" ELSE tok[t]]
    /\ req' = Answered(r)
    /\ UNCHANGED <<name, stale, owner, root, expired, jar, bearer, history>>

(* What a transaction that holds rows waits for. *)
WaitsFor(r, q) ==
    \/ At(r, "delete", "locking") /\ TokensOf(req[r].user) \cap req[q].purged # {}
    \/ /\ At(r, "refresh", "looked")
       /\ \/ At(q, "delete", "locking") /\ req[q].user = req[r].user
          \/ q # r /\ req[r].token \in req[q].purged

(* A refresh that has purged a session of the account whose deletion it    *)
(* waits for, or a longer cycle: the database ends one of the transactions *)
(* and its request is a 500.                                               *)
Deadlock(r) ==
    /\ \E S \in SUBSET Requests :
          /\ r \in S
          /\ \A v \in S : \E q \in S : WaitsFor(v, q)
          /\ \A v \in S : \E q \in S : WaitsFor(q, v)
    /\ req' = Answered(r)
    /\ UNCHANGED <<tables, expired, jar, bearer, history>>

-----------------------------------------------------------------------------
(* The environment: responses, losses, time. *)

Deliver(r) ==
    LET b == req[r].browser IN
    /\ req[r].step = "replied"
    /\ jar' = CASE req[r].reply = "set"   -> [jar EXCEPT ![b] = req[r].fresh]
                [] req[r].reply = "clear" -> [jar EXCEPT ![b] = NoToken]
                [] OTHER -> jar
    /\ bearer' = CASE req[r].reply = "set"   -> [bearer EXCEPT ![b] = req[r].user]
                   [] req[r].reply = "clear" -> [bearer EXCEPT ![b] = NoUser]
                   [] OTHER -> bearer
    /\ req' = [req EXCEPT ![r] = Idle]
    /\ UNCHANGED <<tables, expired, history>>

(* Mutant: the rotation's DELETE is committed before its INSERT. *)
MutHalfRotated(r) ==
    /\ Lossy
    /\ req[r] # Idle
    /\ tok' = IF At(r, "refresh", "looked")
              THEN [tok EXCEPT ![req[r].token] = "gone"] ELSE tok
    /\ req' = [req EXCEPT ![r] = Idle]
    /\ UNCHANGED <<acct, name, stale, owner, root, expired, jar, bearer, history>>

(* The request, its transaction or its response is lost (a crash, a dead   *)
(* connection): what was not committed is rolled back.                     *)
Lose(r) ==
    /\ Lossy
    /\ req[r] # Idle
    /\ req' = [req EXCEPT ![r] = Idle]
    /\ UNCHANGED <<tables, expired, jar, bearer, history>>

Expire(t) ==
    /\ tok[t] = "live"
    /\ expired' = expired \cup {t}
    /\ UNCHANGED <<tables, req, jar, bearer, history>>

-----------------------------------------------------------------------------
BrowserStep(b) ==
    \E r \in Requests :
       \/ \E n \in Names, op \in {"register", "login"} : SendNamed(b, r, op, n)
       \/ \E op \in {"refresh", "logout"} : SendCookie(b, r, op)
       \/ SendDelete(b, r)

RequestStep(r) ==
    \/ RegisterLookup(r)
    \/ \E u \in Users : RegisterCommit(r, u)
    \/ RegisterFails(r)
    \/ LoginLookup(r)
    \/ \E t \in Tokens : LoginCommit(r, t)
    \/ WriteFails(r)
    \/ RefreshLookup(r)
    \/ \E t \in Tokens : Rotate(r, t)
    \/ Logout(r)
    \/ DeleteLookup(r)
    \/ DeleteLock(r)
    \/ DeleteCommit(r)
    \/ Deadlock(r)
    \/ Deliver(r)

Next ==
    \/ \E b \in Browsers : BrowserStep(b)
    \/ \E r \in Requests : RequestStep(r) \/ Lose(r)
    \/ \E t \in Tokens : Expire(t)

Spec == Init /\ [][Next]_vars

(* Handlers run, and the database ends lock waits and deadlocks. *)
FairSpec == Spec /\ \A r \in Requests : WF_vars(RequestStep(r))

-----------------------------------------------------------------------------
(* Types. *)
TypeOK ==
    /\ acct \in [Users -> States]
    /\ name \in [Users -> Names \cup {NoName}]
    /\ stale \subseteq Users
    /\ tok \in [Tokens -> States]
    /\ owner \in [Tokens -> Users \cup {NoUser}]
    /\ root \in [Tokens -> Tokens \cup {NoToken}]
    /\ expired \subseteq Tokens
    /\ req \in [Requests -> Request]
    /\ jar \in [Browsers -> Tokens \cup {NoToken}]
    /\ bearer \in [Browsers -> Users \cup {NoUser}]
    /\ used \in [Tokens -> Nat]
    /\ out \subseteq Tokens
    /\ raced \subseteq Tokens

(* models.py, RefreshToken: "deleting a user takes their sessions with it", *)
(* the ones a login or a refresh is about to write included.               *)
NoOrphanSessions == \A t \in Tokens : tok[t] = "live" => acct[owner[t]] = "live"

(* However registrations race, a username is one account. *)
UniqueNames == \A n \in Names : Cardinality(Named(n)) <= 1

(* Rotation never loses a session: a login that was not logged out and has *)
(* no expired token still has a live one, whatever raced or failed.        *)
SessionSurvives ==
    \A l \in Tokens :
       /\ root[l] = l /\ acct[owner[l]] = "live"
       /\ Lineage(l) \cap (out \cup expired) = {}
       => \E t \in Lineage(l) : tok[t] = "live"

(* Where a login's requests are sent one at a time it has one live token,  *)
(* and none once it is logged out (design_decisions.md, Q9: what the       *)
(* client's single-flight refresher is for).                               *)
SingleFlightIsSafe ==
    \A l \in Tokens \ raced :
       LET live == {t \in Lineage(l) : tok[t] = "live"} IN
       /\ Cardinality(live) <= 1
       /\ Lineage(l) \cap out # {} => live = {}

Unspent(t) == tok[t] = "live" \/ t \in expired \/ acct[owner[t]] = "gone"

(* A browser that waits for nothing, and has lost nothing, holds no spent  *)
(* cookie: whatever order responses come back in, the last one it keeps    *)
(* still refreshes until it expires or the account goes.                   *)
JarHolds ==
    \A b \in Browsers :
       jar[b] # NoToken /\ (\A r \in Requests : req[r].browser # b) => Unspent(jar[b])

(* Every request is answered: no lock wait lasts for ever. *)
RequestsFinish == \A r \in Requests : req[r].step # "idle" ~> req[r].step = "idle"

-----------------------------------------------------------------------------
(* The inductive invariant behind NoOrphanSessions, UniqueNames and         *)
(* SessionSurvives.                                                        *)

(* What a request carries, by what it asks for and how far it has come. *)
WellFormed(q) ==
    /\ q.step # "idle" => q.op # "none" /\ q.browser \in Browsers
    /\ q.op \in {"register", "login"} => q.name \in Names
    /\ q.op \in {"refresh", "logout"} => q.token \in Tokens
    /\ q.op = "delete" => q.user \in Users
    /\ q.op \in {"login", "refresh"} /\ q.step = "looked" => q.user \in Users
    /\ q.reply = "set" => q.fresh \in Tokens /\ q.user \in Users

(* Cookies are of rows that were written, and what a transaction has read *)
(* of them stays true.                                                    *)
RequestInv ==
    \A r \in Requests :
       /\ WellFormed(req[r])
       /\ req[r].op \in {"refresh", "logout"} => tok[req[r].token] # "free"
       /\ At(r, "refresh", "looked") => req[r].user = owner[req[r].token]
       /\ req[r].reply = "set" => tok[req[r].fresh] # "free"
       /\ req[r].purged \subseteq expired

JarInv == \A b \in Browsers : jar[b] # NoToken => tok[jar[b]] # "free"

(* A token belongs to an account, the same as the login it descends from. *)
RowInv ==
    \A t \in Tokens :
       /\ tok[t] = "free" => root[t] = NoToken /\ t \notin expired
       /\ tok[t] # "free" => /\ owner[t] \in Users /\ acct[owner[t]] # "free"
                             /\ root[t] \in Tokens /\ tok[root[t]] # "free"
                             /\ owner[root[t]] = owner[t]

OneAccountEach == \A n \in Names : \A u, v \in Named(n) : u = v

SessionInv ==
    /\ RequestInv /\ JarInv /\ RowInv
    /\ OneAccountEach /\ NoOrphanSessions /\ SessionSurvives

-----------------------------------------------------------------------------
(* The inductive invariants behind SingleFlightIsSafe and JarHolds.          *)

LiveOf(l) == {t \in Lineage(l) : tok[t] = "live"}
Presents(r, l) == req[r].token \in Lineage(l)

(* Which requests carry a cookie, and whose cookie a response sets. *)
CookieInv ==
    /\ \A t \in out : tok[t] = "gone"
    /\ \A r \in Requests :
          /\ req[r].token # NoToken <=> req[r].op \in {"refresh", "logout"}
          /\ req[r].reply # "none" => req[r].step = "replied"
          /\ req[r].reply = "set" =>
                \/ req[r].op = "login" /\ root[req[r].fresh] = req[r].fresh
                \/ req[r].op = "refresh" /\ root[req[r].fresh] = root[req[r].token]
          /\ req[r].reply = "clear" => req[r].op = "logout"

(* A rotation that follows replaces the one live token of its login. *)
OneAtATime ==
    \A l \in Tokens \ raced :
       /\ \A x, y \in LiveOf(l) : x = y
       /\ \A r, q \in Requests : Presents(r, l) /\ Presents(q, l) => r = q
       /\ \A r \in Requests : Presents(r, l) /\ At(r, "refresh", "looked") =>
                                LiveOf(l) \subseteq {req[r].token}

(* A cookie on its way to a browser is nobody else's, and unspent. *)
NewCookieInv ==
    \A r \in Requests : req[r].reply = "set" =>
       /\ Unspent(req[r].fresh)
       /\ \A b \in Browsers : jar[b] # req[r].fresh
       /\ \A q \in Requests : /\ req[q].token # req[r].fresh
                              /\ req[q].reply = "set" /\ req[q].fresh = req[r].fresh => q = r

(* A cookie is in one jar; once spent, the response that spent it replaces it. *)
HeldCookieInv ==
    \A b \in Browsers : jar[b] # NoToken =>
       /\ \/ Unspent(jar[b])
          \/ \E r \in Requests : /\ req[r].browser = b /\ req[r].token = jar[b]
                                 /\ req[r].reply # "none"
       /\ \A c \in Browsers : jar[c] = jar[b] => c = b
       /\ \A r \in Requests : req[r].token = jar[b] => req[r].browser = b

(* The live token of a login, if any, is the one its browser has last been, *)
(* or will next be, given.                                                   *)
LatestInv ==
    \A l \in Tokens \ raced :
       /\ \A r \in Requests : Presents(r, l) =>
             LiveOf(l) \subseteq {IF req[r].reply = "set" THEN req[r].fresh ELSE req[r].token}
       /\ \A b \in Browsers : jar[b] \in Lineage(l) =>
             /\ \A c \in Browsers : jar[c] \in Lineage(l) => c = b
             /\ \A r \in Requests : Presents(r, l) => b = req[r].browser /\ jar[b] = req[r].token
             /\ (\A r \in Requests : ~Presents(r, l)) => LiveOf(l) \subseteq {jar[b]}
       /\ \A r \in Requests : req[r].op = "login" /\ req[r].reply = "set" /\ req[r].fresh = l =>
             /\ \A b \in Browsers : jar[b] \notin Lineage(l)
             /\ \A q \in Requests : ~Presents(q, l)
             /\ LiveOf(l) \subseteq {l}
       /\ Lineage(l) \cap out # {} =>
             /\ LiveOf(l) = {}
             /\ \A r \in Requests : Presents(r, l) => ~At(r, "refresh", "looked")

-----------------------------------------------------------------------------
(* What the repository says and the code does not keep (see the README). *)

(* users.py, refresh: "each token works exactly once". *)
TokenWorksOnce == \A t \in Tokens : used[t] <= 1

(* users.py, logout: "the cookie - even a copy taken before logout - no    *)
(* longer refreshes anything".                                             *)
LogoutRevokes == [][\A t \in out : used'[t] = used[t]]_vars
=============================================================================
