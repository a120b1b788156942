--------------------------- MODULE SessionsProofs ---------------------------
(***************************************************************************)
(* The safety of accounts and sessions, for any number of users, names,     *)
(* tokens, browsers and concurrent requests: the inductive invariant        *)
(* SessionInv and what follows from it.                                    *)
(***************************************************************************)
EXTENDS Sessions, FiniteSetTheorems, TLAPS

-----------------------------------------------------------------------------
(* Steps of one request. *)

(* Rows that were written stay written, and stay their account's. *)
RowsPersist ==
    /\ \A t \in Tokens : tok[t] # "free" => tok'[t] # "free" /\ owner'[t] = owner[t]
    /\ expired \subseteq expired'

(* The request is at q after the step, and so knows what is true then. *)
Becomes(r, q) ==
    /\ q \in Request /\ WellFormed(q) /\ req' = [req EXCEPT ![r] = q]
    /\ q.op \in {"refresh", "logout"} => tok'[q.token] # "free"
    /\ q.op = "refresh" /\ q.step = "looked" => q.user = owner'[q.token]
    /\ q.reply = "set" => tok'[q.fresh] # "free"
    /\ q.purged \subseteq expired'

(* What the other requests know is not touched. *)
LEMMA OneRequest ==
    ASSUME TypeOK, RequestInv, RowsPersist, NEW r \in Requests, NEW q, Becomes(r, q)
    PROVE  req' \in [Requests -> Request] /\ RequestInv'
<1>1. /\ q \in Request /\ WellFormed(q) /\ req' = [req EXCEPT ![r] = q]
      /\ req' \in [Requests -> Request] /\ req'[r] = q
      /\ \A p \in Requests : p # r => req'[p] = req[p]
  BY DEF Becomes, TypeOK
<1>2. ASSUME NEW p \in Requests
      PROVE  /\ WellFormed(req'[p])
             /\ req'[p].op \in {"refresh", "logout"} => tok'[req'[p].token] # "free"
             /\ req'[p].op = "refresh" /\ req'[p].step = "looked" =>
                   req'[p].user = owner'[req'[p].token]
             /\ req'[p].reply = "set" => tok'[req'[p].fresh] # "free"
             /\ req'[p].purged \subseteq expired'
  <2>1. CASE p = r
    BY <1>1, <2>1 DEF Becomes
  <2>2. CASE p # r
    <3>1. /\ WellFormed(req[p])
          /\ req[p].op \in {"refresh", "logout"} => tok[req[p].token] # "free"
          /\ req[p].op = "refresh" /\ req[p].step = "looked" =>
                req[p].user = owner[req[p].token]
          /\ req[p].reply = "set" => tok[req[p].fresh] # "free"
          /\ req[p].purged \subseteq expired
      BY DEF RequestInv, At
    <3>2. /\ req[p].op \in {"refresh", "logout"} => req[p].token \in Tokens
          /\ req[p].reply = "set" => req[p].fresh \in Tokens
      BY <3>1 DEF WellFormed
    <3>3. req'[p] = req[p]
      BY <1>1, <2>2
    <3> QED
      BY <3>1, <3>2, <3>3 DEF RowsPersist
  <2> QED
    BY <2>1, <2>2
<1>3. RequestInv'
  BY <1>2 DEF RequestInv, At
<1> QED
  BY <1>1, <1>3

(* A step that changes one request only. *)
LEMMA OnlyRequest ==
    ASSUME TypeOK, SessionInv, NEW r \in Requests, NEW q, Becomes(r, q),
           UNCHANGED <<tables, expired, jar, bearer, used, out>>, raced' \subseteq Tokens
    PROVE  TypeOK' /\ SessionInv'
<1>1. UNCHANGED <<acct, name, stale, tok, owner, root, expired, jar, bearer, used, out>>
  BY DEF tables
<1>2. RowsPersist
  BY <1>1 DEF RowsPersist
<1>3. req' \in [Requests -> Request] /\ RequestInv'
  BY <1>2, OneRequest DEF SessionInv
<1>4. TypeOK'
  BY <1>1, <1>3 DEF TypeOK
<1>5. JarInv' /\ RowInv' /\ OneAccountEach' /\ NoOrphanSessions' /\ SessionSurvives'
  BY <1>1 DEF SessionInv, JarInv, RowInv, OneAccountEach, Named, NoOrphanSessions,
              SessionSurvives, Lineage
<1> QED
  BY <1>3, <1>4, <1>5 DEF SessionInv

(* What a request in progress is. *)
LEMMA RequestFacts ==
    ASSUME TypeOK, SessionInv, NEW r \in Requests
    PROVE  /\ req[r] \in Request /\ WellFormed(req[r])
           /\ req[r].op \in {"refresh", "logout"} =>
                 req[r].token \in Tokens /\ tok[req[r].token] # "free"
           /\ At(r, "refresh", "looked") => req[r].user = owner[req[r].token]
           /\ req[r].reply = "set" => tok[req[r].fresh] # "free"
           /\ req[r].purged \subseteq expired
  BY DEF TypeOK, SessionInv, RequestInv, WellFormed

(* A response that sets no cookie. *)
LEMMA AnsweredBecomes ==
    ASSUME TypeOK, SessionInv, RowsPersist, NEW r \in Requests, req[r].step # "idle",
           req' = Answered(r)
    PROVE  \E q : Becomes(r, q)
<1> DEFINE q == [req[r] EXCEPT !.step = "replied", !.purged = {}]
<1>1. req[r] \in Request /\ WellFormed(req[r])
  BY RequestFacts
<1>2. req' = [req EXCEPT ![r] = q]
  BY DEF Answered
<1>3. q \in Request
  BY <1>1 DEF Request, Steps
<1>4. /\ q.step = "replied" /\ q.op = req[r].op /\ q.browser = req[r].browser
      /\ q.name = req[r].name /\ q.user = req[r].user /\ q.token = req[r].token
      /\ q.reply = req[r].reply /\ q.fresh = req[r].fresh /\ q.purged = {}
  BY <1>1 DEF Request
<1> HIDE DEF q
<1>5. WellFormed(q)
  BY <1>1, <1>4 DEF WellFormed
<1>6. /\ q.op \in {"refresh", "logout"} => tok'[q.token] # "free"
      /\ q.reply = "set" => tok'[q.fresh] # "free"
  BY <1>1, <1>4, RequestFacts DEF RowsPersist, WellFormed
<1> QED
  BY <1>2, <1>3, <1>4, <1>5, <1>6 DEF Becomes

LEMMA AnsweredKeeps ==
    ASSUME TypeOK, SessionInv, NEW r \in Requests, req[r].step # "idle",
           req' = Answered(r), UNCHANGED <<tables, expired, jar, bearer, history>>
    PROVE  TypeOK' /\ SessionInv'
<1>1. UNCHANGED <<tok, owner, expired, used, out, raced>>
  BY DEF tables, history
<1>2. PICK q : Becomes(r, q)
  BY <1>1, AnsweredBecomes DEF RowsPersist
<1> QED
  BY <1>1, <1>2, OnlyRequest DEF TypeOK

(* Idle asks for nothing. *)
LEMMA IdleRequest ==
    /\ Idle \in Request /\ WellFormed(Idle) /\ Idle.purged = {} /\ Idle.reply = "none"
    /\ Idle.op = "none" /\ Idle.step = "idle"
  BY DEF Idle, Request, WellFormed, Ops, Steps

-----------------------------------------------------------------------------
(* What browsers send. *)

LEMMA SendNamedKeeps ==
    ASSUME TypeOK, SessionInv, NEW b \in Browsers, NEW r \in Requests, NEW n \in Names,
           NEW op \in {"register", "login"}, SendNamed(b, r, op, n)
    PROVE  TypeOK' /\ SessionInv'
<1> DEFINE q == [Idle EXCEPT !.op = op, !.step = "sent", !.browser = b, !.name = n]
<1>1. req' = [req EXCEPT ![r] = q] /\ UNCHANGED <<tables, expired, jar, bearer, history>>
  BY DEF SendNamed
<1>2. q \in Request
  BY IdleRequest DEF Request, Ops, Steps
<1>3. /\ q.op = op /\ q.step = "sent" /\ q.browser = b /\ q.name = n
      /\ q.purged = {} /\ q.reply = "none"
  BY DEF Idle
<1> HIDE DEF q
<1>4. WellFormed(q)
  BY <1>3 DEF WellFormed
<1>5. Becomes(r, q)
  BY <1>1, <1>2, <1>3, <1>4 DEF Becomes
<1> QED
  BY <1>1, <1>5, OnlyRequest DEF TypeOK, history

LEMMA SendCookieKeeps ==
    ASSUME TypeOK, SessionInv, NEW b \in Browsers, NEW r \in Requests,
           NEW op \in {"refresh", "logout"}, SendCookie(b, r, op)
    PROVE  TypeOK' /\ SessionInv'
<1> DEFINE q == [Idle EXCEPT !.op = op, !.step = "sent", !.browser = b, !.token = jar[b]]
<1>1. /\ req' = [req EXCEPT ![r] = q] /\ jar[b] # NoToken
      /\ UNCHANGED <<tables, expired, jar, bearer, used, out>>
  BY DEF SendCookie
<1>2. jar[b] \in Tokens /\ tok[jar[b]] # "free" /\ root[jar[b]] \in Tokens
  BY <1>1 DEF TypeOK, SessionInv, JarInv, RowInv
<1>3. q \in Request
  BY <1>2, IdleRequest DEF Request, Ops, Steps
<1>4. /\ q.op = op /\ q.step = "sent" /\ q.browser = b /\ q.token = jar[b]
      /\ q.purged = {} /\ q.reply = "none"
  BY DEF Idle
<1> HIDE DEF q
<1>5. WellFormed(q)
  BY <1>2, <1>4 DEF WellFormed
<1>6. UNCHANGED tok
  BY <1>1 DEF tables
<1>7. Becomes(r, q)
  BY <1>1, <1>2, <1>3, <1>4, <1>5, <1>6 DEF Becomes
<1>8. raced' \subseteq Tokens
  BY <1>2 DEF SendCookie, TypeOK
<1> QED
  BY <1>1, <1>7, <1>8, OnlyRequest

LEMMA SendDeleteKeeps ==
    ASSUME TypeOK, SessionInv, NEW b \in Browsers, NEW r \in Requests, SendDelete(b, r)
    PROVE  TypeOK' /\ SessionInv'
<1> DEFINE q == [Idle EXCEPT !.op = "delete", !.step = "sent", !.browser = b,
                             !.user = bearer[b]]
<1>1. req' = [req EXCEPT ![r] = q] /\ UNCHANGED <<tables, expired, jar, bearer, history>>
  BY DEF SendDelete
<1>2. bearer[b] \in Users
  BY DEF SendDelete, TypeOK
<1>3. q \in Request
  BY <1>2, IdleRequest DEF Request, Ops, Steps
<1>4. /\ q.op = "delete" /\ q.step = "sent" /\ q.browser = b /\ q.user = bearer[b]
      /\ q.purged = {} /\ q.reply = "none"
  BY DEF Idle
<1> HIDE DEF q
<1>5. WellFormed(q)
  BY <1>2, <1>4 DEF WellFormed
<1>6. Becomes(r, q)
  BY <1>1, <1>3, <1>4, <1>5 DEF Becomes
<1> QED
  BY <1>1, <1>6, OnlyRequest DEF TypeOK, history

-----------------------------------------------------------------------------
(* Lookups: the request goes one step on, knowing what it has read. *)

(* A request that goes on, as the user it names or has found. *)
LEMMA GoesOn ==
    ASSUME TypeOK, SessionInv, NEW r \in Requests, NEW step \in {"looked", "locking"},
           req[r].step # "idle", req[r].op \in {"register", "delete"},
           req' = [req EXCEPT ![r].step = step],
           UNCHANGED <<tables, expired, jar, bearer, history>>
    PROVE  TypeOK' /\ SessionInv'
<1> DEFINE q == [req[r] EXCEPT !.step = step]
<1>1. /\ req[r] \in Request /\ WellFormed(req[r]) /\ req[r].purged \subseteq expired
      /\ req[r].reply = "set" => tok[req[r].fresh] # "free"
  BY RequestFacts
<1>2. /\ q \in Request /\ q.step = step /\ q.op = req[r].op /\ q.browser = req[r].browser
      /\ q.name = req[r].name /\ q.user = req[r].user /\ q.reply = req[r].reply
      /\ q.fresh = req[r].fresh /\ q.purged = req[r].purged
  BY <1>1 DEF Request, Steps
<1>3. req' = [req EXCEPT ![r] = q]
  OBVIOUS
<1> HIDE DEF q
<1>4. WellFormed(q)
  BY <1>1, <1>2 DEF WellFormed
<1>5. UNCHANGED <<tok, expired>>
  BY DEF tables
<1>6. Becomes(r, q)
  BY <1>1, <1>2, <1>3, <1>4, <1>5 DEF Becomes
<1> QED
  BY <1>6, OnlyRequest DEF TypeOK, history

LEMMA LoginLookupKeeps ==
    ASSUME TypeOK, SessionInv, NEW r \in Requests, LoginLookup(r)
    PROVE  TypeOK' /\ SessionInv'
<1>1. /\ req[r].op = "login" /\ req[r].step = "sent"
      /\ UNCHANGED <<tables, expired, jar, bearer, history>>
  BY DEF LoginLookup, At
<1>2. ASSUME NEW u \in Users, req' = [req EXCEPT ![r].step = "looked", ![r].user = u]
      PROVE  TypeOK' /\ SessionInv'
  <2> DEFINE q == [req[r] EXCEPT !.step = "looked", !.user = u]
  <2>1. /\ req[r] \in Request /\ WellFormed(req[r]) /\ req[r].purged \subseteq expired
        /\ req[r].reply = "set" => tok[req[r].fresh] # "free"
    BY RequestFacts
  <2>2. /\ q \in Request /\ q.step = "looked" /\ q.op = "login" /\ q.browser = req[r].browser
        /\ q.name = req[r].name /\ q.user = u /\ q.reply = req[r].reply
        /\ q.fresh = req[r].fresh /\ q.purged = req[r].purged
    BY <1>1, <2>1 DEF Request, Steps
  <2>3. req' = [req EXCEPT ![r] = q]
    BY <1>2 DEF TypeOK
  <2> HIDE DEF q
  <2>4. WellFormed(q)
    BY <1>1, <2>1, <2>2 DEF WellFormed
  <2>5. UNCHANGED <<tok, expired>>
    BY <1>1 DEF tables
  <2>6. Becomes(r, q)
    BY <2>1, <2>2, <2>3, <2>4, <2>5 DEF Becomes
  <2> QED
    BY <1>1, <2>6, OnlyRequest DEF TypeOK, history
<1>3. CASE req' = Answered(r)
  BY <1>1, <1>3, AnsweredKeeps
<1> QED
  BY <1>2, <1>3 DEF LoginLookup, Named

(* The purge of expired rows, committed now or with the rotation. *)
LEMMA RefreshLookupKeeps ==
    ASSUME TypeOK, SessionInv, NEW r \in Requests, RefreshLookup(r)
    PROVE  TypeOK' /\ SessionInv'
<1> DEFINE purge == {t \in expired : tok[t] = "live"}
           old == req[r].token
<1>1. /\ req[r].op = "refresh" /\ req[r].step = "sent"
      /\ UNCHANGED <<acct, name, stale, owner, root, expired, jar, bearer, history>>
  BY DEF RefreshLookup, At
<1>2. /\ req[r] \in Request /\ WellFormed(req[r]) /\ old \in Tokens
      /\ req[r].reply = "set" => tok[req[r].fresh] # "free"
  BY <1>1, RequestFacts
<1>3. purge \subseteq expired /\ purge \subseteq Tokens
  BY DEF TypeOK
<1>4. CASE tok[old] = "live" /\ old \notin purge
  <2> DEFINE q == [req[r] EXCEPT !.step = "looked", !.user = owner[old], !.purged = purge]
  <2>1. UNCHANGED tok
    BY <1>4 DEF RefreshLookup
  <2>2. req' = [req EXCEPT ![r] = q]
    BY <1>4 DEF RefreshLookup, TypeOK
  <2>3. owner[old] \in Users
    BY <1>2, <1>4 DEF SessionInv, RowInv
  <2>4. /\ q \in Request /\ q.step = "looked" /\ q.op = "refresh" /\ q.browser = req[r].browser
        /\ q.token = old /\ q.user = owner[old] /\ q.reply = req[r].reply
        /\ q.fresh = req[r].fresh /\ q.purged = purge
    BY <1>1, <1>2, <1>3, <2>3 DEF Request, Steps
  <2> HIDE DEF q
  <2>5. WellFormed(q)
    BY <1>1, <1>2, <2>3, <2>4 DEF WellFormed
  <2>6. Becomes(r, q)
    BY <1>1, <1>2, <1>3, <1>4, <2>1, <2>2, <2>4, <2>5 DEF Becomes
  <2> QED
    BY <1>1, <2>1, <2>6, OnlyRequest DEF TypeOK, history, tables
<1>5. CASE ~(tok[old] = "live" /\ old \notin purge)
  <2>1. /\ tok' = [x \in Tokens |-> IF x \in purge THEN "gone" ELSE tok[x]]
        /\ req' = Answered(r)
    BY <1>5 DEF RefreshLookup
  <2>2. /\ tok' \in [Tokens -> States]
        /\ \A t \in Tokens : /\ (tok'[t] = "free") <=> (tok[t] = "free")
                             /\ tok'[t] = "live" => tok[t] = "live"
                             /\ tok[t] = "live" /\ t \notin expired => tok'[t] = "live"
    BY <1>3, <2>1 DEF TypeOK, States
  <2> HIDE DEF purge
  <2>3. RowsPersist
    BY <1>1, <2>2 DEF RowsPersist
  <2>4. PICK q : Becomes(r, q)
    BY <1>1, <2>1, <2>3, AnsweredBecomes
  <2>5. req' \in [Requests -> Request] /\ RequestInv'
    BY <2>3, <2>4, OneRequest DEF SessionInv
  <2>6. TypeOK'
    BY <1>1, <2>2, <2>5 DEF TypeOK, history
  <2>7. JarInv' /\ NoOrphanSessions' /\ OneAccountEach'
    BY <1>1, <2>2 DEF SessionInv, JarInv, NoOrphanSessions, OneAccountEach, Named, TypeOK
  <2>8. RowInv'
    BY <1>1, <2>2 DEF SessionInv, RowInv
  <2>9. SessionSurvives'
    BY <1>1, <2>2 DEF SessionInv, SessionSurvives, Lineage, history
  <2> QED
    BY <2>5, <2>6, <2>7, <2>8, <2>9 DEF SessionInv
<1> QED
  BY <1>4, <1>5

(* What is looked up, or refused, without a row changing. *)
LEMMA LookupsKeep ==
    ASSUME TypeOK, SessionInv, NEW r \in Requests,
           \/ RegisterLookup(r) \/ RegisterFails(r) \/ WriteFails(r)
           \/ DeleteLookup(r) \/ DeleteLock(r) \/ Deadlock(r)
    PROVE  TypeOK' /\ SessionInv'
<1>1. UNCHANGED <<tables, expired, jar, bearer, history>>
  BY DEF RegisterLookup, RegisterFails, WriteFails, DeleteLookup, DeleteLock, Deadlock
<1>2. req[r].step # "idle"
  BY DEF RegisterLookup, RegisterFails, WriteFails, DeleteLookup, DeleteLock, Deadlock,
         WaitsFor, At
<1>3. CASE req' = Answered(r)
  BY <1>1, <1>2, <1>3, AnsweredKeeps
<1>4. CASE /\ req[r].op \in {"register", "delete"}
           /\ \E step \in {"looked", "locking"} : req' = [req EXCEPT ![r].step = step]
  BY <1>1, <1>2, <1>4, GoesOn
<1> QED
  BY <1>3, <1>4 DEF RegisterLookup, RegisterFails, WriteFails, DeleteLookup, DeleteLock,
                    Deadlock, At

-----------------------------------------------------------------------------
(* Commits. *)

(* The unique index: nobody else has the name. *)
LEMMA RegisterCommitKeeps ==
    ASSUME TypeOK, SessionInv, NEW r \in Requests, NEW u \in Users, RegisterCommit(r, u)
    PROVE  TypeOK' /\ SessionInv'
<1>1. /\ req[r].op = "register" /\ req[r].step = "looked"
      /\ Named(req[r].name) = {} /\ acct[u] = "free"
      /\ acct' = [acct EXCEPT ![u] = "live"]
      /\ name' = [name EXCEPT ![u] = req[r].name]
      /\ stale' = stale \ {u} /\ req' = Answered(r)
      /\ UNCHANGED <<tok, owner, root, expired, jar, bearer, used, out, raced>>
  BY DEF RegisterCommit, At, history
<1>2. RowsPersist
  BY <1>1 DEF RowsPersist
<1>3. req' \in [Requests -> Request] /\ RequestInv'
  <2>1. PICK q : Becomes(r, q)
    BY <1>1, <1>2, AnsweredBecomes
  <2> QED
    BY <1>2, <2>1, OneRequest DEF SessionInv
<1>4. req[r].name \in Names
  BY <1>1, RequestFacts DEF WellFormed
<1>5. /\ acct' \in [Users -> States] /\ name' \in [Users -> Names \cup {NoName}]
      /\ acct'[u] = "live" /\ name'[u] = req[r].name
      /\ \A v \in Users : v # u => acct'[v] = acct[v] /\ name'[v] = name[v]
  BY <1>1, <1>4 DEF TypeOK, States
<1>6. TypeOK'
  BY <1>1, <1>3, <1>5 DEF TypeOK
<1>7. OneAccountEach'
  <2> SUFFICES ASSUME NEW n \in Names, NEW v \in Named(n)', NEW w \in Named(n)'
               PROVE  v = w
    BY DEF OneAccountEach
  <2>1. v \in Users /\ acct'[v] = "live" /\ name'[v] = n
    BY DEF Named
  <2>2. w \in Users /\ acct'[w] = "live" /\ name'[w] = n
    BY DEF Named
  <2>3. CASE v # u /\ w # u
    BY <1>5, <2>1, <2>2, <2>3 DEF Named, SessionInv, OneAccountEach
  <2>4. CASE v = u \/ w = u
    <3>1. n = req[r].name
      BY <1>5, <2>1, <2>2, <2>4
    <3>2. \A x \in Users : x # u => ~(acct'[x] = "live" /\ name'[x] = n)
      BY <1>1, <1>5, <3>1 DEF Named
    <3> QED
      BY <2>1, <2>2, <3>2
  <2> QED
    BY <2>3, <2>4
<1>8. JarInv' /\ NoOrphanSessions' /\ RowInv'
  <2>1. \A v \in Users : /\ acct[v] # "free" => acct'[v] # "free"
                         /\ acct[v] = "live" => acct'[v] = "live"
    BY <1>1, <1>5
  <2>2. JarInv' /\ RowInv'
    BY <1>1, <2>1 DEF SessionInv, JarInv, RowInv
  <2>3. \A t \in Tokens : tok[t] = "live" => owner[t] \in Users
    BY DEF SessionInv, RowInv
  <2>4. NoOrphanSessions'
    BY <1>1, <2>1, <2>3 DEF SessionInv, NoOrphanSessions
  <2> QED
    BY <2>2, <2>4
<1>9. SessionSurvives'
  <2> SUFFICES ASSUME NEW l \in Tokens, root[l] = l, acct'[owner[l]] = "live",
                      Lineage(l) \cap (out \cup expired) = {}
               PROVE  \E t \in Lineage(l) : tok[t] = "live"
    BY <1>1 DEF SessionSurvives, Lineage
  <2>1. tok[l] # "free"
    BY ConstantsDistinct DEF SessionInv, RowInv
  <2>2. owner[l] \in Users /\ acct[owner[l]] # "free"
    BY <2>1 DEF SessionInv, RowInv
  <2>3. acct[owner[l]] = "live"
    BY <1>1, <1>5, <2>2
  <2> QED
    BY <2>3 DEF SessionInv, SessionSurvives
<1> QED
  BY <1>3, <1>6, <1>7, <1>8, <1>9 DEF SessionInv

(* A request that is answered with the cookie of a new row. *)
LEMMA AcceptedBecomes ==
    ASSUME TypeOK, SessionInv, RowsPersist, NEW r \in Requests, NEW t \in Tokens,
           req[r].op \in {"login", "refresh"}, req[r].step = "looked",
           req' = Accepted(r, t), tok'[t] # "free"
    PROVE  \E q : Becomes(r, q)
<1> DEFINE q == [req[r] EXCEPT !.step = "replied", !.purged = {},
                               !.reply = "set", !.fresh = t]
<1>1. req[r] \in Request /\ WellFormed(req[r])
  BY RequestFacts
<1>2. req' = [req EXCEPT ![r] = q]
  BY DEF Accepted
<1>3. /\ q \in Request /\ q.step = "replied" /\ q.op = req[r].op
      /\ q.browser = req[r].browser /\ q.name = req[r].name /\ q.user = req[r].user
      /\ q.token = req[r].token /\ q.reply = "set" /\ q.fresh = t /\ q.purged = {}
  BY <1>1 DEF Request, Steps
<1> HIDE DEF q
<1>4. WellFormed(q)
  BY <1>1, <1>3 DEF WellFormed
<1>5. q.op \in {"refresh", "logout"} => tok'[q.token] # "free"
  BY <1>3, RequestFacts DEF RowsPersist
<1> QED
  BY <1>2, <1>3, <1>4, <1>5 DEF Becomes

(* A new row t of account u, in the lineage l0, while other rows may go. *)
LEMMA NewRow ==
    ASSUME TypeOK, SessionInv, NEW t \in Tokens, NEW u \in Users, NEW l0 \in Tokens,
           tok[t] = "free", acct[u] = "live",
           tok' \in [Tokens -> States], tok'[t] = "live",
           \A x \in Tokens : x # t => /\ (tok'[x] = "free") <=> (tok[x] = "free")
                                      /\ tok'[x] = "live" => tok[x] = "live"
                                      /\ tok[x] = "live" /\ x \notin expired
                                            => tok'[x] = "live" \/ root[x] = l0,
           owner' = [owner EXCEPT ![t] = u], root' = [root EXCEPT ![t] = l0],
           l0 # t => tok[l0] # "free" /\ owner[l0] = u /\ root[l0] \in Tokens,
           UNCHANGED <<acct, name, expired, jar, bearer, out>>
    PROVE  /\ RowsPersist /\ JarInv' /\ RowInv'
           /\ OneAccountEach' /\ NoOrphanSessions' /\ SessionSurvives'
<1>1. /\ owner'[t] = u /\ root'[t] = l0
      /\ \A x \in Tokens : x # t => owner'[x] = owner[x] /\ root'[x] = root[x]
  BY DEF TypeOK
<1>2. root[t] = NoToken
  BY DEF SessionInv, RowInv
<1>3. RowsPersist
  BY <1>1 DEF RowsPersist
<1>4. JarInv'
  BY <1>3 DEF SessionInv, JarInv, TypeOK, RowsPersist
<1>5. RowInv'
  <2> SUFFICES ASSUME NEW x \in Tokens
               PROVE  /\ tok'[x] = "free" => root'[x] = NoToken /\ x \notin expired'
                      /\ tok'[x] # "free" => /\ owner'[x] \in Users /\ acct[owner'[x]] # "free"
                                             /\ root'[x] \in Tokens /\ tok'[root'[x]] # "free"
                                             /\ owner'[root'[x]] = owner'[x]
    BY DEF RowInv
  <2>1. CASE x = t
    BY <1>1, <2>1
  <2>2. CASE x # t /\ tok[x] = "free"
    BY <1>1, <2>2 DEF SessionInv, RowInv
  <2>3. CASE x # t /\ tok[x] # "free"
    <3>1. /\ owner[x] \in Users /\ acct[owner[x]] # "free"
          /\ root[x] \in Tokens /\ tok[root[x]] # "free" /\ owner[root[x]] = owner[x]
      BY <2>3 DEF SessionInv, RowInv
    <3> QED
      BY <1>1, <2>3, <3>1
  <2> QED
    BY <2>1, <2>2, <2>3
<1>6. OneAccountEach'
  BY DEF SessionInv, OneAccountEach, Named
<1>7. NoOrphanSessions'
  BY <1>1 DEF SessionInv, NoOrphanSessions
<1>8. SessionSurvives'
  <2> SUFFICES ASSUME NEW l \in Tokens, root'[l] = l, acct[owner'[l]] = "live",
                      \A x \in Tokens : root'[x] = l => x \notin out \cup expired
               PROVE  \E x \in Tokens : root'[x] = l /\ tok'[x] = "live"
    BY DEF SessionSurvives, Lineage
  <2>1. CASE l = l0
    BY <1>1, <2>1
  <2>2. CASE l # l0
    <3>1. l # t /\ root[l] = l /\ owner'[l] = owner[l]
      BY <1>1, <2>2
    <3>2. \A x \in Tokens : root[x] = l => x # t /\ root'[x] = l
      BY <1>1, <1>2, ConstantsDistinct
    <3>3. \E x \in Tokens : root[x] = l /\ tok[x] = "live"
      BY <3>1, <3>2 DEF SessionInv, SessionSurvives, Lineage
    <3> QED
      BY <2>2, <3>2, <3>3
  <2> QED
    BY <2>1, <2>2
<1> QED
  BY <1>3, <1>4, <1>5, <1>6, <1>7, <1>8

LEMMA LoginCommitKeeps ==
    ASSUME TypeOK, SessionInv, NEW r \in Requests, NEW t \in Tokens, LoginCommit(r, t)
    PROVE  TypeOK' /\ SessionInv'
<1> DEFINE u == req[r].user
<1>1. /\ req[r].op = "login" /\ req[r].step = "looked" /\ acct[u] = "live" /\ tok[t] = "free"
      /\ tok' = [tok EXCEPT ![t] = "live"] /\ owner' = [owner EXCEPT ![t] = u]
      /\ root' = [root EXCEPT ![t] = t] /\ req' = Accepted(r, t)
      /\ stale' = stale \ {u}
      /\ UNCHANGED <<acct, name, expired, jar, bearer, used, out, raced>>
  BY DEF LoginCommit, At, history
<1>2. u \in Users
  BY <1>1, RequestFacts DEF WellFormed
<1>3. /\ tok' \in [Tokens -> States] /\ tok'[t] = "live"
      /\ \A x \in Tokens : x # t => tok'[x] = tok[x]
      /\ owner' \in [Tokens -> Users \cup {NoUser}] /\ root' \in [Tokens -> Tokens \cup {NoToken}]
  BY <1>1, <1>2 DEF TypeOK, States
<1> HIDE DEF u
<1>4. /\ RowsPersist /\ JarInv' /\ RowInv'
      /\ OneAccountEach' /\ NoOrphanSessions' /\ SessionSurvives'
  BY <1>1, <1>2, <1>3, NewRow
<1>5. req' \in [Requests -> Request] /\ RequestInv'
  <2>1. PICK q : Becomes(r, q)
    BY <1>1, <1>3, <1>4, AcceptedBecomes
  <2> QED
    BY <1>4, <2>1, OneRequest DEF SessionInv
<1>6. TypeOK'
  BY <1>1, <1>3, <1>5 DEF TypeOK
<1> QED
  BY <1>4, <1>5, <1>6 DEF SessionInv

(* What a rotation deletes is replaced, or was expired. *)
LEMMA RotateKeeps ==
    ASSUME TypeOK, SessionInv, NEW r \in Requests, NEW t \in Tokens, Rotate(r, t)
    PROVE  TypeOK' /\ SessionInv'
<1> DEFINE u == req[r].user
           old == req[r].token
           purged == req[r].purged
<1>1. /\ req[r].op = "refresh" /\ req[r].step = "looked" /\ acct[u] = "live" /\ tok[t] = "free"
      /\ tok' = [x \in Tokens |-> IF x = t THEN "live"
                                  ELSE IF x = old \/ x \in purged THEN "gone" ELSE tok[x]]
      /\ owner' = [owner EXCEPT ![t] = u] /\ root' = [root EXCEPT ![t] = root[old]]
      /\ used' = [used EXCEPT ![old] = @ + 1] /\ req' = Accepted(r, t)
      /\ UNCHANGED <<acct, name, stale, expired, jar, bearer, out, raced>>
  BY DEF Rotate, At
<1>2. /\ u \in Users /\ old \in Tokens /\ tok[old] # "free" /\ u = owner[old]
      /\ purged \subseteq expired
  BY <1>1, RequestFacts DEF WellFormed, At
<1> HIDE DEF u, old, purged
<1>3. /\ root[old] \in Tokens /\ root[old] # t /\ tok[root[old]] # "free"
      /\ owner[root[old]] = u /\ root[root[old]] \in Tokens
  BY <1>1, <1>2 DEF SessionInv, RowInv
<1>4. PICK l0 \in Tokens : l0 = root[old]
  BY <1>3
<1>5. /\ root' = [root EXCEPT ![t] = l0]
      /\ l0 # t => tok[l0] # "free" /\ owner[l0] = u /\ root[l0] \in Tokens
  BY <1>1, <1>3, <1>4
<1>6. \A x \in purged : x \in Tokens /\ tok[x] # "free"
  BY <1>2 DEF SessionInv, RowInv, TypeOK
<1>7. /\ tok' \in [Tokens -> States] /\ tok'[t] = "live"
      /\ \A x \in Tokens : x # t => /\ (tok'[x] = "free") <=> (tok[x] = "free")
                                    /\ tok'[x] = "live" => tok[x] = "live"
                                    /\ tok[x] = "live" /\ x \notin expired
                                          => tok'[x] = "live" \/ root[x] = l0
      /\ owner' \in [Tokens -> Users \cup {NoUser}] /\ root' \in [Tokens -> Tokens \cup {NoToken}]
      /\ used' \in [Tokens -> Nat]
  BY <1>1, <1>2, <1>3, <1>6, <1>4 DEF TypeOK, States
<1>8. /\ RowsPersist /\ JarInv' /\ RowInv'
      /\ OneAccountEach' /\ NoOrphanSessions' /\ SessionSurvives'
  <2>1. UNCHANGED <<acct, name, expired, jar, bearer, out>>
    BY <1>1
  <2>2. tok[t] = "free" /\ acct[u] = "live" /\ owner' = [owner EXCEPT ![t] = u]
    BY <1>1
  <2>3. \A x \in Tokens : x # t => /\ (tok'[x] = "free") <=> (tok[x] = "free")
                                   /\ tok'[x] = "live" => tok[x] = "live"
                                   /\ tok[x] = "live" /\ x \notin expired
                                         => tok'[x] = "live" \/ root[x] = l0
    BY <1>7
  <2>4. tok' \in [Tokens -> States] /\ tok'[t] = "live" /\ u \in Users
    BY <1>2, <1>7
  <2> QED
    BY <1>5, <2>1, <2>2, <2>3, <2>4, NewRow, ZenonT(30)
<1>9. req' \in [Requests -> Request] /\ RequestInv'
  <2>1. PICK q : Becomes(r, q)
    BY <1>1, <1>7, <1>8, AcceptedBecomes
  <2> QED
    BY <1>8, <2>1, OneRequest DEF SessionInv
<1>10. TypeOK'
  BY <1>1, <1>7, <1>9 DEF TypeOK
<1> QED
  BY <1>8, <1>9, <1>10 DEF SessionInv

-----------------------------------------------------------------------------
(* Rows that only go. *)

(* Nothing is written: rows that go are in lineages that are excused. *)
LEMMA RowsGo ==
    ASSUME TypeOK, SessionInv,
           tok' \in [Tokens -> States], acct' \in [Users -> States],
           \A x \in Tokens : /\ (tok'[x] = "free") <=> (tok[x] = "free")
                             /\ tok'[x] = "live" => /\ tok[x] = "live"
                                                    /\ acct'[owner[x]] = acct[owner[x]]
                             /\ tok[x] = "live" => \/ tok'[x] = "live"
                                                   \/ x \in out'
                                                   \/ acct'[owner[x]] # "live",
           \A v \in Users : /\ acct'[v] = "live" => acct[v] = "live"
                            /\ acct[v] # "free" => acct'[v] # "free",
           out \subseteq out', UNCHANGED <<name, owner, root, expired, jar, bearer>>
    PROVE  /\ RowsPersist /\ JarInv' /\ RowInv'
           /\ OneAccountEach' /\ NoOrphanSessions' /\ SessionSurvives'
<1>1. RowsPersist
  BY DEF RowsPersist
<1>2. JarInv'
  BY DEF SessionInv, JarInv, TypeOK
<1>3. RowInv'
  BY DEF SessionInv, RowInv
<1>4. OneAccountEach'
  BY DEF SessionInv, OneAccountEach, Named
<1>5. NoOrphanSessions'
  BY DEF SessionInv, NoOrphanSessions
<1>6. SessionSurvives'
  <2> SUFFICES ASSUME NEW l \in Tokens, root[l] = l, acct'[owner[l]] = "live",
                      \A x \in Tokens : root[x] = l => x \notin out' \cup expired
               PROVE  \E x \in Tokens : root[x] = l /\ tok'[x] = "live"
    BY DEF SessionSurvives, Lineage
  <2>1. \A x \in Tokens : root[x] = l => tok[x] # "free" /\ owner[x] = owner[l]
    BY ConstantsDistinct DEF SessionInv, RowInv
  <2>2. owner[l] \in Users /\ acct[owner[l]] = "live"
    BY <2>1 DEF SessionInv, RowInv
  <2>3. PICK x \in Tokens : root[x] = l /\ tok[x] = "live"
    BY <2>2 DEF SessionInv, SessionSurvives, Lineage
  <2> QED
    BY <2>1, <2>3
<1> QED
  BY <1>1, <1>2, <1>3, <1>4, <1>5, <1>6

LEMMA LogoutKeeps ==
    ASSUME TypeOK, SessionInv, NEW r \in Requests, Logout(r)
    PROVE  TypeOK' /\ SessionInv'
<1> DEFINE t == req[r].token
           q == [req[r] EXCEPT !.step = "replied", !.reply = "clear"]
<1>1. /\ req[r].op = "logout" /\ req[r].step = "sent"
      /\ tok' = [tok EXCEPT ![t] = "gone"] /\ out' = out \cup {t}
      /\ req' = [req EXCEPT ![r] = q]
      /\ UNCHANGED <<acct, name, stale, owner, root, expired, jar, bearer, used, raced>>
  BY DEF Logout, At
<1>2. /\ req[r] \in Request /\ WellFormed(req[r]) /\ req[r].purged \subseteq expired
      /\ t \in Tokens /\ tok[t] # "free"
  BY <1>1, RequestFacts
<1>3. /\ q \in Request /\ q.step = "replied" /\ q.op = "logout" /\ q.browser = req[r].browser
      /\ q.token = t /\ q.reply = "clear" /\ q.purged = req[r].purged
  BY <1>1, <1>2 DEF Request, Steps
<1> HIDE DEF t, q
<1>4. /\ tok' \in [Tokens -> States] /\ acct' \in [Users -> States] /\ tok'[t] = "gone"
      /\ \A x \in Tokens : x # t => tok'[x] = tok[x]
  BY <1>1, <1>2 DEF TypeOK, States
<1>5. /\ RowsPersist /\ JarInv' /\ RowInv'
      /\ OneAccountEach' /\ NoOrphanSessions' /\ SessionSurvives'
  BY <1>1, <1>2, <1>4, RowsGo
<1>6. WellFormed(q)
  BY <1>1, <1>2, <1>3 DEF WellFormed
<1>7. Becomes(r, q)
  BY <1>1, <1>2, <1>3, <1>4, <1>6 DEF Becomes
<1>8. req' \in [Requests -> Request] /\ RequestInv'
  BY <1>5, <1>7, OneRequest DEF SessionInv
<1>9. TypeOK'
  BY <1>1, <1>2, <1>4, <1>8 DEF TypeOK
<1> QED
  BY <1>5, <1>8, <1>9 DEF SessionInv

(* An account goes with its sessions. *)
LEMMA DeleteCommitKeeps ==
    ASSUME TypeOK, SessionInv, NEW r \in Requests, DeleteCommit(r)
    PROVE  TypeOK' /\ SessionInv'
<1> DEFINE u == req[r].user
<1>1. /\ req[r].op = "delete" /\ req[r].step = "locking"
      /\ acct' = [acct EXCEPT ![u] = "gone"]
      /\ tok' = [t \in Tokens |-> IF t \in TokensOf(u) THEN "gone" ELSE tok[t]]
      /\ req' = Answered(r)
      /\ UNCHANGED <<name, stale, owner, root, expired, jar, bearer, used, out, raced>>
  BY DEF DeleteCommit, At, history
<1>2. u \in Users
  BY <1>1, RequestFacts DEF WellFormed
<1> HIDE DEF u
<1>3. /\ acct' \in [Users -> States] /\ acct'[u] = "gone"
      /\ \A v \in Users : v # u => acct'[v] = acct[v]
  BY <1>1, <1>2 DEF TypeOK, States
<1>4. /\ tok' \in [Tokens -> States]
      /\ \A x \in Tokens : IF tok[x] = "live" /\ owner[x] = u THEN tok'[x] = "gone"
                           ELSE tok'[x] = tok[x]
  BY <1>1 DEF TypeOK, TokensOf, States
<1>5. \A x \in Tokens : tok[x] # "free" => owner[x] \in Users
  BY DEF SessionInv, RowInv
<1>6. /\ RowsPersist /\ JarInv' /\ RowInv'
      /\ OneAccountEach' /\ NoOrphanSessions' /\ SessionSurvives'
  BY <1>1, <1>3, <1>4, <1>5, RowsGo
<1>7. req' \in [Requests -> Request] /\ RequestInv'
  <2>1. PICK q : Becomes(r, q)
    BY <1>1, <1>6, AnsweredBecomes
  <2> QED
    BY <1>6, <2>1, OneRequest DEF SessionInv
<1>8. TypeOK'
  BY <1>1, <1>3, <1>4, <1>7 DEF TypeOK
<1> QED
  BY <1>6, <1>7, <1>8 DEF SessionInv

-----------------------------------------------------------------------------
(* The environment. *)

LEMMA DeliverKeeps ==
    ASSUME TypeOK, SessionInv, NEW r \in Requests, Deliver(r) \/ Lose(r)
    PROVE  TypeOK' /\ SessionInv'
<1>1. /\ req' = [req EXCEPT ![r] = Idle]
      /\ UNCHANGED <<acct, name, stale, tok, owner, root, expired, used, out, raced>>
  BY DEF Deliver, Lose, tables, history
<1>2. RowsPersist /\ Becomes(r, Idle)
  BY <1>1, IdleRequest DEF RowsPersist, Becomes
<1>3. req' \in [Requests -> Request] /\ RequestInv'
  BY <1>2, OneRequest DEF SessionInv
<1>4. /\ jar' \in [Browsers -> Tokens \cup {NoToken}]
      /\ bearer' \in [Browsers -> Users \cup {NoUser}] /\ JarInv'
  <2> DEFINE b == req[r].browser
  <2>1. CASE UNCHANGED <<jar, bearer>>
    BY <1>1, <2>1 DEF TypeOK, SessionInv, JarInv
  <2>2. CASE /\ req[r].reply = "set" /\ req[r].step = "replied"
             /\ jar' = [jar EXCEPT ![b] = req[r].fresh]
             /\ bearer' = [bearer EXCEPT ![b] = req[r].user]
    <3>1. /\ req[r].fresh \in Tokens /\ req[r].user \in Users /\ b \in Browsers
          /\ tok[req[r].fresh] # "free"
      BY <2>2, RequestFacts DEF WellFormed
    <3> QED
      BY <1>1, <2>2, <3>1 DEF TypeOK, SessionInv, JarInv
  <2>3. CASE /\ req[r].step = "replied"
             /\ jar' = [jar EXCEPT ![b] = NoToken]
             /\ bearer' = [bearer EXCEPT ![b] = NoUser]
    BY <1>1, <2>3 DEF TypeOK, SessionInv, JarInv
  <2> QED
    BY <2>1, <2>2, <2>3 DEF Deliver, Lose
<1>5. TypeOK'
  BY <1>1, <1>3, <1>4 DEF TypeOK
<1>6. RowInv' /\ OneAccountEach' /\ NoOrphanSessions' /\ SessionSurvives'
  BY <1>1 DEF SessionInv, RowInv, OneAccountEach, Named, NoOrphanSessions,
              SessionSurvives, Lineage
<1> QED
  BY <1>3, <1>4, <1>5, <1>6 DEF SessionInv

LEMMA ExpireKeeps ==
    ASSUME TypeOK, SessionInv, NEW t \in Tokens, Expire(t)
    PROVE  TypeOK' /\ SessionInv'
<1>1. /\ tok[t] = "live" /\ expired' = expired \cup {t}
      /\ UNCHANGED <<acct, name, stale, tok, owner, root, req, jar, bearer, used, out, raced>>
  BY DEF Expire, tables, history
<1>2. TypeOK'
  BY <1>1 DEF TypeOK
<1>3. RequestInv' /\ JarInv' /\ OneAccountEach' /\ NoOrphanSessions'
  BY <1>1 DEF SessionInv, RequestInv, At, JarInv, OneAccountEach, Named, NoOrphanSessions
<1>4. RowInv' /\ SessionSurvives'
  BY <1>1 DEF SessionInv, RowInv, SessionSurvives, Lineage
<1> QED
  BY <1>2, <1>3, <1>4 DEF SessionInv

-----------------------------------------------------------------------------
(* The inductive invariant, and the theorems that follow from it. *)

LEMMA InitEstablishes == Init => TypeOK /\ SessionInv
<1> SUFFICES ASSUME Init PROVE TypeOK /\ SessionInv
  OBVIOUS
<1>1. \A r \in Requests : req[r] = Idle
  BY DEF Init
<1>2. req \in [Requests -> Request]
  BY IdleRequest DEF Init
<1>3. TypeOK
  BY <1>2 DEF Init, TypeOK, States
<1>4. RequestInv
  BY <1>1, IdleRequest DEF RequestInv, At
<1>5. JarInv /\ RowInv /\ OneAccountEach /\ NoOrphanSessions
  BY DEF Init, JarInv, RowInv, OneAccountEach, Named, NoOrphanSessions
<1>6. SessionSurvives
  BY ConstantsDistinct DEF Init, SessionSurvives
<1> QED
  BY <1>3, <1>4, <1>5, <1>6 DEF SessionInv

LEMMA NextKeeps == TypeOK /\ SessionInv /\ [Next]_vars => TypeOK' /\ SessionInv'
<1> SUFFICES ASSUME TypeOK, SessionInv, [Next]_vars PROVE TypeOK' /\ SessionInv'
  OBVIOUS
<1>1. ASSUME NEW b \in Browsers, BrowserStep(b)
      PROVE  TypeOK' /\ SessionInv'
  BY <1>1, SendNamedKeeps, SendCookieKeeps, SendDeleteKeeps DEF BrowserStep
<1>2. ASSUME NEW r \in Requests, RequestStep(r) \/ Lose(r)
      PROVE  TypeOK' /\ SessionInv'
  <2>1. CASE \/ RegisterLookup(r) \/ RegisterFails(r) \/ WriteFails(r)
             \/ DeleteLookup(r) \/ DeleteLock(r) \/ Deadlock(r)
    BY <2>1, LookupsKeep
  <2>2. CASE \E u \in Users : RegisterCommit(r, u)
    BY <2>2, RegisterCommitKeeps
  <2>3. CASE LoginLookup(r) \/ RefreshLookup(r)
    BY <2>3, LoginLookupKeeps, RefreshLookupKeeps
  <2>4. CASE \E t \in Tokens : LoginCommit(r, t) \/ Rotate(r, t)
    BY <2>4, LoginCommitKeeps, RotateKeeps
  <2>5. CASE Logout(r) \/ DeleteCommit(r)
    BY <2>5, LogoutKeeps, DeleteCommitKeeps
  <2>6. CASE Deliver(r) \/ Lose(r)
    BY <2>6, DeliverKeeps
  <2> QED
    BY <1>2, <2>1, <2>2, <2>3, <2>4, <2>5, <2>6 DEF RequestStep
<1>3. ASSUME NEW t \in Tokens, Expire(t)
      PROVE  TypeOK' /\ SessionInv'
  BY <1>3, ExpireKeeps
<1>4. CASE UNCHANGED vars
  <2>1. UNCHANGED <<acct, name, stale, tok, owner, root, expired, req, jar, bearer,
                    used, out, raced>>
    BY <1>4 DEF vars
  <2>2. TypeOK' /\ RequestInv' /\ JarInv' /\ RowInv'
    BY <2>1 DEF TypeOK, SessionInv, RequestInv, At, JarInv, RowInv
  <2>3. OneAccountEach' /\ NoOrphanSessions' /\ SessionSurvives'
    BY <2>1 DEF SessionInv, OneAccountEach, Named, NoOrphanSessions, SessionSurvives, Lineage
  <2> QED
    BY <2>2, <2>3 DEF SessionInv
<1> QED
  BY <1>1, <1>2, <1>3, <1>4 DEF Next

THEOREM Inductive == Spec => [](TypeOK /\ SessionInv)
  BY InitEstablishes, NextKeeps, PTL DEF Spec

(* Every variable keeps its type: a cookie is a token that was written, *)
(* and whoever is signed in is a user.                                  *)
THEOREM TypeCorrect == Spec => []TypeOK
  BY Inductive, PTL

(* However logins and refreshes race with the deletion of their account, *)
(* no session outlives it (models.py, ON DELETE CASCADE).                *)
THEOREM SessionsDieWithAccounts == Spec => []NoOrphanSessions
<1>1. SessionInv => NoOrphanSessions
  BY DEF SessionInv
<1> QED
  BY <1>1, Inductive, PTL

(* Registrations that both passed the lookup end in one account (the unique *)
(* index of models.py, register_user).                                      *)
THEOREM NamesAreUnique == Spec => []UniqueNames
<1>1. SessionInv => UniqueNames
  <2> SUFFICES ASSUME SessionInv, NEW n \in Names PROVE Cardinality(Named(n)) <= 1
    BY DEF UniqueNames
  <2>1. CASE Named(n) = {}
    BY <2>1, FS_EmptySet
  <2>2. CASE Named(n) # {}
    <3>1. PICK u : u \in Named(n)
      BY <2>2
    <3>2. Named(n) = {u}
      BY <3>1 DEF SessionInv, OneAccountEach
    <3> QED
      BY <3>2, FS_Singleton
  <2> QED
    BY <2>1, <2>2
<1> QED
  BY <1>1, Inductive, PTL

(* Whatever is lost, rolled back or raced, a rotation leaves its login a   *)
(* live token (refresh_access_token: one commit for insert and delete).    *)
THEOREM RotationLosesNothing == Spec => []SessionSurvives
<1>1. SessionInv => SessionSurvives
  BY DEF SessionInv
<1> QED
  BY <1>1, Inductive, PTL

-----------------------------------------------------------------------------
(* Cookies: what SingleFlightIsSafe and JarHolds rest on. *)

(* A request that carries no cookie and was given none. *)
Blank(q) == q.token = NoToken /\ q.reply = "none" /\ q.op \notin {"refresh", "logout"}

(* A request keeps its cookies, and reads a token only while it is live. *)
Carried(p) ==
    \/ Blank(req[p]) /\ Blank(req'[p])
    \/ /\ req'[p].op = req[p].op /\ req'[p].browser = req[p].browser
       /\ req'[p].token = req[p].token
       /\ req'[p].reply = req[p].reply /\ req'[p].fresh = req[p].fresh
       /\ req[p].reply # "none" => req'[p].step = "replied"
       /\ req'[p].op = "refresh" /\ req'[p].step = "looked" =>
             req[p].step = "looked" \/ tok'[req[p].token] = "live"

(* The step leaves t unspent. *)
UnspentThen(t) == tok'[t] = "live" \/ t \in expired' \/ acct'[owner'[t]] = "gone"

(* No cookie changes hands, and rows only go with what expired or was deleted. *)
Quiet ==
    /\ \A t \in Tokens : /\ tok'[t] = "live" => tok[t] = "live"
                         /\ tok[t] = "gone" => tok'[t] = "gone"
                         /\ tok[t] # "free" /\ Unspent(t) => UnspentThen(t)
    /\ \A p \in Requests : Carried(p)
    /\ UNCHANGED <<root, out, raced, jar>>

(* Request r is given the new token t of the login l0, for the one it spends. *)
Accepts(r, t, l0) ==
    /\ tok[t] = "free" /\ tok'[t] = "live" /\ root' = [root EXCEPT ![t] = l0]
    /\ \A x \in Tokens : x # t =>
          /\ tok'[x] = "live" => tok[x] = "live" /\ x # req[r].token
          /\ tok[x] = "gone" => tok'[x] = "gone"
          /\ tok[x] # "free" /\ Unspent(x) => UnspentThen(x) \/ x = req[r].token
    /\ \A p \in Requests : p # r => req'[p] = req[p]
    /\ req[r].step = "looked" /\ req'[r].step = "replied"
    /\ req'[r].op = req[r].op /\ req'[r].browser = req[r].browser
    /\ req'[r].token = req[r].token /\ req'[r].reply = "set" /\ req'[r].fresh = t
    /\ \/ req[r].op = "login" /\ l0 = t
       \/ req[r].op = "refresh" /\ l0 = root[req[r].token]
    /\ UNCHANGED <<jar, out, raced>>

(* The cookies that requests and jars hold are of rows. *)
LEMMA CookiesOfRows ==
    ASSUME TypeOK, SessionInv, CookieInv
    PROVE  /\ \A r \in Requests : req[r].token # NoToken =>
                 /\ req[r].token \in Tokens /\ tok[req[r].token] # "free"
                 /\ root[req[r].token] \in Tokens
           /\ \A r \in Requests : req[r].reply = "set" =>
                 /\ req[r].fresh \in Tokens /\ tok[req[r].fresh] # "free"
                 /\ req[r].fresh # NoToken
           /\ \A b \in Browsers : jar[b] # NoToken =>
                 /\ jar[b] \in Tokens /\ tok[jar[b]] # "free" /\ root[jar[b]] \in Tokens
<1>1. /\ \A r \in Requests : req[r].token # NoToken =>
            req[r].token \in Tokens /\ tok[req[r].token] # "free"
      /\ \A r \in Requests : req[r].reply = "set" =>
            req[r].fresh \in Tokens /\ tok[req[r].fresh] # "free"
  BY RequestFacts DEF CookieInv, WellFormed
<1>2. \A b \in Browsers : jar[b] # NoToken => jar[b] \in Tokens /\ tok[jar[b]] # "free"
  BY DEF TypeOK, SessionInv, JarInv
<1>3. \A t \in Tokens : tok[t] # "free" => root[t] \in Tokens
  BY DEF SessionInv, RowInv
<1> QED
  BY <1>1, <1>2, <1>3, ConstantsDistinct

(* A new row joins one lineage; a new login had none. *)
LEMMA NewLineage ==
    ASSUME TypeOK, SessionInv, NEW t \in Tokens, NEW l0 \in Tokens,
           tok[t] = "free", root' = [root EXCEPT ![t] = l0]
    PROVE  /\ \A l \in Tokens : t \notin Lineage(l)
           /\ \A l \in Tokens : l # l0 => Lineage(l)' = Lineage(l)
           /\ Lineage(l0)' = Lineage(l0) \cup {t}
           /\ Lineage(t) = {}
           /\ \A x \in Tokens : x # t => root'[x] = root[x]
           /\ root'[t] = l0
<1>1. root[t] = NoToken /\ root'[t] = l0 /\ \A x \in Tokens : x # t => root'[x] = root[x]
  BY DEF TypeOK, SessionInv, RowInv
<1>2. Lineage(t) = {}
  BY ConstantsDistinct DEF SessionInv, RowInv, Lineage
<1>3. \A l \in Tokens : t \notin Lineage(l)
  BY <1>1, ConstantsDistinct DEF Lineage
<1> QED
  BY <1>1, <1>2, <1>3 DEF Lineage

-----------------------------------------------------------------------------
(* The actions, as what they do to cookies. *)

(* A step of request r that leaves the cookies of all requests alone. *)
SameCookies(r) ==
    /\ \A p \in Requests : p # r => req'[p] = req[p]
    /\ req'[r].op = req[r].op /\ req'[r].browser = req[r].browser
    /\ req'[r].token = req[r].token
    /\ req'[r].reply = req[r].reply /\ req'[r].fresh = req[r].fresh

LEMMA AnsweredEffect ==
    ASSUME TypeOK, NEW r \in Requests, req' = Answered(r)
    PROVE  SameCookies(r) /\ req'[r].step = "replied"
<1>1. req[r] \in Request /\ req \in [Requests -> Request]
  BY DEF TypeOK
<1>2. req' = [req EXCEPT ![r] = [req[r] EXCEPT !.step = "replied", !.purged = {}]]
  BY DEF Answered
<1> QED
  BY <1>1, <1>2 DEF Request, SameCookies

LEMMA AcceptedEffect ==
    ASSUME TypeOK, NEW r \in Requests, NEW t \in Tokens, req' = Accepted(r, t)
    PROVE  /\ \A p \in Requests : p # r => req'[p] = req[p]
           /\ req'[r].step = "replied"
           /\ req'[r].op = req[r].op /\ req'[r].browser = req[r].browser
           /\ req'[r].token = req[r].token
           /\ req'[r].reply = "set" /\ req'[r].fresh = t
<1>1. req[r] \in Request /\ req \in [Requests -> Request]
  BY DEF TypeOK
<1>2. req' = [req EXCEPT ![r] = [req[r] EXCEPT !.step = "replied", !.purged = {},
                                               !.reply = "set", !.fresh = t]]
  BY DEF Accepted
<1> QED
  BY <1>1, <1>2 DEF Request

LEMMA CarriedOn ==
    ASSUME CookieInv, NEW r \in Requests, SameCookies(r), req[r].step # "replied",
           req'[r].op = "refresh" /\ req'[r].step = "looked" =>
              req[r].step = "looked" \/ tok'[req[r].token] = "live"
    PROVE  \A p \in Requests : Carried(p)
<1>1. \A p \in Requests : req[p].reply # "none" => req[p].step = "replied"
  BY DEF CookieInv
<1> QED
  BY <1>1 DEF Carried, SameCookies

(* Rows that stay, and accounts that do not come back. *)
LEMMA StaysUnspent ==
    ASSUME TypeOK, SessionInv, UNCHANGED owner, expired \subseteq expired',
           \A u \in Users : acct[u] = "gone" => acct'[u] = "gone",
           NEW t \in Tokens, tok[t] # "free", Unspent(t),
           tok[t] = "live" => tok'[t] = "live" \/ t \in expired' \/ acct'[owner[t]] = "gone"
    PROVE  UnspentThen(t)
<1>1. owner[t] \in Users
  BY DEF SessionInv, RowInv
<1> QED
  BY <1>1 DEF Unspent, UnspentThen

(* Lookups, refusals, and requests sent without a cookie touch no row. *)
LEMMA LookupsAreQuiet ==
    ASSUME TypeOK, SessionInv, CookieInv, NEW r \in Requests,
           \/ RegisterLookup(r) \/ RegisterFails(r) \/ LoginLookup(r) \/ WriteFails(r)
           \/ DeleteLookup(r) \/ DeleteLock(r) \/ Deadlock(r)
           \/ \E b \in Browsers : \/ SendDelete(b, r)
                                  \/ \E n \in Names, op \in {"register", "login"} :
                                        SendNamed(b, r, op, n)
    PROVE  Quiet
<1>1. UNCHANGED <<acct, tok, owner, root, expired, jar, out>>
  BY DEF RegisterLookup, RegisterFails, LoginLookup, WriteFails, DeleteLookup, DeleteLock,
         Deadlock, SendDelete, SendNamed, tables, history
<1>2. UNCHANGED raced
  BY DEF RegisterLookup, RegisterFails, LoginLookup, WriteFails, DeleteLookup, DeleteLock,
         Deadlock, SendDelete, SendNamed, history
<1>3. req[r] \in Request /\ req \in [Requests -> Request]
  BY DEF TypeOK
<1>4. CASE \E b \in Browsers : \/ SendDelete(b, r)
                               \/ \E n \in Names, op \in {"register", "login"} :
                                     SendNamed(b, r, op, n)
  <2>1. req[r] = Idle /\ \A p \in Requests : p # r => req'[p] = req[p]
    BY <1>3, <1>4 DEF SendDelete, SendNamed
  <2>2. req'[r].token = NoToken /\ req'[r].reply = "none"
    BY <1>3, <1>4, ZenonT(30) DEF SendDelete, SendNamed, Idle
  <2>3. req'[r].op \notin {"refresh", "logout"}
    BY <1>3, <1>4, ZenonT(30) DEF SendDelete, SendNamed, Idle
  <2>4. Blank(req[r]) /\ Blank(req'[r])
    BY <2>1, <2>2, <2>3 DEF Blank, Idle
  <2>5. \A p \in Requests : req[p].reply # "none" => req[p].step = "replied"
    BY DEF CookieInv
  <2>6. \A p \in Requests : Carried(p)
    BY <2>1, <2>4, <2>5 DEF Carried
  <2> QED
    BY <1>1, <1>2, <2>6 DEF Quiet, Unspent, UnspentThen
<1>5. CASE \/ RegisterLookup(r) \/ RegisterFails(r) \/ LoginLookup(r) \/ WriteFails(r)
           \/ DeleteLookup(r) \/ DeleteLock(r) \/ Deadlock(r)
  <2>1. req[r].step # "replied"
    BY <1>5 DEF RegisterLookup, RegisterFails, LoginLookup, WriteFails, DeleteLookup,
                DeleteLock, Deadlock, WaitsFor, At
  <2>2. \/ req' = Answered(r)
        \/ /\ req[r].op # "refresh"
           /\ \/ \E step \in {"looked", "locking"} : req' = [req EXCEPT ![r].step = step]
              \/ \E u \in Users : req' = [req EXCEPT ![r].step = "looked", ![r].user = u]
    BY <1>5 DEF RegisterLookup, RegisterFails, LoginLookup, WriteFails, DeleteLookup,
                DeleteLock, Deadlock, At, Named
  <2>3. SameCookies(r) /\ (req'[r].step = "replied" \/ req[r].op # "refresh")
    <3>1. CASE req' = Answered(r)
      BY <3>1, AnsweredEffect
    <3>2. ASSUME NEW step \in {"looked", "locking"}, req[r].op # "refresh",
                 req' = [req EXCEPT ![r].step = step]
          PROVE  SameCookies(r) /\ (req'[r].step = "replied" \/ req[r].op # "refresh")
      BY <1>3, <3>2 DEF SameCookies, Request
    <3>3. ASSUME NEW u \in Users, req[r].op # "refresh",
                 req' = [req EXCEPT ![r].step = "looked", ![r].user = u]
          PROVE  SameCookies(r) /\ (req'[r].step = "replied" \/ req[r].op # "refresh")
      BY <1>3, <3>3 DEF SameCookies, Request
    <3> QED
      BY <2>2, <3>1, <3>2, <3>3
  <2>4. req'[r].op = req[r].op
    BY <2>3 DEF SameCookies
  <2>5. \A p \in Requests : Carried(p)
    BY <2>1, <2>3, <2>4, CarriedOn
  <2> QED
    BY <1>1, <1>2, <2>5 DEF Quiet, Unspent, UnspentThen
<1> QED
  BY <1>4, <1>5

(* A refresh has read its token live, or is refused; its purge is of what expired. *)
LEMMA RefreshLookupIsQuiet ==
    ASSUME TypeOK, SessionInv, CookieInv, NEW r \in Requests, RefreshLookup(r)
    PROVE  Quiet
<1> DEFINE purge == {t \in expired : tok[t] = "live"}
           old == req[r].token
<1>1. /\ req[r].step = "sent" /\ req[r] \in Request /\ req \in [Requests -> Request]
      /\ UNCHANGED <<acct, owner, root, expired, jar, out, raced>>
  BY DEF RefreshLookup, At, TypeOK, history
<1>2. CASE tok[old] = "live" /\ old \notin purge
  <2>1. /\ tok' = tok
        /\ req' = [req EXCEPT ![r] = [req[r] EXCEPT !.step = "looked", !.user = owner[old],
                                                    !.purged = purge]]
    BY <1>1, <1>2 DEF RefreshLookup
  <2> HIDE DEF purge
  <2>2. SameCookies(r)
    BY <1>1, <2>1 DEF SameCookies, Request
  <2>3. \A p \in Requests : Carried(p)
    BY <1>1, <1>2, <2>1, <2>2, CarriedOn
  <2> QED
    BY <1>1, <2>1, <2>3 DEF Quiet, Unspent, UnspentThen
<1>3. CASE ~(tok[old] = "live" /\ old \notin purge)
  <2>1. /\ tok' = [x \in Tokens |-> IF x \in purge THEN "gone" ELSE tok[x]]
        /\ req' = Answered(r)
    BY <1>3 DEF RefreshLookup
  <2>2. \A p \in Requests : Carried(p)
    BY <1>1, <2>1, AnsweredEffect, CarriedOn
  <2>3. \A t \in Tokens : /\ tok'[t] = "live" => tok[t] = "live"
                          /\ tok[t] = "gone" => tok'[t] = "gone"
                          /\ tok[t] = "live" => tok'[t] = "live" \/ t \in expired'
    BY <1>1, <2>1
  <2>4. \A t \in Tokens : tok[t] # "free" /\ Unspent(t) => UnspentThen(t)
    BY <1>1, <2>3, StaysUnspent
  <2> QED
    BY <1>1, <2>2, <2>3, <2>4 DEF Quiet
<1> QED
  BY <1>2, <1>3

LEMMA AccountsAreQuiet ==
    ASSUME TypeOK, SessionInv, CookieInv, NEW r \in Requests,
           DeleteCommit(r) \/ \E u \in Users : RegisterCommit(r, u)
    PROVE  Quiet
<1>1. /\ req[r].step # "replied" /\ req' = Answered(r)
      /\ UNCHANGED <<owner, root, expired, jar, out, raced>>
  BY DEF DeleteCommit, RegisterCommit, At, history
<1>2. \A p \in Requests : Carried(p)
  BY <1>1, AnsweredEffect, CarriedOn
<1>3. CASE DeleteCommit(r)
  <2> DEFINE u == req[r].user
  <2>1. /\ acct' = [acct EXCEPT ![u] = "gone"]
        /\ tok' = [t \in Tokens |-> IF t \in TokensOf(u) THEN "gone" ELSE tok[t]]
        /\ req[r].op = "delete"
    BY <1>3 DEF DeleteCommit, At
  <2>2. u \in Users
    BY <2>1, RequestFacts DEF WellFormed
  <2> HIDE DEF u
  <2>3. acct'[u] = "gone" /\ \A v \in Users : acct[v] = "gone" => acct'[v] = "gone"
    BY <2>1, <2>2 DEF TypeOK
  <2>4. \A t \in Tokens : /\ tok'[t] = "live" => tok[t] = "live"
                          /\ tok[t] = "gone" => tok'[t] = "gone"
                          /\ tok[t] = "live" => tok'[t] = "live" \/ acct'[owner[t]] = "gone"
    BY <2>1, <2>3 DEF TokensOf
  <2>5. \A t \in Tokens : tok[t] # "free" /\ Unspent(t) => UnspentThen(t)
    BY <1>1, <2>3, <2>4, StaysUnspent
  <2> QED
    BY <1>1, <1>2, <2>4, <2>5 DEF Quiet
<1>4. ASSUME NEW u \in Users, RegisterCommit(r, u)
      PROVE  Quiet
  <2>1. acct[u] = "free" /\ acct' = [acct EXCEPT ![u] = "live"] /\ tok' = tok
    BY <1>4 DEF RegisterCommit
  <2>2. \A v \in Users : acct[v] = "gone" => acct'[v] = "gone"
    BY <2>1 DEF TypeOK
  <2>3. \A t \in Tokens : tok[t] # "free" /\ Unspent(t) => UnspentThen(t)
    BY <1>1, <2>1, <2>2, StaysUnspent
  <2> QED
    BY <1>1, <1>2, <2>1, <2>3 DEF Quiet
<1> QED
  BY <1>3, <1>4

LEMMA TimeIsQuiet ==
    ASSUME TypeOK, SessionInv, CookieInv, UNCHANGED vars \/ \E t \in Tokens : Expire(t)
    PROVE  Quiet
<1>1. /\ UNCHANGED <<acct, tok, owner, root, req, jar, out, raced>> /\ expired \subseteq expired'
  BY DEF Expire, vars, tables, history
<1>2. \A p \in Requests : Carried(p)
  BY <1>1 DEF CookieInv, Carried
<1> QED
  BY <1>1, <1>2 DEF Quiet, Unspent, UnspentThen

LEMMA LoginAccepts ==
    ASSUME TypeOK, SessionInv, CookieInv, NEW r \in Requests, NEW t \in Tokens,
           LoginCommit(r, t)
    PROVE  Accepts(r, t, t)
<1>1. /\ req[r].op = "login" /\ req[r].step = "looked" /\ tok[t] = "free"
      /\ tok' = [tok EXCEPT ![t] = "live"] /\ owner' = [owner EXCEPT ![t] = req[r].user]
      /\ root' = [root EXCEPT ![t] = t] /\ req' = Accepted(r, t)
      /\ UNCHANGED <<acct, expired, jar, out, raced>>
  BY DEF LoginCommit, At, history
<1>2. req[r].token = NoToken
  BY <1>1 DEF CookieInv
<1>3. tok'[t] = "live" /\ \A x \in Tokens : x # t => tok'[x] = tok[x] /\ owner'[x] = owner[x]
  BY <1>1 DEF TypeOK
<1>4. \A x \in Tokens : x # t /\ tok[x] # "free" /\ Unspent(x) => UnspentThen(x)
  BY <1>1, <1>3 DEF Unspent, UnspentThen
<1> QED
  BY <1>1, <1>2, <1>3, <1>4, AcceptedEffect, ConstantsDistinct DEF Accepts

LEMMA RotateAccepts ==
    ASSUME TypeOK, SessionInv, CookieInv, NEW r \in Requests, NEW t \in Tokens, Rotate(r, t)
    PROVE  Accepts(r, t, root[req[r].token])
<1> DEFINE old == req[r].token
<1>1. /\ req[r].op = "refresh" /\ req[r].step = "looked" /\ tok[t] = "free"
      /\ tok' = [x \in Tokens |-> IF x = t THEN "live"
                                  ELSE IF x = old \/ x \in req[r].purged THEN "gone" ELSE tok[x]]
      /\ owner' = [owner EXCEPT ![t] = req[r].user]
      /\ root' = [root EXCEPT ![t] = root[old]] /\ req' = Accepted(r, t)
      /\ UNCHANGED <<acct, expired, jar, out, raced>>
  BY DEF Rotate, At
<1>2. req[r].purged \subseteq expired
  BY RequestFacts
<1>3. /\ tok'[t] = "live"
      /\ \A x \in Tokens : x # t => /\ owner'[x] = owner[x]
                                    /\ tok'[x] = "live" => tok[x] = "live" /\ x # old
                                    /\ tok[x] = "gone" => tok'[x] = "gone"
                                    /\ tok[x] = "live" => tok'[x] = "live" \/ x = old
                                                          \/ x \in expired
  BY <1>1, <1>2 DEF TypeOK
<1>4. \A x \in Tokens : x # t /\ tok[x] # "free" /\ Unspent(x) => UnspentThen(x) \/ x = old
  BY <1>1, <1>3 DEF Unspent, UnspentThen
<1> QED
  BY <1>1, <1>3, <1>4, AcceptedEffect DEF Accepts

-----------------------------------------------------------------------------
(* Whose cookies are whose. *)

LEMMA QuietKeepsFlight ==
    ASSUME TypeOK, SessionInv, CookieInv, OneAtATime, Quiet
    PROVE  CookieInv' /\ OneAtATime'
<1>1. CookieInv'
  <2>1. \A t \in out' : tok'[t] = "gone"
    BY DEF CookieInv, Quiet, TypeOK
  <2>2. ASSUME NEW p \in Requests
        PROVE  /\ req'[p].token # NoToken <=> req'[p].op \in {"refresh", "logout"}
               /\ req'[p].reply # "none" => req'[p].step = "replied"
               /\ req'[p].reply = "set" =>
                     \/ req'[p].op = "login" /\ root[req'[p].fresh] = req'[p].fresh
                     \/ req'[p].op = "refresh" /\ root[req'[p].fresh] = root[req'[p].token]
               /\ req'[p].reply = "clear" => req'[p].op = "logout"
    BY DEF CookieInv, Quiet, Carried, Blank
  <2> QED
    BY <2>1, <2>2 DEF CookieInv, Quiet
<1>2. /\ \A l \in Tokens : Lineage(l)' = Lineage(l) /\ LiveOf(l)' \subseteq LiveOf(l)
      /\ raced' = raced
  BY DEF Quiet, Lineage, LiveOf
<1>3. \A r \in Requests, l \in Tokens : Presents(r, l)' => Presents(r, l)
  BY <1>2, ConstantsDistinct DEF Quiet, Carried, Blank, Presents, Lineage
<1>4. ASSUME NEW r \in Requests, NEW l \in Tokens \ raced, Presents(r, l)',
             req'[r].op = "refresh", req'[r].step = "looked"
      PROVE  LiveOf(l)' \subseteq {req'[r].token}
  <2>1. /\ req[r].op = "refresh" /\ req'[r].token = req[r].token
        /\ req[r].step = "looked" \/ tok'[req[r].token] = "live"
    BY <1>4 DEF Quiet, Carried, Blank
  <2>2. CASE req[r].step = "looked"
    BY <1>2, <1>3, <1>4, <2>1, <2>2 DEF OneAtATime, At
  <2>3. CASE tok'[req[r].token] = "live"
    <3>1. req[r].token \in LiveOf(l)'
      BY <1>4, <2>1, <2>3 DEF Presents, LiveOf
    <3> QED
      BY <1>2, <2>1, <3>1 DEF OneAtATime
  <2> QED
    BY <2>1, <2>2, <2>3
<1>5. OneAtATime'
  BY <1>2, <1>3, <1>4 DEF OneAtATime, At
<1> QED
  BY <1>1, <1>5

(* A request that is over, with its response kept or lost. *)
LEMMA OverKeepsFlight ==
    ASSUME TypeOK, SessionInv, CookieInv, OneAtATime, NEW r \in Requests,
           req' = [req EXCEPT ![r] = Idle], UNCHANGED <<tok, root, out, raced>>
    PROVE  CookieInv' /\ OneAtATime'
<1>1. /\ req'[r] = Idle /\ \A p \in Requests : p # r => req'[p] = req[p]
      /\ Idle.token = NoToken /\ Idle.op = "none" /\ Idle.reply = "none"
  BY DEF TypeOK, Idle
<1>2. CookieInv'
  BY <1>1 DEF CookieInv
<1>3. \A l \in Tokens : Lineage(l)' = Lineage(l) /\ LiveOf(l)' = LiveOf(l)
  BY DEF Lineage, LiveOf
<1>4. \A p \in Requests, l \in Tokens : Presents(p, l)' => p # r /\ Presents(p, l)
  BY <1>1, <1>3, ConstantsDistinct DEF Presents, Lineage
<1>5. OneAtATime'
  BY <1>1, <1>3, <1>4 DEF OneAtATime, At
<1> QED
  BY <1>2, <1>5

(* What a browser's request with a cookie is. *)
LEMMA SendCookieEffect ==
    ASSUME TypeOK, SessionInv, CookieInv, NEW b \in Browsers, NEW r \in Requests,
           NEW op \in {"refresh", "logout"}, SendCookie(b, r, op)
    PROVE  /\ UNCHANGED <<acct, tok, owner, root, expired, jar, out>>
           /\ req[r] = Idle /\ Blank(req[r])
           /\ \A p \in Requests : p # r => req'[p] = req[p]
           /\ req'[r].op = op /\ req'[r].step = "sent" /\ req'[r].browser = b
           /\ req'[r].token = jar[b] /\ req'[r].reply = "none"
           /\ jar[b] # NoToken /\ jar[b] \in Tokens /\ root[jar[b]] \in Tokens
           /\ raced \subseteq raced'
           /\ \A l \in Tokens \ raced' : jar[b] \in Lineage(l) =>
                 \A q \in Requests : ~Presents(q, l)
<1>1. UNCHANGED <<acct, tok, owner, root, expired, jar, out>> /\ jar[b] # NoToken
  BY DEF SendCookie, tables
<1>2. /\ req[r] = Idle /\ req \in [Requests -> Request]
      /\ req' = [req EXCEPT ![r] = [Idle EXCEPT !.op = op, !.step = "sent",
                                                !.browser = b, !.token = jar[b]]]
  BY DEF SendCookie, TypeOK
<1>3. /\ Blank(req[r]) /\ \A p \in Requests : p # r => req'[p] = req[p]
      /\ req'[r].op = op /\ req'[r].step = "sent" /\ req'[r].browser = b
      /\ req'[r].token = jar[b] /\ req'[r].reply = "none"
  BY <1>2 DEF Idle, Blank
<1>4. jar[b] \in Tokens /\ root[jar[b]] \in Tokens
  BY <1>1, CookiesOfRows
<1>5. raced \subseteq raced'
  BY DEF SendCookie
<1>6. ASSUME NEW l \in Tokens \ raced', jar[b] \in Lineage(l), NEW q \in Requests
      PROVE  ~Presents(q, l)
  <2>1. l = root[jar[b]]
    BY <1>6 DEF Lineage
  <2>2. (\E p \in Requests : req[p].token \in Lineage(l)) => l \in raced'
    BY <2>1 DEF SendCookie
  <2> QED
    BY <2>2 DEF Presents
<1> QED
  BY <1>1, <1>2, <1>3, <1>4, <1>5, <1>6

LEMMA SendCookieKeepsFlight ==
    ASSUME TypeOK, SessionInv, CookieInv, OneAtATime, NEW b \in Browsers, NEW r \in Requests,
           NEW op \in {"refresh", "logout"}, SendCookie(b, r, op)
    PROVE  CookieInv' /\ OneAtATime'
<1>1. /\ UNCHANGED <<tok, root, out>>
      /\ \A p \in Requests : p # r => req'[p] = req[p]
      /\ req'[r].op = op /\ req'[r].step = "sent"
      /\ req'[r].token = jar[b] /\ req'[r].reply = "none" /\ jar[b] # NoToken
      /\ raced \subseteq raced'
      /\ \A l \in Tokens \ raced' : jar[b] \in Lineage(l) =>
            \A q \in Requests : ~Presents(q, l)
  BY SendCookieEffect
<1>2. CookieInv'
  BY <1>1 DEF CookieInv
<1>3. \A l \in Tokens : Lineage(l)' = Lineage(l) /\ LiveOf(l)' = LiveOf(l)
  BY <1>1 DEF Lineage, LiveOf
<1>4. /\ \A p \in Requests, l \in Tokens : p # r /\ Presents(p, l)' => Presents(p, l)
      /\ \A l \in Tokens : Presents(r, l)' => jar[b] \in Lineage(l)
  BY <1>1, <1>3 DEF Presents
<1>5. OneAtATime'
  <2> SUFFICES ASSUME NEW l \in Tokens \ raced'
               PROVE  /\ \A x, y \in LiveOf(l)' : x = y
                      /\ \A p, q \in Requests : Presents(p, l)' /\ Presents(q, l)' => p = q
                      /\ \A p \in Requests : Presents(p, l)' /\ At(p, "refresh", "looked")' =>
                            LiveOf(l)' \subseteq {req'[p].token}
    BY DEF OneAtATime
  <2>1. l \in Tokens \ raced
    BY <1>1
  <2>2. \A x, y \in LiveOf(l)' : x = y
    BY <1>3, <2>1 DEF OneAtATime
  <2>3. \A p, q \in Requests : Presents(p, l)' /\ Presents(q, l)' => p = q
    BY <1>1, <1>4, <2>1 DEF OneAtATime
  <2>4. \A p \in Requests : Presents(p, l)' /\ At(p, "refresh", "looked")' =>
                            LiveOf(l)' \subseteq {req'[p].token}
    BY <1>1, <1>3, <1>4, <2>1 DEF OneAtATime, At
  <2> QED
    BY <2>2, <2>3, <2>4
<1> QED
  BY <1>2, <1>5

(* The logout of a token takes it, and only it. *)
LEMMA LogoutEffect ==
    ASSUME TypeOK, SessionInv, NEW r \in Requests, Logout(r)
    PROVE  /\ UNCHANGED <<acct, owner, root, expired, jar, raced>>
           /\ req[r].op = "logout" /\ req[r].step = "sent" /\ req[r].token \in Tokens
           /\ tok'[req[r].token] = "gone" /\ out' = out \cup {req[r].token}
           /\ \A x \in Tokens : x # req[r].token => tok'[x] = tok[x]
           /\ \A p \in Requests : p # r => req'[p] = req[p]
           /\ req'[r].op = "logout" /\ req'[r].step = "replied"
           /\ req'[r].browser = req[r].browser /\ req'[r].token = req[r].token
           /\ req'[r].reply = "clear"
<1>1. /\ UNCHANGED <<acct, owner, root, expired, jar, raced>>
      /\ req[r].op = "logout" /\ req[r].step = "sent" /\ out' = out \cup {req[r].token}
      /\ tok' = [tok EXCEPT ![req[r].token] = "gone"]
  BY DEF Logout, At
<1>2. req[r].token \in Tokens
  BY <1>1, RequestFacts
<1>3. /\ req[r] \in Request /\ req \in [Requests -> Request]
      /\ req' = [req EXCEPT ![r] = [req[r] EXCEPT !.step = "replied", !.reply = "clear"]]
  BY DEF Logout, TypeOK
<1>4. /\ \A p \in Requests : p # r => req'[p] = req[p]
      /\ req'[r].op = "logout" /\ req'[r].step = "replied"
      /\ req'[r].browser = req[r].browser /\ req'[r].token = req[r].token
      /\ req'[r].reply = "clear"
  BY <1>1, <1>3 DEF Request
<1>5. tok'[req[r].token] = "gone" /\ \A x \in Tokens : x # req[r].token => tok'[x] = tok[x]
  BY <1>1, <1>2 DEF TypeOK
<1> QED
  BY <1>1, <1>2, <1>4, <1>5

LEMMA LogoutKeepsFlight ==
    ASSUME TypeOK, SessionInv, CookieInv, OneAtATime, NEW r \in Requests, Logout(r)
    PROVE  CookieInv' /\ OneAtATime'
<1> DEFINE t == req[r].token
<1>1. /\ UNCHANGED <<root, raced>> /\ t \in Tokens /\ out' = out \cup {t}
      /\ tok'[t] = "gone" /\ \A x \in Tokens : x # t => tok'[x] = tok[x]
      /\ \A p \in Requests : p # r => req'[p] = req[p]
      /\ req[r].op = "logout" /\ req'[r].op = "logout" /\ req'[r].step = "replied"
      /\ req'[r].token = t /\ req'[r].reply = "clear"
  BY LogoutEffect
<1>2. out \subseteq Tokens
  BY DEF TypeOK
<1>3. CookieInv'
  BY <1>1, <1>2 DEF CookieInv
<1>4. /\ \A l \in Tokens : Lineage(l)' = Lineage(l) /\ LiveOf(l)' \subseteq LiveOf(l)
      /\ \A p \in Requests : req'[p].token = req[p].token
  BY <1>1 DEF Lineage, LiveOf
<1>5. \A p \in Requests, l \in Tokens : Presents(p, l)' = Presents(p, l)
  BY <1>4 DEF Presents
<1>6. OneAtATime'
  BY <1>1, <1>4, <1>5 DEF OneAtATime, At
<1> QED
  BY <1>3, <1>6

(* With a new row, its login's other rows are gone. *)
LEMMA AcceptsRows ==
    ASSUME TypeOK, SessionInv, CookieInv, OneAtATime, NEW r \in Requests, NEW t \in Tokens,
           NEW l0 \in Tokens, Accepts(r, t, l0)
    PROVE  /\ req[r].op = "login" => l0 = t /\ Lineage(l0) = {}
           /\ req[r].op = "refresh" => Presents(r, l0)
           /\ \A l \in Tokens : l # l0 => LiveOf(l)' \subseteq LiveOf(l)
           /\ l0 \notin raced => LiveOf(l0)' \subseteq {t}
           /\ \A p \in Requests : req'[p].token = req[p].token /\ req[p].token # t
           /\ \A p \in Requests, l \in Tokens : Presents(p, l)' = Presents(p, l)
<1>1. /\ tok[t] = "free" /\ tok'[t] = "live" /\ root' = [root EXCEPT ![t] = l0]
      /\ \A x \in Tokens : x # t => (tok'[x] = "live" => tok[x] = "live" /\ x # req[r].token)
      /\ \A p \in Requests : req'[p].token = req[p].token
      /\ req[r].step = "looked"
      /\ \/ req[r].op = "login" /\ l0 = t
         \/ req[r].op = "refresh" /\ l0 = root[req[r].token]
  BY DEF Accepts
<1>2. /\ \A l \in Tokens : t \notin Lineage(l)
      /\ \A l \in Tokens : l # l0 => Lineage(l)' = Lineage(l)
      /\ Lineage(l0)' = Lineage(l0) \cup {t} /\ Lineage(t) = {}
  BY <1>1, NewLineage
<1>3. \A p \in Requests : req[p].token # NoToken => tok[req[p].token] # "free"
  BY CookiesOfRows
<1>4. \A p \in Requests : req[p].token # t
  BY <1>1, <1>3, ConstantsDistinct
<1>5. req[r].op = "refresh" => Presents(r, l0)
  <2>1. req[r].op = "refresh" => req[r].token # NoToken
    BY DEF CookieInv
  <2> QED
    BY <1>1, <2>1, CookiesOfRows DEF Presents, Lineage
<1>6. ASSUME NEW l \in Tokens, l # l0 PROVE LiveOf(l)' \subseteq LiveOf(l)
  <2>1. Lineage(l)' = Lineage(l) /\ t \notin Lineage(l)
    BY <1>2, <1>6
  <2>2. \A x \in Lineage(l) : x \in Tokens /\ x # t
    BY <2>1 DEF Lineage
  <2> QED
    BY <1>1, <2>1, <2>2 DEF LiveOf
<1>7. ASSUME l0 \notin raced, NEW x \in LiveOf(l0)', x # t
      PROVE  FALSE
  <2>1. x \in LiveOf(l0) /\ x # req[r].token
    <3>1. x \in Lineage(l0) /\ tok'[x] = "live" /\ x \in Tokens
      BY <1>2, <1>7 DEF LiveOf, Lineage
    <3> QED
      BY <1>1, <1>7, <3>1 DEF LiveOf
  <2>2. req[r].op = "refresh"
    BY <1>1, <1>2, <2>1 DEF LiveOf
  <2>3. LiveOf(l0) \subseteq {req[r].token}
    BY <1>1, <1>5, <1>7, <2>2 DEF OneAtATime, At
  <2> QED
    BY <2>1, <2>3
<1>8. \A p \in Requests, l \in Tokens : Presents(p, l)' = Presents(p, l)
  BY <1>1, <1>2, <1>4 DEF Presents
<1> QED
  BY <1>1, <1>2, <1>4, <1>5, <1>6, <1>7, <1>8

LEMMA AcceptsKeepsFlight ==
    ASSUME TypeOK, SessionInv, CookieInv, OneAtATime, NEW r \in Requests, NEW t \in Tokens,
           NEW l0 \in Tokens, Accepts(r, t, l0)
    PROVE  CookieInv' /\ OneAtATime'
<1>1. /\ tok[t] = "free" /\ tok'[t] = "live" /\ root' = [root EXCEPT ![t] = l0]
      /\ \A x \in Tokens : x # t => (tok[x] = "gone" => tok'[x] = "gone")
      /\ \A p \in Requests : p # r => req'[p] = req[p]
      /\ req'[r].step = "replied" /\ req'[r].op = req[r].op /\ req'[r].token = req[r].token
      /\ req'[r].reply = "set" /\ req'[r].fresh = t
      /\ \/ req[r].op = "login" /\ l0 = t
         \/ req[r].op = "refresh" /\ l0 = root[req[r].token]
      /\ UNCHANGED <<out, raced>>
  BY DEF Accepts
<1>2. root'[t] = l0 /\ \A x \in Tokens : x # t => root'[x] = root[x]
  BY <1>1, NewLineage
<1>3. /\ req[r].op = "login" => Lineage(l0) = {}
      /\ \A l \in Tokens : l # l0 => LiveOf(l)' \subseteq LiveOf(l)
      /\ l0 \notin raced => LiveOf(l0)' \subseteq {t}
      /\ \A p \in Requests : req'[p].token = req[p].token /\ req[p].token # t
      /\ \A p \in Requests, l \in Tokens : Presents(p, l)' = Presents(p, l)
      /\ req[r].op = "refresh" => Presents(r, l0)
  BY AcceptsRows
<1>4. CookieInv'
  <2>1. \A x \in out' : tok'[x] = "gone"
    BY <1>1 DEF CookieInv, TypeOK
  <2>2. ASSUME NEW p \in Requests
        PROVE  /\ req'[p].token # NoToken <=> req'[p].op \in {"refresh", "logout"}
               /\ req'[p].reply # "none" => req'[p].step = "replied"
               /\ req'[p].reply = "set" =>
                     \/ req'[p].op = "login" /\ root'[req'[p].fresh] = req'[p].fresh
                     \/ req'[p].op = "refresh" /\ root'[req'[p].fresh] = root'[req'[p].token]
               /\ req'[p].reply = "clear" => req'[p].op = "logout"
    <3>1. /\ req[p].token # NoToken => req[p].token \in Tokens
          /\ req[p].reply = "set" => req[p].fresh \in Tokens /\ req[p].fresh # t
      BY <1>1, CookiesOfRows
    <3>2. /\ req[p].token # NoToken <=> req[p].op \in {"refresh", "logout"}
          /\ req[p].reply # "none" => req[p].step = "replied"
          /\ req[p].reply = "set" =>
                \/ req[p].op = "login" /\ root[req[p].fresh] = req[p].fresh
                \/ req[p].op = "refresh" /\ root[req[p].fresh] = root[req[p].token]
          /\ req[p].reply = "clear" => req[p].op = "logout"
      BY DEF CookieInv
    <3>3. CASE p = r
      BY <1>1, <1>2, <1>3, <3>1, <3>2, <3>3
    <3>4. CASE p # r
      BY <1>1, <1>2, <1>3, <3>1, <3>2, <3>4
    <3> QED
      BY <3>3, <3>4
  <2> QED
    BY <2>1, <2>2 DEF CookieInv
<1>5. OneAtATime'
  <2> SUFFICES ASSUME NEW l \in Tokens \ raced
               PROVE  /\ \A x, y \in LiveOf(l)' : x = y
                      /\ \A p, q \in Requests : Presents(p, l) /\ Presents(q, l) => p = q
                      /\ \A p \in Requests : Presents(p, l) /\ At(p, "refresh", "looked")' =>
                            LiveOf(l)' \subseteq {req'[p].token}
    BY <1>1, <1>3 DEF OneAtATime
  <2>1. \A p, q \in Requests : Presents(p, l) /\ Presents(q, l) => p = q
    BY DEF OneAtATime
  <2>2. \A x, y \in LiveOf(l)' : x = y
    BY <1>3 DEF OneAtATime
  <2>3. ASSUME NEW p \in Requests, Presents(p, l), At(p, "refresh", "looked")'
        PROVE  LiveOf(l)' \subseteq {req'[p].token}
    <3>1. p # r /\ req'[p] = req[p]
      BY <1>1, <2>3 DEF At
    <3>2. l # l0
      BY <1>1, <1>3, <2>1, <2>3, <3>1 DEF Presents
    <3> QED
      BY <1>3, <2>3, <3>1, <3>2 DEF OneAtATime, At
  <2> QED
    BY <2>1, <2>2, <2>3
<1> QED
  BY <1>4, <1>5

LEMMA InitFlight == Init => CookieInv /\ OneAtATime
<1> SUFFICES ASSUME Init PROVE CookieInv /\ OneAtATime
  OBVIOUS
<1>1. /\ \A r \in Requests : req[r].token = NoToken /\ req[r].op = "none" /\ req[r].reply = "none"
      /\ out = {} /\ \A l \in Tokens : LiveOf(l) = {}
  BY DEF Init, Idle, LiveOf, Lineage
<1>2. CookieInv
  BY <1>1 DEF CookieInv
<1>3. OneAtATime
  BY <1>1, ConstantsDistinct DEF OneAtATime, Presents, Lineage
<1> QED
  BY <1>2, <1>3

(* Every step is one of these. *)
LEMMA CookieSteps ==
    ASSUME TypeOK, SessionInv, CookieInv, [Next]_vars
    PROVE  \/ Quiet
           \/ \E b \in Browsers, r \in Requests, op \in {"refresh", "logout"} : SendCookie(b, r, op)
           \/ \E r \in Requests : Logout(r) \/ Deliver(r) \/ Lose(r)
           \/ \E r \in Requests, t, l0 \in Tokens : Accepts(r, t, l0)
<1>1. ASSUME NEW r \in Requests, NEW t \in Tokens, LoginCommit(r, t) \/ Rotate(r, t)
      PROVE  \E l0 \in Tokens : Accepts(r, t, l0)
  <2>1. CASE LoginCommit(r, t)
    BY <2>1, LoginAccepts
  <2>2. CASE Rotate(r, t)
    <3>1. req[r].token # NoToken
      BY <2>2 DEF CookieInv, Rotate, At
    <3> QED
      BY <2>2, <3>1, RotateAccepts, CookiesOfRows
  <2> QED
    BY <1>1, <2>1, <2>2
<1>2. ASSUME NEW r \in Requests, RequestStep(r)
      PROVE  \/ Quiet \/ Logout(r) \/ Deliver(r)
             \/ \E t \in Tokens : LoginCommit(r, t) \/ Rotate(r, t)
  <2>1. CASE \/ RegisterLookup(r) \/ RegisterFails(r) \/ LoginLookup(r) \/ WriteFails(r)
             \/ DeleteLookup(r) \/ DeleteLock(r) \/ Deadlock(r)
    BY <2>1, LookupsAreQuiet
  <2>2. CASE RefreshLookup(r)
    BY <2>2, RefreshLookupIsQuiet
  <2>3. CASE DeleteCommit(r) \/ \E u \in Users : RegisterCommit(r, u)
    BY <2>3, AccountsAreQuiet
  <2> QED
    BY <1>2, <2>1, <2>2, <2>3 DEF RequestStep
<1>3. ASSUME NEW b \in Browsers, BrowserStep(b)
      PROVE  Quiet \/ \E r \in Requests, op \in {"refresh", "logout"} : SendCookie(b, r, op)
  BY <1>3, LookupsAreQuiet DEF BrowserStep
<1>4. CASE UNCHANGED vars \/ \E t \in Tokens : Expire(t)
  BY <1>4, TimeIsQuiet
<1> QED
  BY <1>1, <1>2, <1>3, <1>4 DEF Next

LEMMA NextKeepsFlight ==
    TypeOK /\ SessionInv /\ CookieInv /\ OneAtATime /\ [Next]_vars => CookieInv' /\ OneAtATime'
<1> SUFFICES ASSUME TypeOK, SessionInv, CookieInv, OneAtATime, [Next]_vars
             PROVE  CookieInv' /\ OneAtATime'
  OBVIOUS
<1>1. ASSUME NEW r \in Requests, Deliver(r) \/ Lose(r) PROVE CookieInv' /\ OneAtATime'
  BY <1>1, OverKeepsFlight DEF Deliver, Lose, tables, history
<1> QED
  BY <1>1, CookieSteps, QuietKeepsFlight, SendCookieKeepsFlight, LogoutKeepsFlight,
     AcceptsKeepsFlight

(* Whatever is lost, a login whose requests are sent one at a time has at  *)
(* most one live token: a rotation replaces it, however late it commits     *)
(* (refresh_access_token).                                                  *)
THEOREM RotationsReplace == Spec => []OneAtATime
  BY InitFlight, NextKeepsFlight, Inductive, PTL DEF Spec

-----------------------------------------------------------------------------
(* Jars, where nothing is lost. *)

JarsInv == NewCookieInv /\ HeldCookieInv

(* A step after which the cookies are whose they were, but for a new one. *)
LEMMA QuietKeepsJars ==
    ASSUME TypeOK, SessionInv, CookieInv, JarsInv, Quiet
    PROVE  JarsInv'
<1>1. /\ \A t \in Tokens : tok[t] # "free" /\ Unspent(t) => UnspentThen(t)
      /\ \A p \in Requests : Carried(p)
      /\ jar' = jar
  BY DEF Quiet
<1>2. \A p \in Requests : /\ req'[p].token = req[p].token /\ req'[p].reply = req[p].reply
                          /\ req'[p].reply = "set" => req'[p].fresh = req[p].fresh
                          /\ req'[p].token # NoToken => req'[p].browser = req[p].browser
  BY <1>1 DEF Carried, Blank
<1>3. NewCookieInv'
  <2> SUFFICES ASSUME NEW r \in Requests, req'[r].reply = "set"
               PROVE  /\ UnspentThen(req'[r].fresh)
                      /\ \A b \in Browsers : jar[b] # req'[r].fresh
                      /\ \A q \in Requests :
                            /\ req'[q].token # req'[r].fresh
                            /\ req'[q].reply = "set" /\ req'[q].fresh = req'[r].fresh => q = r
    BY <1>1 DEF NewCookieInv, Unspent, UnspentThen
  <2>1. /\ req[r].reply = "set" /\ req'[r].fresh = req[r].fresh
        /\ req[r].fresh \in Tokens /\ tok[req[r].fresh] # "free"
    BY <1>2, CookiesOfRows
  <2>2. UnspentThen(req[r].fresh)
    BY <1>1, <2>1 DEF JarsInv, NewCookieInv
  <2> QED
    BY <1>2, <2>1, <2>2 DEF JarsInv, NewCookieInv
<1>4. HeldCookieInv'
  <2> SUFFICES ASSUME NEW b \in Browsers, jar[b] # NoToken
               PROVE  /\ \/ UnspentThen(jar[b])
                         \/ \E r \in Requests : /\ req'[r].browser = b /\ req'[r].token = jar[b]
                                                /\ req'[r].reply # "none"
                      /\ \A c \in Browsers : jar[c] = jar[b] => c = b
                      /\ \A r \in Requests : req'[r].token = jar[b] => req'[r].browser = b
    BY <1>1 DEF HeldCookieInv, Unspent, UnspentThen
  <2>1. jar[b] \in Tokens /\ tok[jar[b]] # "free"
    BY CookiesOfRows
  <2>2. Unspent(jar[b]) => UnspentThen(jar[b])
    BY <1>1, <2>1
  <2> QED
    BY <1>2, <2>2 DEF JarsInv, HeldCookieInv
<1> QED
  BY <1>3, <1>4 DEF JarsInv

LEMMA SendCookieKeepsJars ==
    ASSUME TypeOK, SessionInv, CookieInv, JarsInv, NEW b \in Browsers, NEW r \in Requests,
           NEW op \in {"refresh", "logout"}, SendCookie(b, r, op)
    PROVE  JarsInv'
<1>1. /\ UNCHANGED <<acct, tok, owner, expired, jar>>
      /\ Blank(req[r])
      /\ \A p \in Requests : p # r => req'[p] = req[p]
      /\ req'[r].browser = b /\ req'[r].token = jar[b] /\ req'[r].reply = "none"
      /\ jar[b] # NoToken
  BY SendCookieEffect
<1>2. \A t : Unspent(t)' = Unspent(t)
  BY <1>1 DEF Unspent
<1>3. NewCookieInv'
  BY <1>1 DEF JarsInv, NewCookieInv, Unspent
<1>4. HeldCookieInv'
  BY <1>1 DEF JarsInv, HeldCookieInv, Unspent, Blank
<1> QED
  BY <1>3, <1>4 DEF JarsInv

(* A logout spends its cookie, which its response takes from the jar. *)
LEMMA LogoutKeepsJars ==
    ASSUME TypeOK, SessionInv, CookieInv, JarsInv, NEW r \in Requests, Logout(r)
    PROVE  JarsInv'
<1> DEFINE t == req[r].token
<1>1. /\ UNCHANGED <<acct, owner, expired, jar>> /\ req[r].step = "sent"
      /\ \A x \in Tokens : x # t => tok'[x] = tok[x]
      /\ \A p \in Requests : p # r => req'[p] = req[p]
      /\ req'[r].browser = req[r].browser /\ req'[r].token = t /\ req'[r].reply = "clear"
  BY LogoutEffect
<1>2. req[r].reply = "none"
  BY <1>1 DEF CookieInv
<1>3. \A x \in Tokens : x # t /\ Unspent(x) => UnspentThen(x)
  BY <1>1 DEF Unspent, UnspentThen
<1>4. NewCookieInv'
  <2> SUFFICES ASSUME NEW q \in Requests, req'[q].reply = "set"
               PROVE  /\ UnspentThen(req'[q].fresh)
                      /\ \A b \in Browsers : jar[b] # req'[q].fresh
                      /\ \A p \in Requests :
                            /\ req'[p].token # req'[q].fresh
                            /\ req'[p].reply = "set" /\ req'[p].fresh = req'[q].fresh => p = q
    BY <1>1 DEF NewCookieInv, Unspent, UnspentThen
  <2>1. q # r /\ req'[q] = req[q] /\ req[q].fresh \in Tokens
    BY <1>1, CookiesOfRows
  <2> QED
    BY <1>1, <1>3, <2>1 DEF JarsInv, NewCookieInv
<1>5. HeldCookieInv'
  <2> SUFFICES ASSUME NEW b \in Browsers, jar[b] # NoToken
               PROVE  /\ \/ UnspentThen(jar[b])
                         \/ \E q \in Requests : /\ req'[q].browser = b /\ req'[q].token = jar[b]
                                                /\ req'[q].reply # "none"
                      /\ \A c \in Browsers : jar[c] = jar[b] => c = b
                      /\ \A q \in Requests : req'[q].token = jar[b] => req'[q].browser = b
    BY <1>1 DEF HeldCookieInv, Unspent, UnspentThen
  <2>1. jar[b] \in Tokens
    BY CookiesOfRows
  <2>2. \A q \in Requests : req'[q].token = jar[b] => req'[q].browser = b
    BY <1>1 DEF JarsInv, HeldCookieInv
  <2>3. CASE jar[b] = t
    BY <1>1, <2>2, <2>3 DEF JarsInv, HeldCookieInv
  <2>4. CASE jar[b] # t
    BY <1>1, <1>2, <1>3, <2>1, <2>2, <2>4 DEF JarsInv, HeldCookieInv
  <2> QED
    BY <2>3, <2>4
<1> QED
  BY <1>4, <1>5 DEF JarsInv

(* A rotation spends its cookie, which the new one replaces. *)
LEMMA AcceptsKeepsJars ==
    ASSUME TypeOK, SessionInv, CookieInv, OneAtATime, JarsInv, NEW r \in Requests,
           NEW t \in Tokens, NEW l0 \in Tokens, Accepts(r, t, l0)
    PROVE  JarsInv'
<1>1. /\ tok[t] = "free" /\ tok'[t] = "live" /\ jar' = jar
      /\ \A x \in Tokens : x # t /\ tok[x] # "free" /\ Unspent(x) =>
            UnspentThen(x) \/ x = req[r].token
      /\ \A p \in Requests : p # r => req'[p] = req[p]
      /\ req[r].step = "looked"
      /\ req'[r].browser = req[r].browser /\ req'[r].token = req[r].token
      /\ req'[r].reply = "set" /\ req'[r].fresh = t
  BY DEF Accepts
<1>2. /\ \A p \in Requests : req'[p].token = req[p].token /\ req[p].token # t
      /\ \A p \in Requests : req[p].reply = "set" =>
            /\ req[p].fresh \in Tokens /\ tok[req[p].fresh] # "free" /\ req[p].fresh # t
      /\ \A b \in Browsers : jar[b] # NoToken => jar[b] \in Tokens /\ tok[jar[b]] # "free"
      /\ \A b \in Browsers : jar[b] # t
  BY <1>1, AcceptsRows, CookiesOfRows, ConstantsDistinct
<1>3. req[r].reply = "none"
  BY <1>1 DEF CookieInv
<1>4. NewCookieInv'
  <2> SUFFICES ASSUME NEW q \in Requests, req'[q].reply = "set"
               PROVE  /\ UnspentThen(req'[q].fresh)
                      /\ \A b \in Browsers : jar[b] # req'[q].fresh
                      /\ \A p \in Requests :
                            /\ req'[p].token # req'[q].fresh
                            /\ req'[p].reply = "set" /\ req'[p].fresh = req'[q].fresh => p = q
    BY <1>1 DEF NewCookieInv, Unspent, UnspentThen
  <2>1. CASE q = r
    BY <1>1, <1>2, <2>1 DEF UnspentThen
  <2>2. CASE q # r
    <3>1. /\ req'[q] = req[q] /\ req[q].reply = "set" /\ req[q].fresh \in Tokens
          /\ req[q].fresh # t /\ tok[req[q].fresh] # "free"
      BY <1>1, <1>2, <2>2
    <3>2. /\ Unspent(req[q].fresh) /\ req[r].token # req[q].fresh
          /\ \A b \in Browsers : jar[b] # req[q].fresh
          /\ \A p \in Requests : /\ req[p].token # req[q].fresh
                                 /\ req[p].reply = "set" /\ req[p].fresh = req[q].fresh => p = q
      BY <3>1 DEF JarsInv, NewCookieInv
    <3>3. UnspentThen(req[q].fresh)
      BY <1>1, <3>1, <3>2
    <3> QED
      BY <1>1, <1>2, <3>1, <3>2, <3>3
  <2> QED
    BY <2>1, <2>2
<1>5. HeldCookieInv'
  <2> SUFFICES ASSUME NEW b \in Browsers, jar[b] # NoToken
               PROVE  /\ \/ UnspentThen(jar[b])
                         \/ \E q \in Requests : /\ req'[q].browser = b /\ req'[q].token = jar[b]
                                                /\ req'[q].reply # "none"
                      /\ \A c \in Browsers : jar[c] = jar[b] => c = b
                      /\ \A q \in Requests : req'[q].token = jar[b] => req'[q].browser = b
    BY <1>1 DEF HeldCookieInv, Unspent, UnspentThen
  <2>1. jar[b] \in Tokens /\ tok[jar[b]] # "free" /\ jar[b] # t
    BY <1>2
  <2>2. \A q \in Requests : req'[q].token = jar[b] => req'[q].browser = b
    BY <1>1 DEF JarsInv, HeldCookieInv
  <2>3. CASE jar[b] = req[r].token
    BY <1>1, <2>2, <2>3 DEF JarsInv, HeldCookieInv
  <2>4. CASE jar[b] # req[r].token
    BY <1>1, <1>3, <2>1, <2>2, <2>4 DEF JarsInv, HeldCookieInv
  <2> QED
    BY <2>3, <2>4
<1> QED
  BY <1>4, <1>5 DEF JarsInv

(* What a response does to the jar of its browser. *)
LEMMA DeliverEffect ==
    ASSUME TypeOK, SessionInv, CookieInv, NEW r \in Requests, Deliver(r)
    PROVE  /\ UNCHANGED <<acct, tok, owner, root, expired, out, raced>>
           /\ req'[r] = Idle /\ \A p \in Requests : p # r => req'[p] = req[p]
           /\ Blank(Idle) /\ req[r].browser \in Browsers
           /\ \A b \in Browsers : jar'[b] =
                 IF b # req[r].browser \/ req[r].reply = "none" THEN jar[b]
                 ELSE IF req[r].reply = "set" THEN req[r].fresh ELSE NoToken
<1>1. /\ UNCHANGED <<acct, tok, owner, root, expired, out, raced>>
      /\ req' = [req EXCEPT ![r] = Idle] /\ req[r].step = "replied"
  BY DEF Deliver, tables, history
<1>2. /\ req \in [Requests -> Request] /\ jar \in [Browsers -> Tokens \cup {NoToken}]
      /\ req[r].browser \in Browsers /\ req[r].reply \in {"none", "set", "clear"}
  BY <1>1, RequestFacts DEF TypeOK, WellFormed, Request
<1>3. /\ req[r].reply = "set" => jar' = [jar EXCEPT ![req[r].browser] = req[r].fresh]
      /\ req[r].reply = "clear" => jar' = [jar EXCEPT ![req[r].browser] = NoToken]
      /\ req[r].reply = "none" => jar' = jar
  BY DEF Deliver
<1>4. \A b \in Browsers : jar'[b] =
         IF b # req[r].browser \/ req[r].reply = "none" THEN jar[b]
         ELSE IF req[r].reply = "set" THEN req[r].fresh ELSE NoToken
  BY <1>2, <1>3
<1>5. req'[r] = Idle /\ \A p \in Requests : p # r => req'[p] = req[p]
  BY <1>1, <1>2
<1> QED
  BY <1>1, <1>2, <1>4, <1>5 DEF Blank, Idle

LEMMA DeliverKeepsJars ==
    ASSUME TypeOK, SessionInv, CookieInv, JarsInv, NEW r \in Requests, Deliver(r)
    PROVE  JarsInv'
<1>1. /\ UNCHANGED <<acct, tok, owner, expired>>
      /\ req'[r] = Idle /\ \A p \in Requests : p # r => req'[p] = req[p]
      /\ req'[r].token = NoToken /\ req'[r].reply = "none" /\ req[r].browser \in Browsers
      /\ \A b \in Browsers : jar'[b] =
            IF b # req[r].browser \/ req[r].reply = "none" THEN jar[b]
            ELSE IF req[r].reply = "set" THEN req[r].fresh ELSE NoToken
  BY DeliverEffect DEF Blank
<1>2. \A q \in Requests : req[q].reply = "set" => req[q].fresh # NoToken
  BY CookiesOfRows
<1>3. NewCookieInv'
  <2> SUFFICES ASSUME NEW q \in Requests, req'[q].reply = "set"
               PROVE  /\ Unspent(req[q].fresh)
                      /\ \A b \in Browsers : jar'[b] # req[q].fresh
                      /\ \A p \in Requests :
                            /\ req'[p].token # req[q].fresh
                            /\ req'[p].reply = "set" /\ req'[p].fresh = req[q].fresh => p = q
    BY <1>1 DEF NewCookieInv, Unspent
  <2>1. q # r /\ req[q].reply = "set"
    BY <1>1
  <2> QED
    BY <1>1, <1>2, <2>1 DEF JarsInv, NewCookieInv
<1>4. HeldCookieInv'
  <2> SUFFICES ASSUME NEW b \in Browsers, jar'[b] # NoToken
               PROVE  /\ \/ Unspent(jar'[b])
                         \/ \E q \in Requests : /\ req'[q].browser = b /\ req'[q].token = jar'[b]
                                                /\ req'[q].reply # "none"
                      /\ \A c \in Browsers : jar'[c] = jar'[b] => c = b
                      /\ \A q \in Requests : req'[q].token = jar'[b] => req'[q].browser = b
    BY <1>1 DEF HeldCookieInv, Unspent
  <2>1. CASE b = req[r].browser /\ req[r].reply = "set"
    <3>1. jar'[b] = req[r].fresh
      BY <1>1, <2>1
    <3>2. /\ Unspent(req[r].fresh)
          /\ \A c \in Browsers : jar[c] # req[r].fresh
          /\ \A q \in Requests : req[q].token # req[r].fresh
      BY <2>1 DEF JarsInv, NewCookieInv
    <3> QED
      BY <1>1, <1>2, <2>1, <3>1, <3>2
  <2>2. CASE b # req[r].browser \/ req[r].reply = "none"
    <3>1. jar'[b] = jar[b] /\ jar[b] # NoToken
      BY <1>1, <2>2
    <3>2. \A c \in Browsers : jar'[c] = jar[b] => c = b
      BY <1>1, <3>1 DEF JarsInv, HeldCookieInv, NewCookieInv
    <3>3. /\ \/ Unspent(jar[b])
             \/ \E q \in Requests : /\ req[q].browser = b /\ req[q].token = jar[b]
                                    /\ req[q].reply # "none"
          /\ \A q \in Requests : req[q].token = jar[b] => req[q].browser = b
      BY <3>1 DEF JarsInv, HeldCookieInv
    <3> QED
      BY <1>1, <2>2, <3>1, <3>2, <3>3
  <2> QED
    BY <1>1, <2>1, <2>2
<1> QED
  BY <1>3, <1>4 DEF JarsInv

LEMMA NextKeepsJars ==
    ASSUME ~Lossy
    PROVE  TypeOK /\ SessionInv /\ CookieInv /\ OneAtATime /\ JarsInv /\ [Next]_vars => JarsInv'
<1> SUFFICES ASSUME TypeOK, SessionInv, CookieInv, OneAtATime, JarsInv, [Next]_vars
             PROVE  JarsInv'
  OBVIOUS
<1>1. \A r \in Requests : ~Lose(r)
  BY DEF Lose
<1> QED
  BY <1>1, CookieSteps, QuietKeepsJars, SendCookieKeepsJars, LogoutKeepsJars,
     AcceptsKeepsJars, DeliverKeepsJars

LEMMA InitJars == Init => JarsInv
  BY DEF Init, JarsInv, NewCookieInv, HeldCookieInv, Idle

(* Nothing lost, a browser with no request under way holds no spent cookie, *)
(* whatever order its responses came back in (set_refresh_cookie,           *)
(* clear_refresh_cookie).                                                   *)
THEOREM JarsHold == ASSUME ~Lossy PROVE Spec => []JarHolds
<1>1. HeldCookieInv => JarHolds
  BY DEF HeldCookieInv, JarHolds
<1>2. JarsInv => JarHolds
  BY <1>1 DEF JarsInv
<1> QED
  BY <1>2, InitJars, NextKeepsJars, InitFlight, NextKeepsFlight, Inductive, PTL DEF Spec

-----------------------------------------------------------------------------
(* The one live token of a login, where nothing is lost. *)

Latest(q) == IF q.reply = "set" THEN q.fresh ELSE q.token

(* LatestInv for one login. *)
LatestOf(l) ==
    /\ \A r \in Requests : Presents(r, l) => LiveOf(l) \subseteq {Latest(req[r])}
    /\ \A b \in Browsers : jar[b] \in Lineage(l) =>
          /\ \A c \in Browsers : jar[c] \in Lineage(l) => c = b
          /\ \A r \in Requests : Presents(r, l) => b = req[r].browser /\ jar[b] = req[r].token
          /\ (\A r \in Requests : ~Presents(r, l)) => LiveOf(l) \subseteq {jar[b]}
    /\ \A r \in Requests : req[r].op = "login" /\ req[r].reply = "set" /\ req[r].fresh = l =>
          /\ \A b \in Browsers : jar[b] \notin Lineage(l)
          /\ \A q \in Requests : ~Presents(q, l)
          /\ LiveOf(l) \subseteq {l}
    /\ Lineage(l) \cap out # {} =>
          /\ LiveOf(l) = {}
          /\ \A r \in Requests : Presents(r, l) => ~At(r, "refresh", "looked")

LEMMA LatestByLogin == LatestInv <=> \A l \in Tokens \ raced : LatestOf(l)
  BY DEF LatestInv, LatestOf, Latest

LEMMA QuietKeepsLatest ==
    ASSUME TypeOK, SessionInv, CookieInv, LatestInv, Quiet
    PROVE  LatestInv'
<1>1. /\ \A p \in Requests : Carried(p)
      /\ \A t \in Tokens : tok'[t] = "live" => tok[t] = "live"
      /\ UNCHANGED <<jar, out, raced, root>>
  BY DEF Quiet
<1>2. \A l \in Tokens : Lineage(l)' = Lineage(l) /\ LiveOf(l)' \subseteq LiveOf(l)
  BY <1>1 DEF Lineage, LiveOf
<1>3. \A p \in Requests : /\ req'[p].token = req[p].token /\ req'[p].reply = req[p].reply
                          /\ req'[p].reply = "set" => /\ req'[p].fresh = req[p].fresh
                                                      /\ req'[p].op = req[p].op
                          /\ req'[p].token # NoToken => req'[p].browser = req[p].browser
                          /\ Latest(req'[p]) = Latest(req[p])
  BY <1>1 DEF Carried, Blank, Latest
<1>4. \A p \in Requests, l \in Tokens : Presents(p, l)' = Presents(p, l)
  BY <1>2, <1>3 DEF Presents
<1>5. \A p \in Requests, l \in Tokens : Presents(p, l) => req'[p].browser = req[p].browser
  BY <1>3, ConstantsDistinct DEF Presents, Lineage
<1> SUFFICES ASSUME NEW l \in Tokens \ raced
             PROVE  LatestOf(l)'
  BY <1>1, LatestByLogin DEF LatestInv, LatestOf, Latest
<1>6. LatestOf(l) /\ l \in Tokens
  BY LatestByLogin
<1>7. \A r \in Requests : Presents(r, l)' => LiveOf(l)' \subseteq {Latest(req'[r])}
  BY <1>2, <1>3, <1>4, <1>6 DEF LatestOf
<1>8. ASSUME NEW b \in Browsers, jar[b] \in Lineage(l)
      PROVE  /\ \A c \in Browsers : jar[c] \in Lineage(l) => c = b
             /\ \A r \in Requests : Presents(r, l) => b = req'[r].browser /\ jar[b] = req'[r].token
             /\ (\A r \in Requests : ~Presents(r, l)) => LiveOf(l)' \subseteq {jar[b]}
  BY <1>2, <1>3, <1>5, <1>6, <1>8 DEF LatestOf
<1>9. ASSUME NEW r \in Requests, req'[r].op = "login", req'[r].reply = "set", req'[r].fresh = l
      PROVE  /\ \A b \in Browsers : jar[b] \notin Lineage(l)
             /\ \A q \in Requests : ~Presents(q, l)
             /\ LiveOf(l)' \subseteq {l}
  BY <1>2, <1>3, <1>6, <1>9 DEF LatestOf
<1>10. ASSUME Lineage(l) \cap out # {}
       PROVE  /\ LiveOf(l)' = {}
              /\ \A r \in Requests : Presents(r, l) =>
                    ~(req'[r].op = "refresh" /\ req'[r].step = "looked")
  <2>1. /\ LiveOf(l) = {}
        /\ \A r \in Requests : Presents(r, l) => ~At(r, "refresh", "looked")
    BY <1>6, <1>10 DEF LatestOf
  <2>2. ASSUME NEW r \in Requests, Presents(r, l), req'[r].op = "refresh", req'[r].step = "looked"
        PROVE  FALSE
    <3>1. /\ req[r].op = "refresh"
          /\ req[r].step = "looked" \/ tok'[req[r].token] = "live"
      BY <1>1, <2>2 DEF Carried, Blank
    <3>2. tok'[req[r].token] = "live"
      BY <2>1, <2>2, <3>1 DEF At
    <3>3. req[r].token \in LiveOf(l)'
      BY <1>2, <2>2, <3>2 DEF Presents, LiveOf
    <3> QED
      BY <1>2, <2>1, <3>3
  <2> QED
    BY <1>2, <2>1, <2>2
<1> QED
  BY <1>1, <1>2, <1>4, <1>7, <1>8, <1>9, <1>10 DEF LatestOf, At

LEMMA SendCookieKeepsLatest ==
    ASSUME TypeOK, SessionInv, CookieInv, LatestInv, NEW b \in Browsers, NEW r \in Requests,
           NEW op \in {"refresh", "logout"}, SendCookie(b, r, op)
    PROVE  LatestInv'
<1>1. /\ UNCHANGED <<tok, root, jar, out>>
      /\ Blank(req[r])
      /\ \A p \in Requests : p # r => req'[p] = req[p]
      /\ req'[r].op = op /\ req'[r].step = "sent" /\ req'[r].browser = b
      /\ req'[r].token = jar[b] /\ req'[r].reply = "none"
      /\ raced \subseteq raced'
      /\ \A l \in Tokens \ raced' : jar[b] \in Lineage(l) =>
            \A q \in Requests : ~Presents(q, l)
  BY SendCookieEffect
<1>2. \A l \in Tokens : Lineage(l)' = Lineage(l) /\ LiveOf(l)' = LiveOf(l)
  BY <1>1 DEF Lineage, LiveOf
<1>3. \A l \in Tokens : /\ \A p \in Requests : p # r => Presents(p, l)' = Presents(p, l)
                        /\ Presents(r, l)' = (jar[b] \in Lineage(l))
                        /\ ~Presents(r, l)
  BY <1>1, <1>2, ConstantsDistinct DEF Presents, Blank, Lineage
<1> SUFFICES ASSUME NEW l \in Tokens \ raced'
             PROVE  LatestOf(l)'
  BY DEF LatestInv, LatestOf, Latest
<1>4. LatestOf(l) /\ l \in Tokens
  BY <1>1, LatestByLogin
<1>5. ASSUME NEW p \in Requests, Presents(p, l)'
      PROVE  LiveOf(l)' \subseteq {Latest(req'[p])}
  <2>1. CASE p = r
    <3>1. jar[b] \in Lineage(l) /\ \A q \in Requests : ~Presents(q, l)
      BY <1>1, <1>3, <1>4, <1>5, <2>1
    <3>2. LiveOf(l) \subseteq {jar[b]}
      BY <1>4, <3>1 DEF LatestOf
    <3> QED
      BY <1>1, <1>2, <1>4, <2>1, <3>2 DEF Latest
  <2>2. CASE p # r
    <3>1. Presents(p, l)
      BY <1>3, <1>4, <1>5, <2>2
    <3> QED
      BY <1>1, <1>2, <1>4, <2>2, <3>1 DEF LatestOf
  <2> QED
    BY <2>1, <2>2
<1>6. ASSUME NEW c \in Browsers, jar[c] \in Lineage(l)
      PROVE  /\ \A d \in Browsers : jar[d] \in Lineage(l) => d = c
             /\ \A p \in Requests : Presents(p, l)' => c = req'[p].browser /\ jar[c] = req'[p].token
             /\ (\A p \in Requests : ~(Presents(p, l)')) => LiveOf(l) \subseteq {jar[c]}
  <2>1. /\ \A d \in Browsers : jar[d] \in Lineage(l) => d = c
        /\ \A p \in Requests : Presents(p, l) => c = req[p].browser /\ jar[c] = req[p].token
        /\ (\A p \in Requests : ~Presents(p, l)) => LiveOf(l) \subseteq {jar[c]}
    BY <1>4, <1>6 DEF LatestOf
  <2>2. ASSUME NEW p \in Requests, Presents(p, l)'
        PROVE  c = req'[p].browser /\ jar[c] = req'[p].token
    <3>1. CASE p = r
      BY <1>1, <1>3, <1>4, <2>1, <2>2, <3>1
    <3>2. CASE p # r
      <4>1. Presents(p, l)
        BY <1>3, <1>4, <2>2, <3>2
      <4> QED
        BY <1>1, <2>1, <3>2, <4>1
    <3> QED
      BY <3>1, <3>2
  <2>3. ASSUME \A p \in Requests : ~(Presents(p, l)')
        PROVE  \A p \in Requests : ~Presents(p, l)
    BY <1>3, <1>4, <2>3
  <2> QED
    BY <2>1, <2>2, <2>3
<1>7. ASSUME NEW p \in Requests, req'[p].op = "login", req'[p].reply = "set", req'[p].fresh = l
      PROVE  /\ \A c \in Browsers : jar[c] \notin Lineage(l)
             /\ \A q \in Requests : ~(Presents(q, l)')
             /\ LiveOf(l) \subseteq {l}
  BY <1>1, <1>3, <1>4, <1>7 DEF LatestOf
<1>8. ASSUME Lineage(l) \cap out # {}
      PROVE  /\ LiveOf(l) = {}
             /\ \A p \in Requests : Presents(p, l)' =>
                   ~(req'[p].op = "refresh" /\ req'[p].step = "looked")
  BY <1>1, <1>3, <1>4, <1>8 DEF LatestOf, At
<1> QED
  BY <1>1, <1>2, <1>5, <1>6, <1>7, <1>8 DEF LatestOf, At

LEMMA LogoutKeepsLatest ==
    ASSUME TypeOK, SessionInv, CookieInv, OneAtATime, LatestInv, NEW r \in Requests, Logout(r)
    PROVE  LatestInv'
<1> DEFINE t == req[r].token
<1>1. /\ UNCHANGED <<root, jar, raced>> /\ t \in Tokens /\ out' = out \cup {t}
      /\ req[r].op = "logout" /\ req[r].step = "sent"
      /\ tok'[t] = "gone" /\ \A x \in Tokens : x # t => tok'[x] = tok[x]
      /\ \A p \in Requests : p # r => req'[p] = req[p]
      /\ req'[r].op = "logout" /\ req'[r].browser = req[r].browser
      /\ req'[r].token = t /\ req'[r].reply = "clear"
  BY LogoutEffect
<1>2. req[r].reply = "none"
  BY <1>1 DEF CookieInv
<1>3. /\ \A l \in Tokens : Lineage(l)' = Lineage(l) /\ LiveOf(l)' \subseteq LiveOf(l)
      /\ \A l \in Tokens : t \notin LiveOf(l)'
      /\ \A p \in Requests : /\ req'[p].token = req[p].token
                             /\ req'[p].browser = req[p].browser
                             /\ Latest(req'[p]) = Latest(req[p])
                             /\ req'[p].op = req[p].op
                             /\ req'[p].reply = "set" => req'[p] = req[p]
  BY <1>1, <1>2 DEF Lineage, LiveOf, Latest
<1>4. \A p \in Requests, l \in Tokens : Presents(p, l)' = Presents(p, l)
  BY <1>3 DEF Presents
<1> HIDE DEF t
<1> SUFFICES ASSUME NEW l \in Tokens \ raced
             PROVE  LatestOf(l)'
  BY <1>1 DEF LatestInv, LatestOf, Latest
<1>5. LatestOf(l) /\ l \in Tokens
  BY LatestByLogin
<1>6. \A p \in Requests : Presents(p, l) => LiveOf(l)' \subseteq {Latest(req'[p])}
  BY <1>3, <1>5 DEF LatestOf
<1>7. ASSUME NEW b \in Browsers, jar[b] \in Lineage(l)
      PROVE  /\ \A c \in Browsers : jar[c] \in Lineage(l) => c = b
             /\ \A p \in Requests : Presents(p, l) => b = req'[p].browser /\ jar[b] = req'[p].token
             /\ (\A p \in Requests : ~Presents(p, l)) => LiveOf(l)' \subseteq {jar[b]}
  BY <1>3, <1>5, <1>7 DEF LatestOf
<1>8. ASSUME NEW p \in Requests, req'[p].op = "login", req'[p].reply = "set", req'[p].fresh = l
      PROVE  /\ \A b \in Browsers : jar[b] \notin Lineage(l)
             /\ \A q \in Requests : ~Presents(q, l)
             /\ LiveOf(l)' \subseteq {l}
  BY <1>3, <1>5, <1>8 DEF LatestOf
<1>9. ASSUME Lineage(l) \cap out' # {}
      PROVE  /\ LiveOf(l)' = {}
             /\ \A p \in Requests : Presents(p, l) =>
                   ~(req'[p].op = "refresh" /\ req'[p].step = "looked")
  <2>1. CASE Lineage(l) \cap out # {}
    BY <1>1, <1>3, <1>5, <2>1 DEF LatestOf, At
  <2>2. CASE t \in Lineage(l)
    <3>1. Presents(r, l)
      BY <2>2 DEF Presents, t
    <3>2. LiveOf(l) \subseteq {t}
      BY <1>2, <1>5, <3>1 DEF LatestOf, Latest, t
    <3>3. \A p \in Requests : Presents(p, l) => p = r
      BY <3>1 DEF OneAtATime
    <3> QED
      BY <1>1, <1>3, <3>2, <3>3
  <2> QED
    BY <1>1, <1>9, <2>1, <2>2
<1> QED
  BY <1>1, <1>3, <1>4, <1>6, <1>7, <1>8, <1>9 DEF LatestOf, At

LEMMA AcceptsKeepsLatest ==
    ASSUME TypeOK, SessionInv, CookieInv, OneAtATime, LatestInv, NEW r \in Requests,
           NEW t \in Tokens, NEW l0 \in Tokens, Accepts(r, t, l0)
    PROVE  LatestInv'
<1>1. /\ tok[t] = "free" /\ tok'[t] = "live" /\ root' = [root EXCEPT ![t] = l0]
      /\ \A p \in Requests : p # r => req'[p] = req[p]
      /\ req[r].step = "looked" /\ req'[r].step = "replied"
      /\ req'[r].op = req[r].op /\ req'[r].browser = req[r].browser
      /\ req'[r].token = req[r].token /\ req'[r].reply = "set" /\ req'[r].fresh = t
      /\ req[r].op \in {"login", "refresh"}
      /\ UNCHANGED <<jar, out, raced>>
  BY DEF Accepts
<1>2. /\ \A l \in Tokens : t \notin Lineage(l)
      /\ \A l \in Tokens : l # l0 => Lineage(l)' = Lineage(l)
      /\ Lineage(l0)' = Lineage(l0) \cup {t} /\ Lineage(t) = {}
  BY <1>1, NewLineage
<1>3. /\ req[r].op = "login" => l0 = t /\ Lineage(l0) = {}
      /\ req[r].op = "refresh" => Presents(r, l0)
      /\ \A l \in Tokens : l # l0 => LiveOf(l)' \subseteq LiveOf(l)
      /\ l0 \notin raced => LiveOf(l0)' \subseteq {t}
      /\ \A p \in Requests, l \in Tokens : Presents(p, l)' = Presents(p, l)
  BY AcceptsRows
<1>4. /\ \A b \in Browsers : jar[b] # t
      /\ \A p \in Requests : req[p].reply = "set" => req[p].fresh # t
      /\ t \notin out
  BY <1>1, CookiesOfRows, ConstantsDistinct DEF CookieInv
<1>5. \A l \in Tokens : /\ \A b \in Browsers : (jar[b] \in Lineage(l)') = (jar[b] \in Lineage(l))
                        /\ Lineage(l)' \cap out = Lineage(l) \cap out
  BY <1>2, <1>4
<1>6. req[r].op = "login" => req[r].token = NoToken /\ \A l \in Tokens : ~Presents(r, l)
  BY ConstantsDistinct DEF CookieInv, Presents, Lineage
<1> SUFFICES ASSUME NEW l \in Tokens \ raced
             PROVE  LatestOf(l)'
  BY <1>1 DEF LatestInv, LatestOf, Latest
<1>7. LatestOf(l) /\ l \in Tokens
  BY LatestByLogin
<1>8. \A p, q \in Requests : Presents(p, l) /\ Presents(q, l) => p = q
  BY DEF OneAtATime
<1>9. \A p \in Requests : Presents(p, l) => LiveOf(l)' \subseteq {Latest(req'[p])}
  <2> SUFFICES ASSUME NEW p \in Requests, Presents(p, l)
               PROVE  LiveOf(l)' \subseteq {Latest(req'[p])}
    OBVIOUS
  <2>1. CASE l = l0
    <3>1. req[r].op = "refresh"
      BY <1>1, <1>3, <2>1 DEF Presents
    <3>2. p = r
      BY <1>3, <1>8, <2>1, <3>1
    <3> QED
      BY <1>1, <1>3, <2>1, <3>2 DEF Latest
  <2>2. CASE l # l0
    <3>1. p # r
      <4> SUFFICES ASSUME p = r
                   PROVE  FALSE
        OBVIOUS
      <4>1. req[r].op = "refresh" /\ root[req[r].token] = l
        BY <1>1, <1>6, <1>7 DEF Presents, Lineage
      <4> QED
        BY <2>2, <4>1 DEF Accepts
    <3> QED
      BY <1>1, <1>3, <1>7, <2>2, <3>1 DEF LatestOf
  <2> QED
    BY <2>1, <2>2
<1>10. ASSUME NEW b \in Browsers, jar[b] \in Lineage(l)
       PROVE  /\ \A c \in Browsers : jar[c] \in Lineage(l) => c = b
              /\ \A p \in Requests : Presents(p, l) => b = req'[p].browser /\ jar[b] = req'[p].token
              /\ (\A p \in Requests : ~Presents(p, l)) => LiveOf(l)' \subseteq {jar[b]}
  <2>1. \A p \in Requests : req'[p].browser = req[p].browser /\ req'[p].token = req[p].token
    BY <1>1
  <2>2. (\A p \in Requests : ~Presents(p, l)) => l # l0
    BY <1>1, <1>3, <1>10
  <2> QED
    BY <1>3, <1>7, <1>10, <2>1, <2>2 DEF LatestOf
<1>11. ASSUME NEW p \in Requests, req'[p].op = "login", req'[p].reply = "set", req'[p].fresh = l
       PROVE  /\ \A b \in Browsers : jar[b] \notin Lineage(l)
              /\ \A q \in Requests : ~Presents(q, l)
              /\ LiveOf(l)' \subseteq {l}
  <2>1. CASE p = r
    <3>1. l = t /\ l = l0 /\ Lineage(l) = {}
      BY <1>1, <1>3, <1>11, <2>1
    <3> QED
      BY <1>3, <3>1 DEF Presents
  <2>2. CASE p # r
    <3>1. /\ req[p].op = "login" /\ req[p].reply = "set" /\ req[p].fresh = l
      BY <1>1, <1>11, <2>2
    <3>2. /\ \A b \in Browsers : jar[b] \notin Lineage(l)
          /\ \A q \in Requests : ~Presents(q, l)
          /\ LiveOf(l) \subseteq {l}
      BY <1>7, <3>1 DEF LatestOf
    <3>3. l # l0
      BY <1>1, <1>3, <1>4, <3>1, <3>2
    <3> QED
      BY <1>3, <3>2, <3>3
  <2> QED
    BY <2>1, <2>2
<1>12. ASSUME Lineage(l) \cap out # {}
       PROVE  /\ LiveOf(l)' = {}
              /\ \A p \in Requests : Presents(p, l) =>
                    ~(req'[p].op = "refresh" /\ req'[p].step = "looked")
  <2>1. /\ LiveOf(l) = {}
        /\ \A p \in Requests : Presents(p, l) => ~(req[p].op = "refresh" /\ req[p].step = "looked")
    BY <1>7, <1>12 DEF LatestOf, At
  <2>2. l # l0
    BY <1>1, <1>3, <1>12, <2>1
  <2> QED
    BY <1>1, <1>3, <2>1, <2>2
<1> QED
  BY <1>1, <1>3, <1>5, <1>9, <1>10, <1>11, <1>12 DEF LatestOf, At

LEMMA DeliverKeepsLatest ==
    ASSUME TypeOK, SessionInv, CookieInv, OneAtATime, NewCookieInv, LatestInv,
           NEW r \in Requests, Deliver(r)
    PROVE  LatestInv'
<1>1. /\ UNCHANGED <<tok, root, out, raced>>
      /\ req'[r] = Idle /\ \A p \in Requests : p # r => req'[p] = req[p]
      /\ Idle.token = NoToken /\ Idle.reply = "none" /\ Idle.op # "refresh"
      /\ req[r].browser \in Browsers
      /\ \A b \in Browsers : jar'[b] =
            IF b # req[r].browser \/ req[r].reply = "none" THEN jar[b]
            ELSE IF req[r].reply = "set" THEN req[r].fresh ELSE NoToken
  BY DeliverEffect DEF Blank
<1>2. \A l \in Tokens : Lineage(l)' = Lineage(l) /\ LiveOf(l)' = LiveOf(l)
  BY <1>1 DEF Lineage, LiveOf
<1>3. \A p \in Requests, l \in Tokens : Presents(p, l)' = (p # r /\ Presents(p, l))
  BY <1>1, <1>2, ConstantsDistinct DEF Presents, Lineage
<1> SUFFICES ASSUME NEW l \in Tokens \ raced
             PROVE  LatestOf(l)'
  BY <1>1 DEF LatestInv, LatestOf, Latest
<1>4. LatestOf(l) /\ l \in Tokens /\ NoToken \notin Lineage(l)
  BY LatestByLogin, ConstantsDistinct DEF Lineage
<1>5. \A p, q \in Requests : Presents(p, l) /\ Presents(q, l) => p = q
  BY DEF OneAtATime
(* The login of a cookie on its way has no other, or r's request was of it. *)
<1>6. ASSUME req[r].reply = "set", req[r].fresh \in Lineage(l)
      PROVE  /\ \/ /\ req[r].op = "login" /\ req[r].fresh = l
                   /\ \A b \in Browsers : jar[b] \notin Lineage(l)
                   /\ \A q \in Requests : ~Presents(q, l)
                \/ /\ Presents(r, l)
                   /\ \A b \in Browsers : jar[b] \in Lineage(l) => b = req[r].browser
             /\ LiveOf(l) \subseteq {req[r].fresh}
  <2>1. \/ req[r].op = "login" /\ root[req[r].fresh] = req[r].fresh
        \/ req[r].op = "refresh" /\ root[req[r].fresh] = root[req[r].token]
    BY <1>6 DEF CookieInv
  <2>2. root[req[r].fresh] = l
    BY <1>6 DEF Lineage
  <2>3. CASE req[r].op = "login" /\ req[r].fresh = l
    BY <1>4, <1>6, <2>3 DEF LatestOf
  <2>4. CASE req[r].op = "refresh" /\ root[req[r].token] = l
    <3>1. req[r].token \in Tokens
      BY <2>4, CookiesOfRows DEF CookieInv
    <3>2. Presents(r, l)
      BY <2>4, <3>1 DEF Presents, Lineage
    <3> QED
      BY <1>4, <1>6, <3>2 DEF LatestOf, Latest
  <2> QED
    BY <2>1, <2>2, <2>3, <2>4
<1>7. \A p \in Requests : p # r /\ Presents(p, l) => LiveOf(l) \subseteq {Latest(req[p])}
  BY <1>4 DEF LatestOf
<1>8. ASSUME NEW b \in Browsers, jar'[b] \in Lineage(l)
      PROVE  /\ \A c \in Browsers : jar'[c] \in Lineage(l) => c = b
             /\ \A p \in Requests : p # r /\ Presents(p, l) =>
                   b = req[p].browser /\ jar'[b] = req[p].token
             /\ (\A p \in Requests : ~(p # r /\ Presents(p, l))) => LiveOf(l) \subseteq {jar'[b]}
  <2>1. CASE b = req[r].browser /\ req[r].reply = "set"
    <3>1. jar'[b] = req[r].fresh
      BY <1>1, <2>1
    <3>2. \A c \in Browsers : jar'[c] \in Lineage(l) => c = b
      BY <1>1, <1>6, <1>8, <2>1, <3>1
    <3>3. \A p \in Requests : ~(p # r /\ Presents(p, l))
      BY <1>5, <1>6, <1>8, <2>1, <3>1
    <3> QED
      BY <1>6, <1>8, <2>1, <3>1, <3>2, <3>3
  <2>2. CASE b # req[r].browser \/ req[r].reply = "none"
    <3>1. jar'[b] = jar[b] /\ jar[b] \in Lineage(l)
      BY <1>1, <1>8, <2>2
    <3>2. /\ \A c \in Browsers : jar[c] \in Lineage(l) => c = b
          /\ \A p \in Requests : Presents(p, l) => b = req[p].browser /\ jar[b] = req[p].token
          /\ (\A p \in Requests : ~Presents(p, l)) => LiveOf(l) \subseteq {jar[b]}
      BY <1>4, <3>1 DEF LatestOf
    <3>3. ASSUME NEW c \in Browsers, jar'[c] \in Lineage(l)
          PROVE  c = b
      <4>1. CASE c = req[r].browser /\ req[r].reply = "set"
        <5>1. req[r].fresh \in Lineage(l)
          BY <1>1, <3>3, <4>1
        <5> QED
          BY <1>6, <3>1, <4>1, <5>1
      <4>2. CASE c # req[r].browser \/ req[r].reply = "none"
        BY <1>1, <3>2, <3>3, <4>2
      <4> QED
        BY <1>1, <1>4, <3>3, <4>1, <4>2
    <3>4. Presents(r, l) => LiveOf(l) \subseteq {jar[b]}
      BY <1>4, <2>2, <3>2 DEF LatestOf, Latest
    <3> QED
      BY <3>1, <3>2, <3>3, <3>4
  <2> QED
    BY <1>1, <1>4, <1>8, <2>1, <2>2
<1>9. ASSUME NEW p \in Requests, p # r,
             req[p].op = "login", req[p].reply = "set", req[p].fresh = l
      PROVE  /\ \A b \in Browsers : jar'[b] \notin Lineage(l)
             /\ \A q \in Requests : ~Presents(q, l)
             /\ LiveOf(l) \subseteq {l}
  <2>1. /\ \A b \in Browsers : jar[b] \notin Lineage(l)
        /\ \A q \in Requests : ~Presents(q, l)
        /\ LiveOf(l) \subseteq {l}
    BY <1>4, <1>9 DEF LatestOf
  <2>2. req[r].reply = "set" => req[r].fresh \notin Lineage(l)
    BY <1>6, <1>9, <2>1 DEF NewCookieInv
  <2> QED
    BY <1>1, <1>4, <2>1, <2>2
<1>10. Lineage(l) \cap out # {} =>
          /\ LiveOf(l) = {}
          /\ \A p \in Requests : p # r /\ Presents(p, l) => ~At(p, "refresh", "looked")
  BY <1>4 DEF LatestOf
<1>11. \A p \in Requests : req'[p].op = "login" /\ req'[p].reply = "set" => p # r
  BY <1>1
<1>12. (\A p \in Requests : Presents(p, l) => LiveOf(l) \subseteq {Latest(req[p])})'
  BY <1>1, <1>2, <1>3, <1>4, <1>7
<1>13. (\A b \in Browsers : jar[b] \in Lineage(l) =>
          /\ \A c \in Browsers : jar[c] \in Lineage(l) => c = b
          /\ \A p \in Requests : Presents(p, l) => b = req[p].browser /\ jar[b] = req[p].token
          /\ (\A p \in Requests : ~Presents(p, l)) => LiveOf(l) \subseteq {jar[b]})'
  <2> SUFFICES ASSUME NEW b \in Browsers, (jar[b] \in Lineage(l))'
               PROVE  (/\ \A c \in Browsers : jar[c] \in Lineage(l) => c = b
                       /\ \A p \in Requests : Presents(p, l) =>
                             b = req[p].browser /\ jar[b] = req[p].token
                       /\ (\A p \in Requests : ~Presents(p, l)) => LiveOf(l) \subseteq {jar[b]})'
    OBVIOUS
  <2>1. jar'[b] \in Lineage(l)
    BY <1>2, <1>4
  <2>2. (\A c \in Browsers : jar[c] \in Lineage(l) => c = b)'
    BY <1>2, <1>4, <1>8, <2>1
  <2>3. (\A p \in Requests : Presents(p, l) => b = req[p].browser /\ jar[b] = req[p].token)'
    <3> SUFFICES ASSUME NEW p \in Requests, Presents(p, l)'
                 PROVE  b = req'[p].browser /\ jar'[b] = req'[p].token
      OBVIOUS
    <3>1. p # r /\ Presents(p, l)
      BY <1>3, <1>4
    <3> QED
      BY <1>1, <1>8, <2>1, <3>1
  <2>4. ((\A p \in Requests : ~Presents(p, l)) => LiveOf(l) \subseteq {jar[b]})'
    <3> SUFFICES ASSUME \A p \in Requests : ~(Presents(p, l)')
                 PROVE  LiveOf(l)' \subseteq {jar'[b]}
      OBVIOUS
    <3>1. \A p \in Requests : ~(p # r /\ Presents(p, l))
      BY <1>3, <1>4
    <3> QED
      BY <1>2, <1>4, <1>8, <2>1, <3>1
  <2> QED
    BY <2>2, <2>3, <2>4
<1>14. (\A p \in Requests : req[p].op = "login" /\ req[p].reply = "set" /\ req[p].fresh = l =>
          /\ \A b \in Browsers : jar[b] \notin Lineage(l)
          /\ \A q \in Requests : ~Presents(q, l)
          /\ LiveOf(l) \subseteq {l})'
  BY <1>1, <1>2, <1>3, <1>4, <1>9, <1>11
<1>15. (Lineage(l) \cap out # {} =>
          /\ LiveOf(l) = {}
          /\ \A p \in Requests : Presents(p, l) => ~At(p, "refresh", "looked"))'
  BY <1>1, <1>2, <1>3, <1>4, <1>10 DEF At
<1> QED
  BY <1>12, <1>13, <1>14, <1>15 DEF LatestOf

LEMMA NextKeepsLatest ==
    ASSUME ~Lossy
    PROVE  TypeOK /\ SessionInv /\ CookieInv /\ OneAtATime /\ JarsInv /\ LatestInv
              /\ [Next]_vars => LatestInv'
<1> SUFFICES ASSUME TypeOK, SessionInv, CookieInv, OneAtATime, JarsInv, LatestInv, [Next]_vars
             PROVE  LatestInv'
  OBVIOUS
<1>1. \A r \in Requests : ~Lose(r)
  BY DEF Lose
<1>2. NewCookieInv
  BY DEF JarsInv
<1> QED
  BY <1>1, <1>2, CookieSteps, QuietKeepsLatest, SendCookieKeepsLatest, LogoutKeepsLatest,
     AcceptsKeepsLatest, DeliverKeepsLatest

LEMMA InitLatest == Init => LatestInv
<1> SUFFICES ASSUME Init PROVE LatestInv
  OBVIOUS
<1>1. \A l \in Tokens : Lineage(l) = {} /\ LiveOf(l) = {}
  BY ConstantsDistinct DEF Init, Lineage, LiveOf
<1> QED
  BY <1>1 DEF Init, LatestInv, Presents, Idle

(* Where a login's requests are sent one at a time and nothing is lost, its *)
(* tokens are never two, and none once it is logged out (the promise the    *)
(* client's single-flight refresher buys).                                  *)
THEOREM SingleFlight == ASSUME ~Lossy PROVE Spec => []SingleFlightIsSafe
<1>1. TypeOK /\ OneAtATime /\ LatestInv => SingleFlightIsSafe
  <2> SUFFICES ASSUME OneAtATime, LatestInv, NEW l \in Tokens \ raced
               PROVE  /\ Cardinality(LiveOf(l)) <= 1
                      /\ Lineage(l) \cap out # {} => LiveOf(l) = {}
    BY DEF SingleFlightIsSafe, LiveOf
  <2>1. Cardinality(LiveOf(l)) <= 1
    <3>1. CASE LiveOf(l) = {}
      BY <3>1, FS_EmptySet
    <3>2. CASE LiveOf(l) # {}
      <4>1. PICK x : x \in LiveOf(l)
        BY <3>2
      <4>2. LiveOf(l) = {x}
        BY <4>1 DEF OneAtATime
      <4> QED
        BY <4>2, FS_Singleton
    <3> QED
      BY <3>1, <3>2
  <2> QED
    BY <2>1 DEF LatestInv
<1> QED
  BY <1>1, InitLatest, NextKeepsLatest, InitJars, NextKeepsJars, InitFlight, NextKeepsFlight,
     Inductive, PTL DEF Spec
=============================================================================
