------------------------- MODULE AuthProviderProofs -------------------------
(***************************************************************************)
(* Proofs about AuthProvider, for every set of tokens and of API calls: one *)
(* refresh is in flight at a time, everyone who waits is answered by it, and *)
(* a boot that lost the race with a login leaves the login's session alone. *)
(***************************************************************************)
EXTENDS AuthProvider, TLAPS

IInv == TypeOK /\ OneRefresh

LEMMA InitEstablishes == Init => IInv
<1> SUFFICES ASSUME Init PROVE IInv
  OBVIOUS
<1>1. Quiet \in Call /\ Quiet.step = "idle"
  BY DEF Quiet, Call
<1>2. req \in [Requests -> Call] /\ \A r \in Requests : req[r].step # "waiting"
  BY <1>1 DEF Init
<1>3. issued \subseteq Tokens /\ expired \subseteq issued
  BY DEF Init
<1>4. TypeOK
  BY <1>2, <1>3 DEF Init, TypeOK
<1> QED
  BY <1>2, <1>4 DEF Init, IInv, OneRefresh

-----------------------------------------------------------------------------
(* The renewal. *)

(* Whoever asks for a renewal joins the one in flight, or is alone with it. *)
LEMMA RenewShares ==
    ASSUME IInv, NEW w \in Callers, Renew(w)
    PROVE  /\ waiters' = waiters \cup {w} /\ waiters' \subseteq Callers
           /\ calls' = 1 /\ before' \in Tokens \cup {NoToken}
  BY DEF Renew, IInv, TypeOK, OneRefresh

(* A settled refresh leaves nobody waiting. *)
LEMMA SettleAnswers ==
    ASSUME IInv, NEW ok \in BOOLEAN, Settle(ok), memory' \in Tokens \cup {NoToken}
    PROVE  /\ waiters' = {} /\ calls' = 0 /\ before' = NoToken
           /\ req' \in [Requests -> Call]
           /\ \A r \in Requests : req'[r].step # "waiting"
<1>1. calls' = 0 /\ waiters' = {} /\ before' = NoToken
  BY DEF Settle, IInv, TypeOK, OneRefresh
<1>2. ASSUME NEW r \in Requests
      PROVE  req'[r] \in Call /\ req'[r].step # "waiting"
  <2>1. req[r] \in Call /\ (req[r].step = "waiting" <=> r \in waiters)
    BY DEF IInv, TypeOK, OneRefresh
  <2>2. CASE r \notin waiters
    BY <2>1, <2>2 DEF Settle
  <2>3. CASE r \in waiters /\ ok
    <3>1. req'[r] = [step |-> "sent", token |-> memory', retried |-> TRUE]
      BY <2>3 DEF Settle
    <3> QED
      BY <3>1 DEF Call
  <2>4. CASE r \in waiters /\ ~ok
    BY <2>4 DEF Settle, Quiet, Call
  <2> QED
    BY <2>2, <2>3, <2>4
<1>3. req' \in [Requests -> Call]
  BY <1>2 DEF Settle
<1> QED
  BY <1>1, <1>2, <1>3

-----------------------------------------------------------------------------
(* One lemma per action, grouped by what the action leaves alone. *)

(* What neither renews nor calls. *)
LEMMA OthersKeep ==
    ASSUME IInv,
           \/ RunEffects \/ SubmitLogin \/ LoginSettles \/ SignOut
           \/ \E t \in Tokens : Expire(t)
    PROVE  IInv'
<1>1. UNCHANGED <<waiters, calls, before, req>>
  BY DEF RunEffects, SubmitLogin, LoginSettles, LoginFails, LoginSucceeds, SignOut,
         Expire, renewal
<1>2. OneRefresh'
  BY <1>1 DEF IInv, OneRefresh
<1>3. TypeOK'
  BY <1>1 DEF IInv, TypeOK, RunEffects, SubmitLogin, LoginSettles, LoginFails,
              LoginSucceeds, SignOut, EndSession, Expire, session, renewal
<1> QED
  BY <1>2, <1>3 DEF IInv

LEMMA BootKeeps ==
    ASSUME IInv, BootEffect
    PROVE  IInv'
<1>1. CASE LegacyQualifies
  BY <1>1 DEF BootEffect, LegacyQualifies, IInv, TypeOK, OneRefresh, renewal
<1>2. CASE ~LegacyQualifies
  <2>1. /\ Renew(Boot) /\ booted' = TRUE /\ legacy' = NoToken
        /\ UNCHANGED <<memory, token, initialised, sessionExpired>>
        /\ UNCHANGED <<shown, timer, login, req, issued, expired, left>>
    BY <1>2 DEF BootEffect, session
  <2>2. /\ waiters' = waiters \cup {Boot} /\ waiters' \subseteq Callers
        /\ calls' = 1 /\ before' \in Tokens \cup {NoToken}
    BY <2>1, RenewShares DEF Callers
  <2>3. Boot \notin Requests
    BY ConstantsDistinct
  <2> QED
    BY <2>1, <2>2, <2>3 DEF IInv, TypeOK, OneRefresh
<1> QED
  BY <1>1, <1>2

LEMMA TimerKeeps ==
    ASSUME IInv, TimerFires
    PROVE  IInv'
<1>1. /\ Renew(Timer) /\ timer' = NoToken
      /\ UNCHANGED <<memory, token, initialised, sessionExpired>>
      /\ UNCHANGED <<shown, booted, legacy, login, req, issued, expired, left>>
  BY DEF TimerFires, session
<1>2. /\ waiters' = waiters \cup {Timer} /\ waiters' \subseteq Callers
      /\ calls' = 1 /\ before' \in Tokens \cup {NoToken}
  BY <1>1, RenewShares DEF Callers
<1>3. Timer \notin Requests
  BY ConstantsDistinct
<1> QED
  BY <1>1, <1>2, <1>3 DEF IInv, TypeOK, OneRefresh

LEMMA SettlesKeep ==
    ASSUME IInv, RefreshSettles
    PROVE  IInv'
<1>1. CASE RefreshFails
  <2>1. /\ Settle(FALSE) /\ UNCHANGED issued
        /\ memory' \in {memory, NoToken} /\ token' \in {token, NoToken}
        /\ initialised' = TRUE /\ sessionExpired' \in {sessionExpired, TRUE}
    BY <1>1 DEF RefreshFails, EndSession
  <2>2. memory' \in Tokens \cup {NoToken}
    BY <2>1 DEF IInv, TypeOK
  <2>3. /\ waiters' = {} /\ calls' = 0 /\ before' = NoToken /\ req' \in [Requests -> Call]
        /\ \A r \in Requests : req'[r].step # "waiting"
    BY <2>1, <2>2, SettleAnswers
  <2>4. UNCHANGED <<shown, timer, booted, legacy, login, expired, left>>
    BY <2>1 DEF Settle
  <2>5. /\ memory' \in Tokens \cup {NoToken} /\ token' \in Tokens \cup {NoToken}
        /\ initialised' \in BOOLEAN /\ sessionExpired' \in BOOLEAN
    BY <2>1 DEF IInv, TypeOK
  <2>6. TypeOK'
    BY <2>1, <2>3, <2>4, <2>5 DEF IInv, TypeOK
  <2> QED
    BY <2>3, <2>6 DEF IInv, OneRefresh
<1>2. ASSUME NEW t \in Tokens, RefreshSucceeds(t)
      PROVE  IInv'
  <2>1. /\ Settle(TRUE) /\ issued' = issued \cup {t} /\ memory' = t /\ token' = t
        /\ initialised' = TRUE /\ sessionExpired' = FALSE
    BY <1>2 DEF RefreshSucceeds
  <2>2. /\ waiters' = {} /\ calls' = 0 /\ before' = NoToken /\ req' \in [Requests -> Call]
        /\ \A r \in Requests : req'[r].step # "waiting"
    BY <2>1, SettleAnswers
  <2>3. UNCHANGED <<shown, timer, booted, legacy, login, expired, left>>
    BY <2>1 DEF Settle
  <2>4. initialised' \in BOOLEAN /\ sessionExpired' \in BOOLEAN
    BY <2>1
  <2>5. TypeOK'
    BY <2>1, <2>2, <2>3, <2>4 DEF IInv, TypeOK
  <2> QED
    BY <2>2, <2>5 DEF IInv, OneRefresh
<1> QED
  BY <1>1, <1>2 DEF RefreshSettles

LEMMA CallsKeep ==
    ASSUME IInv, NEW r \in Requests, Send(r) \/ Answered(r) \/ Rejected(r)
    PROVE  IInv'
<1>1. CASE Send(r)
  <2>1. [step |-> "sent", token |-> memory, retried |-> FALSE] \in Call
    BY DEF IInv, TypeOK, Call
  <2>2. r \notin waiters
    BY <1>1 DEF Send, Quiet, IInv, OneRefresh
  <2> QED
    BY <1>1, <2>1, <2>2 DEF Send, session, renewal, IInv, TypeOK, OneRefresh
<1>2. CASE Answered(r)
  <2>1. Quiet \in Call
    BY DEF Quiet, Call
  <2> QED
    BY <1>2, <2>1 DEF Answered, Quiet, session, renewal, IInv, TypeOK, OneRefresh
<1>3. CASE Rejected(r)
  <2>1. req[r] \in Call /\ req[r].step = "sent"
    BY <1>3 DEF Rejected, IInv, TypeOK
  <2>2. CASE Seams /\ ~req[r].retried
    <3>1. /\ Renew(r) /\ req' = [req EXCEPT ![r].step = "waiting"]
          /\ UNCHANGED <<memory, token, initialised, sessionExpired>>
          /\ UNCHANGED <<shown, timer, booted, legacy, login, issued, expired, left>>
      BY <1>3, <2>2 DEF Rejected, session
    <3>2. /\ waiters' = waiters \cup {r} /\ waiters' \subseteq Callers
          /\ calls' = 1 /\ before' \in Tokens \cup {NoToken}
      BY <3>1, RenewShares DEF Callers
    <3>3. [req[r] EXCEPT !.step = "waiting"] \in Call
      BY <2>1 DEF Call
    <3>4. req' \in [Requests -> Call] /\ req'[r].step = "waiting"
      BY <2>1, <3>1, <3>3 DEF IInv, TypeOK, Call
    <3>5. \A x \in Requests : x # r => req'[x] = req[x]
      BY <3>1
    <3> QED
      BY <3>1, <3>2, <3>4, <3>5 DEF IInv, TypeOK, OneRefresh
  <2>3. CASE ~(Seams /\ ~req[r].retried)
    <3>1. /\ req' = [req EXCEPT ![r] = Quiet]
          /\ memory' \in {memory, NoToken} /\ token' \in {token, NoToken}
          /\ initialised' \in {initialised, TRUE}
          /\ sessionExpired' \in {sessionExpired, TRUE}
          /\ UNCHANGED <<before, waiters, calls>>
          /\ UNCHANGED <<shown, timer, booted, legacy, login, issued, expired, left>>
      BY <1>3, <2>3 DEF Rejected, EndSession, session, renewal
    <3>2. Quiet \in Call /\ Quiet.step = "idle"
      BY DEF Quiet, Call
    <3>3. r \notin waiters
      BY <2>1 DEF IInv, OneRefresh
    <3> QED
      BY <3>1, <3>2, <3>3 DEF IInv, TypeOK, OneRefresh
  <2> QED
    BY <2>2, <2>3
<1> QED
  BY <1>1, <1>2, <1>3

-----------------------------------------------------------------------------
LEMMA NextKeeps == IInv /\ [Next]_vars => IInv'
<1> SUFFICES ASSUME IInv, [Next]_vars PROVE IInv'
  OBVIOUS
<1>1. CASE UNCHANGED vars
  BY <1>1 DEF vars, IInv, TypeOK, OneRefresh
<1>2. CASE Next
  BY <1>2, OthersKeep, BootKeeps, TimerKeeps, SettlesKeep, CallsKeep DEF Next
<1> QED
  BY <1>1, <1>2

LEMMA Inductive == Spec => []IInv
  BY InitEstablishes, NextKeeps, PTL DEF Spec

(* Every variable keeps its type: what the provider holds, shows and arms its *)
(* timer for are tokens, and only those handed out can expire.                *)
THEOREM TypeCorrect == Spec => []TypeOK
<1>1. IInv => TypeOK
  BY DEF IInv
<1> QED
  BY <1>1, Inductive, PTL

(* However boots, timers and rejected calls interleave, one refresh is in    *)
(* flight, and it is in flight exactly while somebody waits for it (renew-    *)
(* Session of auth/AuthContext.tsx).                                         *)
THEOREM RefreshesAreShared == Spec => []OneRefresh
<1>1. IInv => OneRefresh
  BY DEF IInv
<1> QED
  BY <1>1, Inductive, PTL

(* The one way a step of the provider can settle a renewal without a token is *)
(* a failure, and a failure that only the boot waits for keeps its hands off  *)
(* a session it did not start with.                                          *)
LEMMA OnlyFailuresSettle ==
    ASSUME IInv, Next, calls > 0, calls' = 0, issued' = issued
    PROVE  RefreshFails
<1>1. calls \in Nat
  BY DEF IInv, TypeOK
<1>2. ASSUME NEW w, Renew(w) PROVE FALSE
  BY <1>1, <1>2 DEF Renew
<1>3. ASSUME NEW t \in Tokens, RefreshSucceeds(t) PROVE FALSE
  BY <1>3 DEF RefreshSucceeds
<1>4. ~BootEffect /\ ~TimerFires
  BY <1>1, <1>2 DEF BootEffect, TimerFires, renewal
<1>5. calls' # calls
  BY <1>1
<1>6. ~RunEffects /\ ~SubmitLogin /\ ~SignOut /\ ~LoginSettles
  <2>1. ~RunEffects /\ ~SubmitLogin
    BY <1>5 DEF RunEffects, SubmitLogin, renewal
  <2>2. ~SignOut
    BY <1>5 DEF SignOut, renewal
  <2>3. ~LoginSettles
    BY <1>5 DEF LoginSettles, LoginFails, LoginSucceeds, renewal
  <2> QED
    BY <2>1, <2>2, <2>3
<1>7. ASSUME NEW r \in Requests PROVE ~Send(r) /\ ~Answered(r) /\ ~Rejected(r)
  <2>1. ~Send(r) /\ ~Answered(r)
    BY <1>5 DEF Send, Answered, renewal
  <2>2. ~Rejected(r)
    BY <1>2, <1>5 DEF Rejected, renewal
  <2> QED
    BY <2>1, <2>2
<1>8. \A t \in Tokens : ~Expire(t)
  BY <1>5 DEF Expire, renewal
<1> QED
  BY <1>3, <1>4, <1>6, <1>7, <1>8 DEF Next, RefreshSettles

(* A boot's refresh that lost the race with a login does not clear the       *)
(* session that login created (AuthContext.tsx, the catch of renewSession).  *)
THEOREM BootKeepsItsHandsOff == Spec => BootSparesLogin
<1>1. ASSUME IInv, Next, calls > 0, calls' = 0, waiters = {Boot}, memory # before,
             issued' = issued
      PROVE  memory' = memory /\ token' = token
  <2>1. RefreshFails
    BY <1>1, OnlyFailuresSettle
  <2>2. Timer \notin waiters /\ waiters \cap Requests = {}
    BY <1>1, ConstantsDistinct
  <2> QED
    BY <1>1, <2>1, <2>2 DEF RefreshFails
<1>2. IInv /\ [Next]_vars =>
         [calls > 0 /\ calls' = 0 /\ waiters = {Boot} /\ memory # before
            /\ issued' = issued => memory' = memory /\ token' = token]_vars
  BY <1>1
<1> QED
  BY <1>2, Inductive, PTL DEF Spec, BootSparesLogin
=============================================================================
