---------------------------- MODULE AuthProvider ----------------------------
(***************************************************************************)
(* One page load of the single-page app's session: the access token in      *)
(* memory (auth/token.ts), AuthProvider's state, effects and single-flight  *)
(* renewal (auth/AuthContext.tsx), and the 401 rescue of the HTTP client    *)
(* (apiClient.ts).  JavaScript is single-threaded: an action is one task    *)
(* with the promise continuations it releases; answers, timers, clicks and  *)
(* React's later run of the effects (which a click does not wait for)       *)
(* interleave.                                                              *)
(***************************************************************************)
EXTENDS Naturals, FiniteSets

CONSTANTS Tokens,    \* access tokens the server can hand out
          Unreadable,  \* those whose expiry the app cannot read
          Requests,  \* slots for concurrent API calls (reused)
          NoToken,
          Boot, Timer  \* the callers of renewSession that are not API calls

ASSUME ConstantsDistinct ==
    /\ NoToken \notin Tokens
    /\ Unreadable \subseteq Tokens
    /\ Boot # Timer
    /\ {Boot, Timer} \cap Requests = {}

VARIABLES
    memory,          \* accessToken of token.ts
    token,           \* AuthProvider's token state
    initialised,
    sessionExpired,
    shown,           \* the token its effects last ran for
    timer,           \* the token the expiry timer is armed for
    booted,          \* whether the boot effect has run
    legacy,          \* the localStorage copy
    before,          \* the token memory held when the renewal began
    waiters,         \* who awaits refreshInFlight: {} when it is null
    calls,           \* POST /users/refresh calls in flight
    login,           \* whether the login form awaits its answer
    req,             \* [Requests -> Call]: API calls in flight
    issued,          \* tokens handed out so far
    expired,         \* tokens past their exp
    left             \* whether the last click was a sign-out (history)

vars == <<memory, token, initialised, sessionExpired, shown, timer, booted,
          legacy, before, waiters, calls, login, req, issued, expired, left>>
session == <<memory, token, initialised, sessionExpired>>
renewal == <<before, waiters, calls>>

Callers == Requests \cup {Boot, Timer}
Call == [step : {"idle", "sent", "waiting"},
         token : Tokens \cup {NoToken}, retried : BOOLEAN]
Quiet == [step |-> "idle", token |-> NoToken, retried |-> FALSE]

Init ==
    /\ memory = NoToken /\ token = NoToken /\ shown = NoToken
    /\ initialised = FALSE /\ sessionExpired = FALSE
    /\ timer = NoToken
    /\ booted = FALSE
    /\ legacy \in Tokens \cup {NoToken}
    /\ before = NoToken /\ waiters = {} /\ calls = 0
    /\ login = FALSE
    /\ req = [r \in Requests |-> Quiet]
    /\ issued = {legacy} \ {NoToken}
    /\ expired \in SUBSET issued
    /\ left = FALSE

-----------------------------------------------------------------------------
(* Mutant: every caller starts a refresh of its own. *)
MutNotSingleFlight(w) ==
    /\ waiters' = waiters \cup {w}
    /\ before' = memory /\ calls' = calls + 1

(* renewSession, called by w: join the renewal in flight or start one. *)
Renew(w) ==
    /\ waiters' = waiters \cup {w}
    /\ IF waiters # {} THEN UNCHANGED <<before, calls>>
       ELSE before' = memory /\ calls' = calls + 1

(* endSession: what it assigns. *)
EndSession(isExpiry) ==
    /\ memory' = NoToken
    /\ token' = NoToken
    /\ initialised' = TRUE
    /\ sessionExpired' = isExpiry

(* setSessionRefresher and setUnauthorizedHandler hold a function exactly  *)
(* while the effects last ran for a token.                                 *)
Seams == shown # NoToken

(* React renders and re-runs the token effect: the old timer is cleared,   *)
(* one is armed for the new token, if it says when; if not, it is dropped.  *)
RunEffects ==
    /\ shown # token
    /\ shown' = token
    /\ IF token \in Unreadable
       THEN timer' = NoToken /\ EndSession(TRUE)
       ELSE timer' = token /\ UNCHANGED session
    /\ UNCHANGED <<booted, legacy, renewal, login, req, issued, expired, left>>

(* A token of the old storage is adopted only while it is valid. *)
LegacyQualifies == legacy \in issued \ (expired \cup Unreadable)

(* The boot effect, before any click, with nothing in memory: adopt the    *)
(* legacy token if it still qualifies, else let the cookie prove the       *)
(* session.                                                                *)
BootEffect ==
    /\ ~booted
    /\ booted' = TRUE
    /\ legacy' = NoToken
    /\ IF LegacyQualifies
       THEN /\ memory' = legacy /\ token' = legacy /\ initialised' = TRUE
            /\ UNCHANGED <<sessionExpired, renewal>>
       ELSE Renew(Boot) /\ UNCHANGED session
    /\ UNCHANGED <<shown, timer, login, req, issued, expired, left>>

(* Mutant: the timer fires and renews nothing. *)
MutTimerIdle ==
    /\ timer \in expired
    /\ timer' = NoToken
    /\ UNCHANGED <<session, renewal, shown, booted, legacy, login, req, issued,
                   expired, left>>

(* The expiry timer fires: renew at expiry. *)
TimerFires ==
    /\ timer \in expired
    /\ timer' = NoToken
    /\ Renew(Timer)
    /\ UNCHANGED <<session, shown, booted, legacy, login, req, issued, expired, left>>

-----------------------------------------------------------------------------
(* The refresh call settles, and with it, in the same task, everyone who   *)
(* awaited it: API calls replay or give up, the timer gives up.            *)

(* Mutant: a renewal that fails never resolves for the calls that wait. *)
MutStrandsCalls(ok) ==
    /\ calls > 0
    /\ calls' = calls - 1
    /\ waiters' = {}
    /\ before' = NoToken
    /\ UNCHANGED <<shown, timer, booted, legacy, login, expired, left>>
    /\ req' = [r \in Requests |->
                 IF ok /\ r \in waiters
                 THEN [step |-> "sent", token |-> memory', retried |-> TRUE]
                 ELSE req[r]]

Settle(ok) ==
    /\ calls > 0
    /\ calls' = calls - 1
    /\ waiters' = {}
    /\ before' = NoToken
    /\ UNCHANGED <<shown, timer, booted, legacy, login, expired, left>>
    /\ req' = [r \in Requests |->
                 IF r \notin waiters THEN req[r]
                 ELSE IF ok THEN [step |-> "sent", token |-> memory', retried |-> TRUE]
                 ELSE Quiet]

RefreshSucceeds(t) ==
    /\ t \notin issued
    /\ issued' = issued \cup {t}
    /\ memory' = t /\ token' = t
    /\ initialised' = TRUE /\ sessionExpired' = FALSE
    /\ Settle(TRUE)

(* Mutants: a failure that does not ask whose session it clears, and one   *)
(* that leaves the gate shut.                                              *)
MutClearsAnySession ==
    /\ Settle(FALSE)
    /\ UNCHANGED issued
    /\ EndSession(before # NoToken)
MutGateStaysShut ==
    /\ Settle(FALSE)
    /\ UNCHANGED <<session, issued>>

(* A failed renewal clears the session it started with, and whoever waited *)
(* for it ends the session there is: the timer, or an API call through the *)
(* unauthorized handler.                                                   *)
RefreshFails ==
    LET own == memory = before
        gaveUp == Timer \in waiters \/ (Seams /\ waiters \cap Requests # {}) IN
    /\ Settle(FALSE)
    /\ UNCHANGED issued
    /\ CASE gaveUp \/ (own /\ before # NoToken) -> EndSession(TRUE)
         [] OTHER -> /\ initialised' = TRUE
                     /\ UNCHANGED <<memory, token, sessionExpired>>

-----------------------------------------------------------------------------
(* The forms and the logout button. *)

SubmitLogin ==
    /\ booted /\ ~login
    /\ login' = TRUE
    /\ UNCHANGED <<session, shown, timer, booted, legacy, renewal, req, issued,
                   expired, left>>

(* signIn *)
LoginSucceeds(t) ==
    /\ login
    /\ t \notin issued
    /\ issued' = issued \cup {t}
    /\ login' = FALSE
    /\ memory' = t /\ token' = t /\ sessionExpired' = FALSE
    /\ left' = FALSE
    /\ UNCHANGED <<initialised, shown, timer, booted, legacy, renewal, req, expired>>

LoginFails ==
    /\ login
    /\ login' = FALSE
    /\ UNCHANGED <<session, shown, timer, booted, legacy, renewal, req, issued,
                   expired, left>>

(* signOut: the revocation is sent and not awaited.  It is a click's update, *)
(* so React commits it and flushes its effects before any other task: the   *)
(* timer is cleared and the seams are gone at once.                         *)
SignOut ==
    /\ Seams
    /\ left' = TRUE
    /\ EndSession(FALSE)
    /\ shown' = NoToken /\ timer' = NoToken
    /\ UNCHANGED <<booted, legacy, renewal, login, req, issued, expired>>

-----------------------------------------------------------------------------
(* API calls (request of apiClient.ts), made by the pages behind the gate. *)

(* RequireAuth: nothing behind it renders before the boot is over. *)
GateOpen == Seams /\ initialised

Send(r) ==
    /\ GateOpen
    /\ req[r] = Quiet
    /\ req' = [req EXCEPT ![r] = [step |-> "sent", token |-> memory, retried |-> FALSE]]
    /\ UNCHANGED <<session, shown, timer, booted, legacy, renewal, login, issued,
                   expired, left>>

(* Any answer but a 401, and a network failure. *)
Answered(r) ==
    /\ req[r].step = "sent"
    /\ req' = [req EXCEPT ![r] = Quiet]
    /\ UNCHANGED <<session, shown, timer, booted, legacy, renewal, login, issued,
                   expired, left>>

(* A 401 asks for a renewal once, and otherwise ends the session. *)
Rejected(r) ==
    /\ req[r].step = "sent"
    /\ IF Seams /\ ~req[r].retried
       THEN /\ Renew(r)
            /\ req' = [req EXCEPT ![r].step = "waiting"]
            /\ UNCHANGED session
       ELSE /\ req' = [req EXCEPT ![r] = Quiet]
            /\ IF Seams THEN EndSession(TRUE) ELSE UNCHANGED session
            /\ UNCHANGED renewal
    /\ UNCHANGED <<shown, timer, booted, legacy, login, issued, expired, left>>

-----------------------------------------------------------------------------
Expire(t) ==
    /\ t \in issued \ expired
    /\ expired' = expired \cup {t}
    /\ UNCHANGED <<session, shown, timer, booted, legacy, renewal, login, req,
                   issued, left>>

RefreshSettles == RefreshFails \/ \E t \in Tokens : RefreshSucceeds(t)
LoginSettles   == LoginFails \/ \E t \in Tokens : LoginSucceeds(t)

Next ==
    \/ RunEffects
    \/ BootEffect
    \/ TimerFires
    \/ RefreshSettles
    \/ SubmitLogin
    \/ LoginSettles
    \/ SignOut
    \/ \E r \in Requests : Send(r) \/ Answered(r) \/ Rejected(r)
    \/ \E t \in Tokens : Expire(t)

Spec == Init /\ [][Next]_vars

(* React runs effects, timers fire, and every fetch is answered or fails. *)
Fairness ==
    /\ WF_vars(RunEffects) /\ WF_vars(BootEffect) /\ WF_vars(TimerFires)
    /\ WF_vars(RefreshSettles)
    /\ \A r \in Requests : WF_vars(Answered(r) \/ Rejected(r))

FairSpec == Spec /\ Fairness

-----------------------------------------------------------------------------
TypeOK ==
    /\ {memory, token, shown, timer, legacy, before} \subseteq Tokens \cup {NoToken}
    /\ {initialised, sessionExpired, booted, login, left} \subseteq BOOLEAN
    /\ waiters \subseteq Callers
    /\ calls \in Nat
    /\ req \in [Requests -> Call]
    /\ issued \subseteq Tokens
    /\ expired \subseteq issued

(* Single flight: the boot, the timer and every 401 share one call, and    *)
(* whoever waits for it is answered by it (AuthContext.tsx, "rotating the  *)
(* refresh cookie twice in parallel would strand one of them").            *)
OneRefresh ==
    /\ calls <= 1
    /\ calls = 0 <=> waiters = {}
    /\ \A r \in Requests : req[r].step = "waiting" <=> r \in waiters

(* A renewal that only the boot asked for, and that lost the race with a   *)
(* login, fails without touching the session the login created.            *)
BootSparesLogin ==
    [][calls > 0 /\ calls' = 0 /\ waiters = {Boot} /\ memory # before
         /\ issued' = issued => memory' = memory /\ token' = token]_vars

(* The gate opens: no visitor waits on a blank page for ever. *)
BootResolves == <>initialised

(* An API call ends: its one rescue is answered, and it replays or gives up *)
(* (apiClient.ts: a rejected call waits for a renewal others may have       *)
(* started).                                                               *)
RequestsSettle == \A r \in Requests : req[r].step # "idle" ~> req[r].step = "idle"

(* An expired token does not stay: it is renewed or the session ends. *)
ExpiryHandled ==
    \A t \in Tokens : memory = t /\ t \in expired ~> memory # t

-----------------------------------------------------------------------------
(* What the comments say and the code does not keep (see the README). *)

(* AuthContext.tsx, signOut: "the local session ends regardless of the     *)
(* answer".  After a sign-out only a login signs in.                       *)
SignOutSticks == left => memory = NoToken

(* AuthContext.tsx, renewSession: "a refresh that lost the race with a     *)
(* fresh login must not clear the session the login just created".         *)
RefreshSparesLogin ==
    [][calls > 0 /\ calls' = 0 /\ memory # before /\ issued' = issued
         => memory' = memory]_vars
=============================================================================
