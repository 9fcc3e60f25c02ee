-------------------------------- MODULE Auth --------------------------------
(***************************************************************************)
(* Logging in: the hook useAuth.ts, the requests of auth_api.ts and the    *)
(* form of LoginPanel.tsx.  Nothing renders while the hook boots; then     *)
(* the login panel does until there is a user.  Each answer of the server  *)
(* is a step, and a request may fail after the server has acted on it.     *)
(***************************************************************************)
EXTENDS Naturals

VARIABLES
  boot,        \* what init() of the hook awaits: "config" or "me"; "ready" at
               \* its end, "stuck" after a rejection that nothing catches
  persist,     \* persistRef: the server lets the browser keep the token
  stored,      \* localStorage[TOKEN_KEY]: "none", "good", or "stale" (rejected)
  role,        \* user.role, "nobody" for user = null
  account,     \* external: the account exists on the server
  serverRole,  \* external: its role
  loginForm    \* the state of LoginPanel

authVars == <<boot, persist, stored, role, account, serverRole, loginForm>>

Modes == {"login", "register"}
Waits == {"idle", "register", "login", "me"}

(* The panel as it mounts.  filled: neither field is blank; wait: the      *)
(* request its handler awaits; error and success: what it shows.           *)
EmptyForm == [mode |-> "login", filled |-> FALSE, wait |-> "idle",
              error |-> FALSE, success |-> FALSE]

AuthInit ==
  /\ boot = "config"
  /\ persist = FALSE
  /\ stored \in {"none", "good", "stale"}
  /\ role = "nobody"
  /\ account \in BOOLEAN
  /\ stored = "good" => account
  /\ serverRole \in {"user", "admin"}
  /\ loginForm = EmptyForm

-----------------------------------------------------------------------------
(* The hook's init effect.                                                 *)

(* apiFetchConfig answers; a failure counts as "do not persist".           *)
ConfigArrives(allowed) ==
  /\ boot = "config"
  /\ persist' = allowed
  /\ boot' = IF allowed /\ stored # "none" THEN "me" ELSE "ready"
  /\ UNCHANGED <<stored, role, account, serverRole, loginForm>>

(* A 200 whose body cannot be read: apiFetchConfig returns res.json()      *)
(* without awaiting it, so its catch does not see the rejection, and       *)
(* isLoading stays true for ever.                                          *)
ConfigUnreadable ==
  /\ boot = "config"
  /\ boot' = "stuck"
  /\ UNCHANGED <<persist, stored, role, account, serverRole, loginForm>>

(* apiMe for the stored token: accepted, or anything else (a rejection or  *)
(* no connection), and then the stored token is removed.                   *)
StoredTokenAccepted ==
  /\ boot = "me" /\ stored = "good"
  /\ role' = serverRole
  /\ boot' = "ready"
  /\ UNCHANGED <<persist, stored, account, serverRole, loginForm>>

(* Mutant: a failed /me is forgiven here as it is after a login.           *)
StoredTokenForgiven ==
  /\ boot = "me"
  /\ role' = "user"
  /\ boot' = "ready"
  /\ UNCHANGED <<persist, stored, account, serverRole, loginForm>>

StoredTokenRefused ==
  /\ boot = "me"
  /\ stored' = "none"
  /\ boot' = "ready"
  /\ UNCHANGED <<persist, role, account, serverRole, loginForm>>

-----------------------------------------------------------------------------
(* The panel.                                                              *)

Authenticated == role # "nobody"
LoginShown == boot = "ready" /\ ~Authenticated
Submitting == loginForm.wait # "idle"

(* The tabs stay clickable while a request is in flight.                   *)
SwitchMode(mode) ==
  /\ LoginShown
  /\ loginForm' = [loginForm EXCEPT !.mode = mode, !.error = FALSE,
                                    !.success = FALSE]
  /\ UNCHANGED <<boot, persist, stored, role, account, serverRole>>

(* The inputs are disabled while a request is in flight.                   *)
FillForm(filled) ==
  /\ LoginShown /\ ~Submitting
  /\ loginForm' = [loginForm EXCEPT !.filled = filled]
  /\ UNCHANGED <<boot, persist, stored, role, account, serverRole>>

CanSubmit == LoginShown /\ ~Submitting /\ loginForm.filled

Submit ==
  /\ CanSubmit
  /\ loginForm' = [loginForm EXCEPT !.error = FALSE, !.success = FALSE,
                                    !.wait = loginForm.mode]
  /\ UNCHANGED <<boot, persist, stored, role, account, serverRole>>

Refused(form) == [form EXCEPT !.error = TRUE, !.wait = "idle"]

(* apiRegister: a new account goes on to log in; an address that is taken  *)
(* is refused; a lost answer leaves the account made and reports a failure.*)
RegisterAnswered ==
  /\ loginForm.wait = "register"
  /\ account' = TRUE
  /\ \/ ~account /\ loginForm' = [loginForm EXCEPT !.success = TRUE,
                                                   !.wait = "login"]
     \/ loginForm' = Refused(loginForm)
  /\ UNCHANGED <<boot, persist, stored, role, serverRole>>

RegisterUnreachable ==
  /\ loginForm.wait = "register"
  /\ loginForm' = Refused(loginForm)
  /\ UNCHANGED <<boot, persist, stored, role, account, serverRole>>

(* apiLogin succeeds: the token is stored if the server allows it and the  *)
(* browser lets it, before the role is asked for.                          *)
LoginAnswered ==
  /\ loginForm.wait = "login" /\ account
  /\ stored' \in IF persist THEN {"good", stored} ELSE {stored}
  /\ loginForm' = [loginForm EXCEPT !.wait = "me"]
  /\ UNCHANGED <<boot, persist, role, account, serverRole>>

LoginRefused ==
  /\ loginForm.wait = "login"
  /\ loginForm' = Refused(loginForm)
  /\ UNCHANGED <<boot, persist, stored, role, account, serverRole>>

(* apiMe after a login: a failure gives the least role.  The panel goes.   *)
RoleArrives(answered) ==
  /\ loginForm.wait = "me"
  /\ role' = IF answered THEN serverRole ELSE "user"
  /\ loginForm' = EmptyForm
  /\ UNCHANGED <<boot, persist, stored, account, serverRole>>

(* The page is loaded anew: the browser keeps the stored token alone, which*)
(* may have expired; the answers still on their way reach nobody.          *)
AuthReload ==
  /\ boot' = "config"
  /\ persist' = FALSE
  /\ stored' \in {stored, IF stored = "none" THEN "none" ELSE "stale"}
  /\ role' = "nobody"
  /\ loginForm' = EmptyForm
  /\ UNCHANGED <<account, serverRole>>

-----------------------------------------------------------------------------

AuthServerStep ==
  \/ \E allowed \in BOOLEAN : ConfigArrives(allowed)
  \/ ConfigUnreadable
  \/ StoredTokenAccepted \/ StoredTokenRefused
  \/ RegisterAnswered \/ RegisterUnreachable
  \/ LoginAnswered \/ LoginRefused
  \/ \E answered \in BOOLEAN : RoleArrives(answered)

AuthNext ==
  \/ AuthServerStep
  \/ \E mode \in Modes : SwitchMode(mode)
  \/ \E filled \in BOOLEAN : FillForm(filled)
  \/ Submit

(* A request is answered or fails: the browser gives up on a dead one.     *)
AuthFairness == WF_authVars(AuthServerStep)

AuthSpec == AuthInit /\ [][AuthNext]_authVars /\ AuthFairness

-----------------------------------------------------------------------------

(* The types of the login state.                                           *)
AuthTypeOK ==
  /\ boot \in {"config", "me", "ready", "stuck"}
  /\ persist \in BOOLEAN
  /\ stored \in {"none", "good", "stale"}
  /\ role \in {"nobody", "user", "admin"}
  /\ account \in BOOLEAN
  /\ serverRole \in {"user", "admin"}
  /\ loginForm \in [mode : Modes, filled : BOOLEAN, wait : Waits,
                    error : BOOLEAN, success : BOOLEAN]

(* What the browser holds is what the server granted: an admin's controls  *)
(* are offered to an admin alone, though a failed /me is forgiven; no user *)
(* exists without an account; and no login starts before the configuration *)
(* is known that says whether its token may be kept.                       *)
GrantedByServer ==
  /\ role = "admin" => serverRole = "admin"
  /\ Authenticated => account
  /\ stored = "good" => account
  /\ Submitting => LoginShown

(* No spinner stays: a submitted form comes back, and the boot ends, but   *)
(* for a configuration that cannot be read.                                *)
SpinnersEnd ==
  /\ boot # "ready" ~> boot \in {"ready", "stuck"}
  /\ Submitting ~> ~Submitting
=============================================================================
