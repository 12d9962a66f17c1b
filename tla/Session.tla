------------------------------ MODULE Session ------------------------------
(* The session of the workbench in one browser tab: the login promise its    *)
(* callers share, the session signal with its copy in local storage, the     *)
(* route guard, and what the server thinks of the token.                     *)
EXTENDS Policy

CONSTANT MaxOutages   \* bound: logins that fail

ASSUME OutagesAssumption == MaxOutages \in Nat

VARIABLES
  role,      \* role of the account the workbench logs in with; it never changes
  token,     \* the stored session: "none", or one whose token is "valid" or "expired"
  login,     \* the login promise: "none", or how far its request is
  waiting,   \* the loading signal: the shell and its page are hidden
  route,     \* whether the guard has let the page through
  outages    \* number of logins that failed

session == <<role, token, login, waiting, route, outages>>

\* A new browser, or one that has kept a session for however long.
InitSession ==
  /\ role \in Roles
  /\ token \in {"none", "valid", "expired"}
  /\ login = "none"
  /\ waiting = (token = "none")
  /\ route = "guard"
  /\ outages = 0

\* The session signal is set; nobody looks at the age of its token.
SignedIn == token # "none"

HasRole(minimum) == SignedIn /\ HasMinimumRole(role, minimum)

-----------------------------------------------------------------------------
\* The promise is shared: a request is sent only when there is none.
StartLogin ==
  /\ login = "none"
  /\ login' = "sent"
  /\ waiting' = TRUE

\* The guard, and the application when it starts, ask for a session.
Authenticate ==
  /\ route = "guard" /\ ~SignedIn
  /\ StartLogin
  /\ UNCHANGED <<role, token, route, outages>>

\* The server checks the password and signs a token.
Login ==
  /\ login = "sent"
  /\ login' = "granted"
  /\ UNCHANGED <<role, token, waiting, route, outages>>

\* The login is refused, or its answer does not arrive.
LoginFails ==
  /\ login = "sent" /\ outages < MaxOutages
  /\ outages' = outages + 1
  /\ login' = "failed"
  /\ UNCHANGED <<role, token, waiting, route>>

LoginDone ==
  /\ login = "granted"
  /\ token' = "valid"
  /\ login' = "none" /\ waiting' = FALSE
  /\ UNCHANGED <<role, route, outages>>

\* Slip: the promise forgotten on success only.
LoginFailedKept ==
  /\ login = "failed"
  /\ waiting /\ waiting' = FALSE
  /\ UNCHANGED <<role, token, login, route, outages>>

\* The promise is forgotten; a guard that waits for it sends the user to the
\* units, where the guard asks again.
LoginFailed ==
  /\ login = "failed"
  /\ login' = "none" /\ waiting' = FALSE
  /\ UNCHANGED <<role, token, route, outages>>

\* Every role may see the entity pages.
GuardPasses ==
  /\ route = "guard" /\ HasRole("viewer")
  /\ route' = "page"
  /\ UNCHANGED <<role, token, login, waiting, outages>>

\* The button is part of the shell.
Logout ==
  /\ ~waiting /\ route = "page"
  /\ token' = "none"
  /\ StartLogin
  /\ UNCHANGED <<role, route, outages>>

\* The time to live of the token ends.
Expire ==
  /\ token = "valid"
  /\ token' = "expired"
  /\ UNCHANGED <<role, login, waiting, route, outages>>

SessionTypeOK ==
  /\ role \in Roles
  /\ token \in {"none", "valid", "expired"}
  /\ login \in {"none", "sent", "granted", "failed"}
  /\ waiting \in BOOLEAN /\ route \in {"guard", "page"}
  /\ outages \in 0 .. MaxOutages

=============================================================================
