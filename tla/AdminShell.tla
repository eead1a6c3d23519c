------------------------------ MODULE AdminShell ------------------------------
(***************************************************************************)
(* The session of one browser tab with the admin process: lib/api.ts,      *)
(* lib/store.ts, components/app-shell.tsx and login-page.tsx against the   *)
(* cookie of internal/cookie as authMiddleware checks it.                  *)
(*                                                                         *)
(* The tab does not know whether its cookie verifies.  It shows the pages  *)
(* while isAuthenticated, which after a reload only says that a token is   *)
(* in sessionStorage, and learns of an invalid cookie from the first call  *)
(* that is answered 401: then it clears the token and reloads.             *)
(*                                                                         *)
(* A reload starts the tab's JavaScript again: what the actions below do   *)
(* to the pages and to the query cache is in AdminPages.                   *)
(***************************************************************************)
VARIABLES
  cookie,   \* the browser's sbl_auth cookie verifies
  stored,   \* sessionStorage holds an admin_token
  auth,     \* isAuthenticated
  attempt   \* the login under way: its token is right, wrong, or there is none

shellVars == <<cookie, stored, auth, attempt>>

ShellTypeOK ==
  /\ cookie \in BOOLEAN /\ stored \in BOOLEAN /\ auth \in BOOLEAN
  /\ attempt \in {"none", "right", "wrong"}

\* A new tab; the browser may have a cookie from another one.
ShellInit ==
  /\ cookie \in BOOLEAN
  /\ stored = FALSE /\ auth = FALSE /\ attempt = "none"

\* The cookie expires, its key is rotated and the admin restarted, or another
\* tab logs in or out.
CookieChanges ==
  /\ cookie' = ~cookie
  /\ UNCHANGED <<stored, auth, attempt>>

\* The button is off while a login is under way.  The token is stored before the
\* server has seen it.
Submit ==
  /\ ~auth /\ attempt = "none"
  /\ attempt' \in {"right", "wrong"}
  /\ stored' = TRUE
  /\ UNCHANGED <<cookie, auth>>

LoginSucceeds ==
  /\ attempt = "right"
  /\ attempt' = "none"
  /\ cookie' = TRUE /\ auth' = TRUE
  /\ UNCHANGED stored

\* 401, 429, 500 or no answer: of a right token that may come after the cookie.
LoginFails ==
  /\ attempt # "none"
  /\ attempt' = "none"
  /\ stored' = FALSE /\ auth' = FALSE
  /\ UNCHANGED cookie \/ (attempt = "right" /\ cookie' = TRUE)

\* The post may fail, which leaves the cookie and is ignored.
Logout ==
  /\ auth
  /\ stored' = FALSE /\ auth' = FALSE
  /\ cookie' \in {FALSE, cookie}
  /\ UNCHANGED attempt

\* The user reloads the tab: checkAuth.
Reload ==
  /\ auth' = stored
  /\ attempt' = "none"
  /\ UNCHANGED <<cookie, stored>>

\* Faulty: the token is kept.
KeepsToken == UNCHANGED stored
ClearToken == stored' = FALSE

\* Any call but the login is answered 401.
Unauthorized ==
  /\ ~cookie
  /\ ClearToken
  /\ auth' = stored'
  /\ attempt' = "none"
  /\ UNCHANGED cookie
===============================================================================
