------------------------------- MODULE Session -------------------------------
(***************************************************************************)
(* The session of one browser tab: AuthService, between Keycloak's pages,  *)
(* the tab's sessionStorage and the API's GET /me.  The customer may go    *)
(* back to any page of the tab's history, so an authorization response     *)
(* can come again, or come for a sign-in that is no longer the newest.     *)
(***************************************************************************)
EXTENDS Naturals

CONSTANTS
    Users,         \* accounts in Keycloak
    NoOne,         \* null
    MaxAttempts    \* bound: sign-ins started in the tab

ASSUME NoOneAssumption == NoOne \notin Users
ASSUME AttemptsAssumption == MaxAttempts \in Nat

VARIABLES
    page,       \* "away": the tab is between pages or on Keycloak's;
                \* "exchanging", "asking": initialize() awaits the token
                \* endpoint or GET /me; "shown": the routes are rendered;
                \* "blank": initialize() was rejected and nothing is
    token,      \* whose access token sessionStorage and the signal hold
    user,       \* the user signal
    attempt,    \* sign-ins started
    stored      \* the one whose state and verifier are in sessionStorage, or 0

sessionVars == <<page, token, user, attempt, stored>>

SessionInit ==
    /\ page = "away"
    /\ token = NoOne
    /\ user = NoOne
    /\ attempt = 0
    /\ stored = 0

\* A page of the application starts without a code in its address: it restores
\* the session that is stored, if there is one.
Open ==
    /\ page = "away"
    /\ page' = IF token = NoOne THEN "shown" ELSE "asking"
    /\ UNCHANGED <<token, user, attempt, stored>>

\* The page is left or loaded again: only sessionStorage outlives it.
Unload ==
    /\ page # "away"
    /\ page' = "away"
    /\ user' = NoOne
    /\ UNCHANGED <<token, attempt, stored>>

\* login: offered to who holds no token.
Login ==
    /\ page = "shown" /\ token = NoOne
    /\ attempt < MaxAttempts
    /\ attempt' = attempt + 1
    /\ stored' = attempt + 1
    /\ page' = "away"
    /\ UNCHANGED <<token, user>>

\* Mistake: the state stays in sessionStorage for the next return.
ReturnKeepsState(n) ==
    /\ page = "away"
    /\ page' = IF n = stored THEN "exchanging" ELSE "shown"
    /\ UNCHANGED <<token, user, attempt, stored>>

\* completeLogin: Keycloak redirects to the application for sign-in n, for the
\* first time or, when its page is opened again from the history, once more.
\* What is stored is used up; without it the response is dropped.
Return(n) ==
    /\ page = "away"
    /\ page' = IF n = stored THEN "exchanging" ELSE "shown"
    /\ stored' = 0
    /\ UNCHANGED <<token, user, attempt>>

\* The token endpoint answers, refuses the code, or cannot be reached.
Exchange ==
    /\ page = "exchanging"
    /\ \/ page' = "asking" /\ token' \in Users
       \/ page' \in {"shown", "blank"} /\ UNCHANGED token
    /\ UNCHANGED <<user, attempt, stored>>

\* clear
Clear == token' = NoOne /\ user' = NoOne /\ stored' = 0

\* loadUser: GET /me says who the caller is; no answer, or any other one, ends
\* the session.
LoadUser ==
    /\ page = "asking"
    /\ page' = "shown"
    /\ \/ user' = token /\ UNCHANGED <<token, stored>>
       \/ Clear
    /\ UNCHANGED attempt

\* logout: the session is cleared at once; the page stays, with nobody signed
\* in, until the browser has gone to Keycloak (Unload).
Logout ==
    /\ page = "shown" /\ token # NoOne
    /\ Clear
    /\ UNCHANGED <<page, attempt>>

\* What ends a page of the application, and what starts one.
Depart == Unload \/ Login
Arrive == Open \/ \E n \in 1..attempt : Return(n)

SessionNext == Depart \/ Arrive \/ Exchange \/ LoadUser \/ Logout

SessionSpec == SessionInit /\ [][SessionNext]_sessionVars

-----------------------------------------------------------------------------

\* The token of one user never gives way to another's without a sign-out in
\* between, whatever pages of the tab's history are opened again: a return
\* can only complete the newest sign-in, and only once.
SessionIsOneUser == [][token # NoOne => token' \in {token, NoOne}]_sessionVars

\* What app.config.ts says of the page: once a route renders, who holds a token
\* is who the API said it is.
NeverHalfSignedIn == page = "shown" => user = token
=============================================================================
