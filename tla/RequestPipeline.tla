-------------------------- MODULE RequestPipeline --------------------------
(***************************************************************************)
(* What stands between a request and its handler: the auth, permission,    *)
(* CSRF and licence middlewares, in this order, each of which reads the    *)
(* session table, the operator accounts or the licence when its turn       *)
(* comes, while other requests change them.                                *)
(***************************************************************************)
EXTENDS Naturals, FiniteSets

CONSTANTS
  Clients,      \* requests being served at once
  Users,
  MaxSessions,  \* bound: sessions ever minted
  NULL

ASSUME PipelineAssumption == MaxSessions \in Nat /\ NULL \notin Users

VARIABLES
  role,       \* the group of each account, NULL for no account
  session,    \* whom each session id stands for, NULL when there is none
  minted,
  writable,   \* the licence allows mutations
  client,     \* the request each client is making
  held,       \* history: what held, and
  failed      \*   what failed, at some moment of the request

pipelineVars == <<role, session, minted, writable, client, held, failed>>
Ids == 1..MaxSessions

-----------------------------------------------------------------------------
(* Routes.                                                                 *)

\* (The setup form behaves as the login form does.)
Public == {"/login"}
CsrfExempt == {"/login"}
ReadOnlyExempt == {"/logout", "/admin/license/activate"}

\* One route of each kind; each stands for all that the tables above treat alike.
Routes == {<<"POST", "/login">>, <<"POST", "/logout">>, <<"POST", "/install">>,
  <<"POST", "/admin/operators">>, <<"POST", "/admin/license/activate">>,
  <<"GET", "/install/credentials.json/">>}

Groups == {"admins", "operators", "viewers"}
Permissions(group) ==
  CASE group = "admins" -> {"Read", "Write", "Manage"}
    [] group = "operators" -> {"Read", "Write"}
    [] OTHER -> {"Read"}

Managed == {"/admin/operators", "/admin/license/activate", "/install/credentials.json/"}
RequiredPermission(method, path) ==
  CASE path = "/logout" -> "Read"
    [] path \in Managed -> "Manage"
    [] OTHER -> IF method = "GET" THEN "Read" ELSE "Write"

-----------------------------------------------------------------------------
Absent == [stage |-> "none", method |-> NULL, path |-> NULL,
           cookie |-> 0, token |-> 0, user |-> NULL]

PipelineInit ==
  /\ role \in [Users -> Groups \cup {NULL}]
  /\ session = [s \in Ids |-> NULL]
  /\ minted = 0
  /\ writable \in BOOLEAN
  /\ client = [c \in Clients |-> Absent]
  /\ held = [c \in Clients |-> {}] /\ failed = [c \in Clients |-> {}]

SessionOf(s) == IF s \in Ids THEN session[s] ELSE NULL
RoleOf(u) == IF u \in Users THEN role[u] ELSE NULL

\* The operator a request acts for: whom its session stood for when it came in.
Operator(c) ==
  IF client[c].user # NULL THEN client[c].user ELSE SessionOf(client[c].cookie)

\* What a request needs of the tables, and what of that they give it now.
Needs(c) == LET r == client[c] IN
  (IF r.path \in Public THEN {} ELSE {"session", "permission"})
  \cup (IF r.method # "POST" \/ r.path \in Public \cup ReadOnlyExempt THEN {} ELSE {"writable"})

Given(c) == LET r == client[c]  group == RoleOf(Operator(c)) IN
  {f \in Needs(c) :
    CASE f = "session" -> SessionOf(r.cookie) # NULL
      [] f = "permission" ->
           group # NULL /\ RequiredPermission(r.method, r.path) \in Permissions(group)
      [] OTHER -> writable}

\* What held so far is of interest until the handler runs, what failed until
\* the request is refused.
Witness ==
  /\ held' = [c \in Clients |->
       IF client'[c].stage \in {"none", "refused"} THEN {}
       ELSE held[c] \cup IF client[c].stage = "handler" THEN {} ELSE Given(c)']
  /\ failed' = [c \in Clients |->
       IF client'[c].stage \in {"none", "handler"} THEN {}
       ELSE failed[c] \cup IF client[c].stage = "refused" THEN {} ELSE Needs(c)' \ Given(c)']

Tables == <<role, session, minted, writable>>
Turn(c, stage) == client[c].stage = stage
Pass(c, stage) == client' = [client EXCEPT ![c].stage = stage] /\ UNCHANGED Tables
Refuse(c) == Pass(c, "refused")
Done(c) == client' = [client EXCEPT ![c] = Absent]

-----------------------------------------------------------------------------

\* Any cookie a browser may still have, and any token a stale page may carry.
Arrive(c) == \E route \in Routes, cookie, token \in 0..minted :
  /\ Turn(c, "none")
  /\ client' = [client EXCEPT ![c] = [stage |-> "auth", method |-> route[1],
       path |-> route[2], cookie |-> cookie, token |-> token, user |-> NULL]]
  /\ UNCHANGED Tables

\* auth_middleware looks the session up and hands its user on.
AuthMiddleware(c) ==
  /\ Turn(c, "auth")
  /\ \/ client[c].path \in Public /\ Pass(c, "permission")
     \/ /\ client[c].path \notin Public
        /\ SessionOf(client[c].cookie) # NULL
        /\ client' = [client EXCEPT ![c].stage = "permission",
                                    ![c].user = SessionOf(client[c].cookie)]
        /\ UNCHANGED Tables
     \/ client[c].path \notin Public /\ SessionOf(client[c].cookie) = NULL /\ Refuse(c)

\* (A mistake: any account will do.)
PermissionMiddlewareLenient(c) ==
  /\ Turn(c, "permission")
  /\ IF client[c].path \in Public \/ RoleOf(client[c].user) # NULL
     THEN Pass(c, "csrf") ELSE Refuse(c)

PermissionMiddleware(c) == LET r == client[c] IN
  /\ Turn(c, "permission")
  /\ IF r.path \in Public
        \/ /\ RoleOf(r.user) # NULL
           /\ RequiredPermission(r.method, r.path) \in Permissions(RoleOf(r.user))
     THEN Pass(c, "csrf") ELSE Refuse(c)

\* csrf_middleware looks the session up again; a token is its session's id.
CsrfMiddleware(c) == LET r == client[c] IN
  /\ Turn(c, "csrf")
  /\ IF r.method # "POST" \/ r.path \in Public \cup CsrfExempt
        \/ (SessionOf(r.cookie) # NULL /\ r.token = r.cookie)
     THEN Pass(c, "license") ELSE Refuse(c)

\* (A mistake: the licence is in the way of its own renewal.)
LicenseMiddlewareStrict(c) == LET r == client[c] IN
  /\ Turn(c, "license")
  /\ IF r.method # "POST" \/ r.path \in Public \/ writable
     THEN Pass(c, "handler") ELSE Refuse(c)

LicenseMiddleware(c) == LET r == client[c] IN
  /\ Turn(c, "license")
  /\ IF r.method # "POST" \/ r.path \in Public \cup ReadOnlyExempt \/ writable
     THEN Pass(c, "handler") ELSE Refuse(c)

\* What the handlers do to the tables the middlewares read.
Login(c) == \E u \in Users :
  /\ Turn(c, "handler") /\ client[c].path = "/login"
  /\ role[u] # NULL /\ minted < MaxSessions
  /\ minted' = minted + 1
  /\ session' = [session EXCEPT ![minted'] = u]
  /\ Done(c) /\ UNCHANGED <<role, writable>>

\* logout destroys whatever session the cookie names.
Logout(c) ==
  /\ Turn(c, "handler") /\ client[c].path = "/logout"
  /\ session' = [s \in Ids |-> IF s = client[c].cookie THEN NULL ELSE session[s]]
  /\ Done(c) /\ UNCHANGED <<role, minted, writable>>

ManageOperators(c) == \E u \in Users, group \in Groups \cup {NULL} :
  /\ Turn(c, "handler") /\ client[c].path = "/admin/operators"
  /\ role' = [role EXCEPT ![u] = group]
  /\ Done(c) /\ UNCHANGED <<session, minted, writable>>

ActivateLicense(c) ==
  /\ Turn(c, "handler") /\ client[c].path = "/admin/license/activate"
  /\ writable' = TRUE
  /\ Done(c) /\ UNCHANGED <<role, session, minted>>

\* Any other handler, or one that changes nothing of these.
Answer(c) ==
  /\ client[c].stage \in {"handler", "refused"}
  /\ Done(c) /\ UNCHANGED Tables

HangUp(c) == ~Turn(c, "none") /\ Done(c) /\ UNCHANGED Tables

\* The licence expires, or becomes effective.
DatePasses == writable' = ~writable /\ UNCHANGED <<role, session, minted, client>>

\* A restart forgets every session; browsers keep their cookies.
ServerRestart ==
  /\ session' = [s \in Ids |-> NULL]
  /\ client' = [c \in Clients |-> Absent]
  /\ UNCHANGED <<role, minted, writable>>

PipelineStep ==
  \/ \E c \in Clients :
       \/ Arrive(c) \/ AuthMiddleware(c) \/ PermissionMiddleware(c)
       \/ CsrfMiddleware(c) \/ LicenseMiddleware(c)
       \/ Login(c) \/ Logout(c) \/ ManageOperators(c) \/ ActivateLicense(c)
       \/ Answer(c) \/ HangUp(c)
  \/ DatePasses \/ ServerRestart

PipelineNext == PipelineStep /\ Witness
PipelineSpec == PipelineInit /\ [][PipelineNext]_pipelineVars

-----------------------------------------------------------------------------

\* A handler behind the middlewares runs only in a request during which, at
\* some moment, its session lived, its operator had the permission, and (for a
\* mutation) the licence allowed it, and which carries the token of that very
\* session; no order of logouts, demotions, restarts and expiries gets around.
MutationsAreCleared == \A c \in Clients :
  client[c].stage = "handler" =>
    /\ Needs(c) \subseteq held[c]
    /\ client[c].method = "GET" \/ client[c].path \in Public
         \/ client[c].token = client[c].cookie

\* And a request is refused only if at some moment something it needs was
\* missing: no one is kept from reading or from signing out by what their
\* group may not do, and no licence is in the way of signing out or renewing.
RefusalsAreDue == \A c \in Clients :
  client[c].stage = "refused" =>
    \/ failed[c] # {}
    \/ /\ client[c].method = "POST" /\ client[c].path \notin Public \cup CsrfExempt
       /\ client[c].token # client[c].cookie

\* Of every request, the verdict is the right one, both ways.
VerdictsAreDue == MutationsAreCleared /\ RefusalsAreDue
=============================================================================
