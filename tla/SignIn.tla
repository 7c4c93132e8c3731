------------------------------- MODULE SignIn -------------------------------
(***************************************************************************)
(* Signing in through the pages: the screens the templates render           *)
(* (interfaces/templates/auth, dashboard), the handlers behind their forms  *)
(* (auth_handler.go, passkey_handler.go, dashboard_handler.go), the Guard   *)
(* (auth_guard.go) and the tables they read and write, users and tenant     *)
(* (user_repo.go, tenant_repo.go).                                          *)
(*                                                                         *)
(* A tab shows one screen and waits for one answer at a time; the tabs of a *)
(* browser share its cookies.  A screen is its form with the email and the  *)
(* user_id_hash it carries; the hash of a UUID stands for the UUID, and     *)
(* NoUser for an empty one.  No handler asks which screen a request came    *)
(* from or how its hash got there: a request may carry the hash of any      *)
(* user, from an address bar, an old form or another tab.  htmx swaps only  *)
(* answers with status 200 into the page, so an error leaves the screen as  *)
(* it was; a request that can change nothing at all is left out.  Each      *)
(* query that sees what another request may change is a step.               *)
(*                                                                         *)
(* Left to other modules: when a stored code is accepted (OTP), when a      *)
(* limiter refuses (RateLimits), the ceremonies (Passkeys), the flows with  *)
(* a provider up to the callback's last part (OAuth) and whether the        *)
(* session of a refresh token still stands (Sessions).                      *)
(***************************************************************************)
EXTENDS Naturals

CONSTANTS
    Tabs,           \* open pages
    Browsers,       \* cookie jars
    BrowserOf,      \* the browser of each tab
    Emails,         \* addresses people type
    NoEmail,        \* the empty address, and the email_hash of a UUID not in use
    Users,          \* UUIDs the server may generate
    NoUser,         \* the empty user id or hash
    Tenants,        \* tenant ids
    Public,         \* the tenant "public"
    DomainTenant,   \* what domain_whitelist says of each address, Public if nothing
    TenantRows,     \* tenants with a row in the control plane
    MaxFaults       \* bound: queries, mails or inserts that fail

ASSUME BrowserAssumption == BrowserOf \in [Tabs -> Browsers]
ASSUME UserAssumption == NoUser \notin Users
ASSUME EmailAssumption == NoEmail \notin Emails
ASSUME HashAssumption == Users \cap (Emails \cup {NoEmail}) = {}
ASSUME TenantAssumption ==
    Public \in Tenants /\ TenantRows \subseteq Tenants /\ DomainTenant \in [Emails -> Tenants]
ASSUME FaultAssumption == MaxFaults \in Nat

VARIABLES
    email,      \* users.email_hash of each UUID, NoEmail when it has no row
    tenant,     \* users.tenant_id
    live,       \* users for whom a code is stored
    keyAt,      \* users with a passkey made in each browser
    access,     \* browsers with an access cookie
    jarUser,    \* its user; NoUser for the empty one, and without a cookie
    jarTenant,  \* its tenant_id
    jarRefresh, \* the user of the refresh cookie; NoUser for the empty one or no cookie
    form,       \* the screen of each tab
    shownEmail, \* the address in it
    shownUser,  \* the user_id_hash in it, or the user a dashboard was served to
    board,      \* the tenant whose features a dashboard shows, Public for the default ones
    pc,         \* the step each tab's request is at
    atEmail,    \* its locals
    atUser,
    atTenant,
    faults      \* history: failures so far

tables  == <<email, tenant, live>>
jars    == <<access, jarUser, jarTenant, jarRefresh>>
screen  == <<form, shownEmail, shownUser, board>>
locals  == <<atEmail, atUser, atTenant>>
vars    == <<tables, keyAt, jars, screen, pc, locals, faults>>

Forms == {"login", "otp", "error", "consent", "register", "dashboard"}
Steps == {"idle", "find", "create", "send", "lookup", "refresh", "guard", "serve"}

TableTypes ==
    /\ email \in [Users -> Emails \cup {NoEmail}]
    /\ tenant \in [Users -> Tenants]
    /\ live \subseteq Users
    /\ keyAt \in [Browsers -> SUBSET Users]
    /\ access \subseteq Browsers
    /\ jarUser \in [Browsers -> Users \cup {NoUser}]
    /\ jarTenant \in [Browsers -> Tenants]
    /\ jarRefresh \in [Browsers -> Users \cup {NoUser}]

ScreenTypes ==
    /\ form \in [Tabs -> Forms]
    /\ shownEmail \in [Tabs -> Emails \cup {NoEmail}]
    /\ shownUser \in [Tabs -> Users \cup {NoUser}]
    /\ board \in [Tabs -> Tenants]
    /\ \A t \in Tabs : form[t] = "otp" => shownUser[t] \in Users

RequestTypes ==
    /\ pc \in [Tabs -> Steps]
    /\ atEmail \in [Tabs -> Emails \cup {NoEmail}]
    /\ atUser \in [Tabs -> Users \cup {NoUser}]
    /\ atTenant \in [Tabs -> Tenants]
    /\ \A t \in Tabs :
        /\ pc[t] \in {"find", "create", "send"} => atEmail[t] \in Emails
        /\ pc[t] \in {"send", "lookup", "refresh"} => atUser[t] \in Users

FaultTypes == faults \in 0..MaxFaults

TypeOK == TableTypes /\ ScreenTypes /\ RequestTypes /\ FaultTypes

Init ==
    /\ email = [u \in Users |-> NoEmail]
    /\ tenant = [u \in Users |-> Public]
    /\ live = {}
    /\ keyAt = [b \in Browsers |-> {}]
    /\ access = {}
    /\ jarUser = [b \in Browsers |-> NoUser]
    /\ jarTenant = [b \in Browsers |-> Public]
    /\ jarRefresh = [b \in Browsers |-> NoUser]
    /\ form = [t \in Tabs |-> "login"]
    /\ shownEmail = [t \in Tabs |-> NoEmail]
    /\ shownUser = [t \in Tabs |-> NoUser]
    /\ board = [t \in Tabs |-> Public]
    /\ pc = [t \in Tabs |-> "idle"]
    /\ atEmail = [t \in Tabs |-> NoEmail]
    /\ atUser = [t \in Tabs |-> NoUser]
    /\ atTenant = [t \in Tabs |-> Public]
    /\ faults = 0

-----------------------------------------------------------------------------
(* Screens: what an answer leaves in the tab. *)

Shows(t, f, e, u) ==
    /\ form' = [form EXCEPT ![t] = f]
    /\ shownEmail' = [shownEmail EXCEPT ![t] = e]
    /\ shownUser' = [shownUser EXCEPT ![t] = u]
    /\ board' = [board EXCEPT ![t] = Public]

LoginFormPartial(t) == Shows(t, "login", NoEmail, NoUser)

\* The page "/"; apart from its form it sends nothing.
LoginShell(t) == LoginFormPartial(t)

\* OTPBody is the form of both code screens: it posts the hidden user_id_hash.
\* Its Resend button is inside hx-disable and posts nothing.
OTPBody(t, f, e, u) == Shows(t, f, e, u)
OTPFormPartial(t, e, u) == OTPBody(t, "otp", e, u)
OTPErrorPartial(t, e, u) == OTPBody(t, "error", e, u)

\* The hash in these two is not kept: what is sent from them may carry any.
ConsentPartial(t) == Shows(t, "consent", NoEmail, NoUser)
RegisterPartial(t) == Shows(t, "register", NoEmail, NoUser)

\* The dashboard names nobody; u is the user it is served to.
DashboardShell(t, u, id) ==
    /\ form' = [form EXCEPT ![t] = "dashboard"]
    /\ shownEmail' = [shownEmail EXCEPT ![t] = NoEmail]
    /\ shownUser' = [shownUser EXCEPT ![t] = u]
    /\ board' = [board EXCEPT ![t] = id]

\* The page a tab is on when it sends the next request, and where it goes on.
On(t, f) == pc[t] = "idle" /\ form[t] = f
Goto(t, step) == pc' = [pc EXCEPT ![t] = step]

\* An answer; the request's locals end with it.
Answered(t) ==
    /\ Goto(t, "idle")
    /\ atEmail' = [atEmail EXCEPT ![t] = NoEmail]
    /\ atUser' = [atUser EXCEPT ![t] = NoUser]
    /\ atTenant' = [atTenant EXCEPT ![t] = Public]

\* A query fails, or runs and loses its answer.
Fault == faults < MaxFaults /\ faults' = faults + 1
NoFault == UNCHANGED faults

Jar(t) == BrowserOf[t]
SetCookies(t, u, id) ==
    /\ access' = access \cup {Jar(t)}
    /\ jarUser' = [jarUser EXCEPT ![Jar(t)] = u]
    /\ jarTenant' = [jarTenant EXCEPT ![Jar(t)] = id]
    /\ jarRefresh' = [jarRefresh EXCEPT ![Jar(t)] = u]
DropAccess(b) ==
    /\ access' = access \ {b}
    /\ jarUser' = [jarUser EXCEPT ![b] = NoUser]
    /\ jarTenant' = [jarTenant EXCEPT ![b] = Public]
ClearCookies(b) == DropAccess(b) /\ jarRefresh' = [jarRefresh EXCEPT ![b] = NoUser]

FindByEmailHash(e) == {u \in Users : email[u] = e}

-----------------------------------------------------------------------------
(* GET / and POST /auth/otp/send. *)

\* LoginPage, opened or reloaded from any screen.
LoginPage(t) ==
    /\ pc[t] = "idle" /\ form[t] # "login"
    /\ LoginShell(t)
    /\ UNCHANGED <<tables, keyAt, jars, pc, locals, faults>>

\* The tenant whose domain_whitelist holds the domain of an address.
ResolveByDomain(e) == DomainTenant[e]

\* ResolveTenantByEmail and its callers: a failed query and an unlisted domain
\* both end in "public".
ResolveTenantByEmail(e, id) ==
    \/ id = ResolveByDomain(e) /\ NoFault
    \/ id = Public /\ Fault

\* SendOTP up to the lookup; the limiter may refuse.
SendOTP(t, e) ==
    /\ On(t, "login")
    /\ \/ /\ \E id \in Tenants :
                ResolveTenantByEmail(e, id) /\ atTenant' = [atTenant EXCEPT ![t] = id]
          /\ atEmail' = [atEmail EXCEPT ![t] = e]
          /\ Goto(t, "find")
          /\ UNCHANGED <<screen, atUser>>
       \/ /\ OTPErrorPartial(t, e, NoUser)
          /\ UNCHANGED <<pc, locals, faults>>
    /\ UNCHANGED <<tables, keyAt, jars>>

\* A lookup that fails is taken for an account that does not exist.
FindUser(t) ==
    /\ pc[t] = "find"
    /\ \/ \E u \in FindByEmailHash(atEmail[t]) :
            /\ atUser' = [atUser EXCEPT ![t] = u]
            /\ Goto(t, "send") /\ NoFault
       \/ /\ FindByEmailHash(atEmail[t]) = {} /\ NoFault
          /\ Goto(t, "create") /\ UNCHANGED atUser
       \/ /\ Fault
          /\ Goto(t, "create") /\ UNCHANGED atUser
    /\ UNCHANGED <<tables, keyAt, jars, screen, atEmail, atTenant>>

Insert(u, e, id) ==
    /\ email' = [email EXCEPT ![u] = e]
    /\ tenant' = [tenant EXCEPT ![u] = id]
    /\ UNCHANGED live

\* Mutant: users without its unique index on email_hash.
CreateAnyway(t) ==
    /\ pc[t] = "create"
    /\ \E u \in FindByEmailHash(NoEmail) :
        /\ Insert(u, atEmail[t], atTenant[t])
        /\ atUser' = [atUser EXCEPT ![t] = u]
        /\ Goto(t, "send") /\ UNCHANGED <<atEmail, atTenant, faults>>
    /\ UNCHANGED <<keyAt, jars, screen>>

\* Create under a new UUID, for which idx_users_email_hash must have room.  An
\* error is answered 500, also when the row was written.
Create(t) ==
    /\ pc[t] = "create"
    /\ \/ \E u \in FindByEmailHash(NoEmail) :
            /\ FindByEmailHash(atEmail[t]) = {}
            /\ Insert(u, atEmail[t], atTenant[t])
            /\ \/ /\ atUser' = [atUser EXCEPT ![t] = u]
                  /\ Goto(t, "send") /\ UNCHANGED <<atEmail, atTenant, faults>>
               \/ Answered(t) /\ Fault
       \/ /\ FindByEmailHash(atEmail[t]) # {} /\ NoFault
          /\ Answered(t) /\ UNCHANGED tables
       \/ /\ Fault
          /\ Answered(t) /\ UNCHANGED tables
    /\ UNCHANGED <<keyAt, jars, screen>>

\* OTPService.Send stores a code, then mails it; an error may come from either.
SendCode(t) ==
    /\ pc[t] = "send"
    /\ Answered(t)
    /\ \/ /\ live' = live \cup {atUser[t]}
          /\ OTPFormPartial(t, atEmail[t], atUser[t]) /\ NoFault
       \/ /\ live' \in {live, live \cup {atUser[t]}}
          /\ LoginFormPartial(t) /\ Fault
    /\ UNCHANGED <<email, tenant, keyAt, jars>>

-----------------------------------------------------------------------------
(* POST /auth/otp/verify and /auth/consent. *)

\* An empty user_id_hash is answered 400.  The limiter or the OTP service may
\* refuse, with a screen that names nobody; a code that was right is used up.
VerifyOTP(t, u) ==
    /\ pc[t] = "idle"
    /\ \/ /\ u \in live
          /\ live' = live \ {u}
          /\ atUser' = [atUser EXCEPT ![t] = u]
          /\ Goto(t, "lookup")
          /\ UNCHANGED screen
       \/ /\ OTPErrorPartial(t, NoEmail, NoUser)
          /\ live' \in {live, live \ {u}}
          /\ UNCHANGED <<pc, atUser>>
    /\ UNCHANGED <<email, tenant, keyAt, jars, atEmail, atTenant, faults>>

\* A code expires, or its last attempt is spent elsewhere.
CodeDies(u) ==
    /\ u \in live
    /\ live' = live \ {u}
    /\ UNCHANGED <<email, tenant, keyAt, jars, screen, pc, locals, faults>>

\* FindByUserIDHash: the row of a hash, if there is one.
Exists(u) == u \in Users /\ email[u] # NoEmail

consentGranted(u) == FALSE

\* main's presence check takes its last argument for an email: it hashes the
\* hash it is given, and no row has that email_hash.
HasPasskey(arg) == \E v \in FindByEmailHash(arg), b \in Browsers : v \in keyAt[b]

\* IssueSession with tenant id, which Issue replaces when empty; a session that
\* cannot be saved leaves the cookies unset.
IssueCookies(t, u, id) ==
    \/ SetCookies(t, u, id) /\ NoFault
    \/ UNCHANGED jars /\ Fault

\* The rest of VerifyOTP.
Verified(t) ==
    /\ pc[t] = "lookup"
    /\ \/ /\ Exists(atUser[t])
          /\ IF consentGranted(atUser[t])
             THEN /\ IssueCookies(t, atUser[t], tenant[atUser[t]])
                  /\ Goto(t, "guard") /\ UNCHANGED <<screen, locals>>
             ELSE ConsentPartial(t) /\ Answered(t) /\ UNCHANGED <<jars, faults>>
       \/ Fault /\ Answered(t) /\ UNCHANGED <<screen, jars>>
    /\ UNCHANGED <<tables, keyAt>>

\* ConsentPage renders the form for whatever hash is in the URL.
ConsentPage(t) ==
    /\ pc[t] = "idle"
    /\ ConsentPartial(t)
    /\ UNCHANGED <<tables, keyAt, jars, pc, locals, faults>>

\* ConsentAccept; the form is sent with its three boxes ticked.
ConsentAccept(t, u) ==
    /\ pc[t] = "idle"
    /\ Exists(u)
    /\ IF HasPasskey(u)
       THEN IssueCookies(t, u, tenant[u]) /\ Goto(t, "guard") /\ UNCHANGED screen
       ELSE RegisterPartial(t) /\ NoFault /\ UNCHANGED <<jars, pc>>
    /\ UNCHANGED <<tables, keyAt, locals>>

-----------------------------------------------------------------------------
(* Passkeys. *)

\* On the public paths no one puts a tenant into the context.
ContextTenant == Public

\* The Skip button; a lookup that fails or finds no row is redirected to the
\* login page.
Skip(t, u) ==
    /\ pc[t] = "idle"
    /\ \/ /\ Exists(u)
          /\ IssueCookies(t, u, ContextTenant)
          /\ Goto(t, "guard")
          /\ UNCHANGED screen
       \/ /\ (~Exists(u) /\ NoFault) \/ Fault
          /\ LoginFormPartial(t) /\ UNCHANGED <<jars, pc>>
    /\ UNCHANGED <<tables, keyAt, locals>>

\* The Register button: BeginRegistration and FinishRegistration, one after the
\* other.  A session that cannot be saved is not told: the dashboard is asked
\* for without one.  A credential that is stored but not answered for leaves
\* the screen.
Register(t, u) ==
    /\ pc[t] = "idle"
    /\ Exists(u)
    /\ keyAt' = [keyAt EXCEPT ![Jar(t)] = @ \cup {u}]
    /\ \/ IssueCookies(t, u, ContextTenant) /\ Goto(t, "guard")
       \/ Fault /\ UNCHANGED <<jars, pc>>
    /\ UNCHANGED <<tables, screen, locals>>

\* BeginLogin and FinishLogin with a key of this browser, with or without an
\* email; FinishLogin answers an error when the session cannot be saved.
PasskeyLogin(t, u) ==
    /\ On(t, "login")
    /\ u \in keyAt[Jar(t)]
    /\ SetCookies(t, u, ContextTenant)
    /\ Goto(t, "guard")
    /\ UNCHANGED <<tables, keyAt, screen, locals, faults>>

-----------------------------------------------------------------------------
(* The provider's callback and POST /auth/refresh. *)

\* OAuthHandler.Callback once CompleteAuth has answered: the first link of an
\* identity has an empty user_id, which the session gets; the tenant is that of
\* the address the provider gave.  A session that cannot be saved is answered 500.
OAuthCallback(t, e) ==
    /\ pc[t] = "idle"
    /\ \E id \in Tenants : ResolveTenantByEmail(e, id) /\ SetCookies(t, NoUser, id)
    /\ Goto(t, "guard")
    /\ UNCHANGED <<tables, keyAt, screen, locals>>

\* Mutant: the pair is for the tenant in the cookie.
RefreshedAsBefore(t) ==
    /\ pc[t] = "refresh"
    /\ \/ Exists(atUser[t]) /\ SetCookies(t, atUser[t], jarTenant[Jar(t)])
       \/ UNCHANGED jars
    /\ Answered(t)
    /\ UNCHANGED <<tables, keyAt, screen, faults>>

\* Refresh is sent with the refresh cookie there is then, ...
StartRefresh(t) ==
    /\ pc[t] = "idle"
    /\ jarRefresh[Jar(t)] # NoUser
    /\ atUser' = [atUser EXCEPT ![t] = jarRefresh[Jar(t)]]
    /\ Goto(t, "refresh")
    /\ UNCHANGED <<tables, keyAt, jars, screen, atEmail, atTenant, faults>>

\* ... and Rotate's pair, for the tenant in the user's row, becomes the cookies
\* whatever they are by then.  When the session is gone the answer is 401.
Refreshed(t) ==
    /\ pc[t] = "refresh"
    /\ \/ Exists(atUser[t]) /\ SetCookies(t, atUser[t], tenant[atUser[t]])
       \/ UNCHANGED jars
    /\ Answered(t)
    /\ UNCHANGED <<tables, keyAt, screen, faults>>

-----------------------------------------------------------------------------
(* The dashboard. *)

\* The access cookie holds a token that is valid as long as the cookie is there.
ValidateAccessToken(b) == b \in access

\* Guard lets through whoever has a valid access cookie, whether or not its user
\* is found; everybody else is sent to the login page.
Guard(t) ==
    /\ pc[t] = "guard"
    /\ IF ValidateAccessToken(Jar(t))
       THEN /\ atUser' = [atUser EXCEPT ![t] = jarUser[Jar(t)]]
            /\ atTenant' = [atTenant EXCEPT ![t] = jarTenant[Jar(t)]]
            /\ Goto(t, "serve")
            /\ UNCHANGED <<screen, atEmail>>
       ELSE LoginShell(t) /\ Answered(t)
    /\ UNCHANGED <<tables, keyAt, jars, faults>>

GetByTenantID(id) == id \in TenantRows

\* The features of the tenant's row, or the default ones.
getDashboardData(id) == IF GetByTenantID(id) THEN id ELSE Public

\* Dashboard; a lookup that fails leaves the default features, too.
Dashboard(t) ==
    /\ pc[t] = "serve"
    /\ Answered(t)
    /\ \/ DashboardShell(t, atUser[t], getDashboardData(atTenant[t])) /\ NoFault
       \/ DashboardShell(t, atUser[t], Public) /\ Fault
    /\ UNCHANGED <<tables, keyAt, jars>>

\* The dashboard is asked for, from any screen.
OpenDashboard(t) ==
    /\ pc[t] = "idle"
    /\ Goto(t, "guard")
    /\ UNCHANGED <<tables, keyAt, jars, screen, locals, faults>>

\* Sign out: whatever becomes of the sessions, the cookies go.
Logout(t) ==
    /\ pc[t] = "idle"
    /\ ClearCookies(Jar(t))
    /\ LoginShell(t)
    /\ UNCHANGED <<tables, keyAt, pc, locals, faults>>

\* The access cookie ages out after 15 minutes, the refresh cookie not for 30 days.
AccessLapses(b) ==
    /\ b \in access
    /\ DropAccess(b)
    /\ UNCHANGED <<tables, keyAt, jarRefresh, screen, pc, locals, faults>>

-----------------------------------------------------------------------------
AuthStep(t) ==
    \/ LoginPage(t)
    \/ \E e \in Emails : SendOTP(t, e)
    \/ FindUser(t) \/ Create(t) \/ SendCode(t)
    \/ \E u \in Users : VerifyOTP(t, u) \/ ConsentAccept(t, u)
    \/ Verified(t) \/ ConsentPage(t) \/ StartRefresh(t) \/ Refreshed(t) \/ Logout(t)

PasskeyStep(t) == \E u \in Users : Skip(t, u) \/ Register(t, u) \/ PasskeyLogin(t, u)

OAuthStep(t) == \E e \in Emails : OAuthCallback(t, e)

DashboardStep(t) == OpenDashboard(t) \/ Guard(t) \/ Dashboard(t)

Next ==
    \/ \E t \in Tabs : AuthStep(t) \/ PasskeyStep(t) \/ OAuthStep(t) \/ DashboardStep(t)
    \/ \E u \in Users : CodeDies(u)
    \/ \E b \in Browsers : AccessLapses(b)

Spec == Init /\ [][Next]_vars

-----------------------------------------------------------------------------
(* What holds of the code. *)

\* The account a code form is for is the account, the only one, of the address it
\* shows, however the lookups and inserts of two tabs meet and whichever of them
\* fail (auth_handler.go 113-142).
AccountOfAsker ==
    \A t \in Tabs : form[t] = "otp" => FindByEmailHash(shownEmail[t]) = {shownUser[t]}

\* A dashboard served to an account shows the features of the tenant that its
\* address belongs to, or the default ones, never those of another tenant, whoever
\* else signs in, links or refreshes in the tabs that share the cookie
\* (dashboard_handler.go 110-122).
BoardOfTenant ==
    \A t \in Tabs : form[t] = "dashboard" /\ shownUser[t] \in Users =>
        board[t] \in {DomainTenant[email[shownUser[t]]], Public}

-----------------------------------------------------------------------------
(* What the repository says and the code does not do. *)

\* "required before first session" (consent_partial_templ.go 77): a browser that
\* has neither a refresh cookie nor a passkey gets its session on the screen that
\* follows consent.  Skip, Register and the callback issue one to any tab
\* (passkey_handler.go 117, 149, oauth_handler.go 121).
ConsentFirst ==
    [][\A b \in access' \ access : jarRefresh[b] = NoUser /\ keyAt[b] = {} =>
        \E t \in Tabs : Jar(t) = b /\ form[t] = "register"]_vars

\* context.go:9 says that the tenant is set "by handler from email domain (public
\* paths)"; no handler sets it, and Skip and the passkey handlers sign everybody
\* in to "public".
SessionInTenant ==
    \A b \in access : jarUser[b] \in Users => jarTenant[b] = tenant[jarUser[b]]

\* auth_handler.go:105 "Resolve tenant from EMAIL domain": a lookup that fails
\* once makes the account one of "public" for good.
AccountInTenant ==
    \A u \in Users : Exists(u) => tenant[u] = DomainTenant[email[u]]

\* auth_handler.go:195 "Invalid or expired code. Try again.": the form that says so
\* names nobody, and every further code typed into it is answered 400.
TryAgain == \A t \in Tabs : form[t] = "error" => shownUser[t] # NoUser
=============================================================================
