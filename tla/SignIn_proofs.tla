--------------------------- MODULE SignIn_proofs ---------------------------
(***************************************************************************)
(* Theorems about SignIn for any number of tabs, browsers, addresses, users *)
(* and tenants, whatever fails.                                             *)
(***************************************************************************)
EXTENDS SignIn, TLAPS

\* The presence check is given a hash, and no row has a hash of a hash.
LEMMA NoPasskeyByHash == ASSUME TypeOK, NEW u \in Users PROVE ~HasPasskey(u)
  BY HashAssumption DEF TypeOK, TableTypes, HasPasskey, FindByEmailHash

-----------------------------------------------------------------------------
(* Types *)

\* The login page in every tab, no rows and no cookies have the types of TypeOK.
LEMMA TypeInit == Init => TypeOK
  BY TenantAssumption, FaultAssumption
  DEF Init, TypeOK, TableTypes, ScreenTypes, RequestTypes, FaultTypes, Forms, Steps

\* A screen is well typed when the code form names a user.
LEMMA ShowsTypes ==
    ASSUME ScreenTypes, NEW t \in Tabs, NEW f \in Forms, NEW e \in Emails \cup {NoEmail},
           NEW u \in Users \cup {NoUser}, f = "otp" => u \in Users,
           Shows(t, f, e, u)
    PROVE  ScreenTypes'
  BY TenantAssumption DEF ScreenTypes, Shows

\* Every step keeps the types.
LEMMA TypeStep == TypeOK /\ [Next]_vars => TypeOK'
<1> SUFFICES ASSUME TypeOK, [Next]_vars PROVE TypeOK'
  OBVIOUS
<1> USE BrowserAssumption, UserAssumption, EmailAssumption, TenantAssumption, FaultAssumption DEF TypeOK
<1>1. ASSUME NEW t \in Tabs, LoginPage(t) PROVE TypeOK'
  <2>1. TableTypes'
    BY <1>1 DEF LoginPage, tables, jars, TableTypes
  <2>2. ScreenTypes'
    BY <1>1 DEF LoginPage, LoginShell, LoginFormPartial, Shows, ScreenTypes, Forms
  <2>3. RequestTypes'
    BY <1>1 DEF LoginPage, locals, RequestTypes
  <2>4. FaultTypes'
    BY <1>1 DEF LoginPage, FaultTypes
  <2>5. QED
    BY <2>1, <2>2, <2>3, <2>4
<1>2. ASSUME NEW t \in Tabs, NEW e \in Emails, SendOTP(t, e) PROVE TypeOK'
  <2>1. TableTypes'
    BY <1>2 DEF SendOTP, tables, jars, TableTypes
  <2>2. ScreenTypes'
    BY <1>2 DEF SendOTP, OTPErrorPartial, OTPBody, Shows, screen, ScreenTypes, Forms
  <2>3. RequestTypes'
    BY <1>2 DEF SendOTP, Goto, locals, RequestTypes, Steps
  <2>4. FaultTypes'
    BY <1>2 DEF SendOTP, ResolveTenantByEmail, Fault, NoFault, FaultTypes
  <2>5. QED
    BY <2>1, <2>2, <2>3, <2>4
<1>3. ASSUME NEW t \in Tabs, FindUser(t) PROVE TypeOK'
  <2>1. TableTypes'
    BY <1>3 DEF FindUser, tables, jars, TableTypes
  <2>2. ScreenTypes'
    BY <1>3 DEF FindUser, screen, ScreenTypes
  <2>3. RequestTypes'
    BY <1>3 DEF FindUser, FindByEmailHash, Goto, RequestTypes, Steps
  <2>4. FaultTypes'
    BY <1>3 DEF FindUser, Fault, NoFault, FaultTypes
  <2>5. QED
    BY <2>1, <2>2, <2>3, <2>4
<1>4. ASSUME NEW t \in Tabs, Create(t) PROVE TypeOK'
  <2>1. TableTypes'
    BY <1>4 DEF Create, Insert, tables, jars, TableTypes, RequestTypes
  <2>2. ScreenTypes'
    BY <1>4 DEF Create, screen, ScreenTypes
  <2>3. RequestTypes'
    BY <1>4 DEF Create, FindByEmailHash, Answered, Goto, RequestTypes, Steps
  <2>4. FaultTypes'
    BY <1>4 DEF Create, Fault, NoFault, FaultTypes
  <2>5. QED
    BY <2>1, <2>2, <2>3, <2>4
<1>5. ASSUME NEW t \in Tabs, SendCode(t) PROVE TypeOK'
  <2>1. TableTypes'
    BY <1>5 DEF SendCode, jars, TableTypes, RequestTypes
  <2>2. ScreenTypes'
    <3>1. atEmail[t] \in Emails /\ atUser[t] \in Users
      BY <1>5 DEF SendCode, RequestTypes
    <3>2. CASE OTPFormPartial(t, atEmail[t], atUser[t])
      BY <3>1, <3>2, ShowsTypes DEF OTPFormPartial, OTPBody, Forms
    <3>3. CASE LoginFormPartial(t)
      BY <3>3, ShowsTypes DEF LoginFormPartial, Forms
    <3>4. QED
      BY <1>5, <3>2, <3>3 DEF SendCode
  <2>3. RequestTypes'
    BY <1>5 DEF SendCode, Answered, Goto, RequestTypes, Steps
  <2>4. FaultTypes'
    BY <1>5 DEF SendCode, Fault, NoFault, FaultTypes
  <2>5. QED
    BY <2>1, <2>2, <2>3, <2>4
<1>6. ASSUME NEW t \in Tabs, NEW u \in Users, VerifyOTP(t, u) PROVE TypeOK'
  <2>1. TableTypes'
    BY <1>6 DEF VerifyOTP, jars, TableTypes
  <2>2. ScreenTypes'
    <3>1. CASE OTPErrorPartial(t, NoEmail, NoUser)
      BY <3>1, ShowsTypes DEF OTPErrorPartial, OTPBody, Forms
    <3>2. CASE UNCHANGED screen
      BY <3>2 DEF screen, ScreenTypes
    <3>3. QED
      BY <1>6, <3>1, <3>2 DEF VerifyOTP
  <2>3. RequestTypes'
    BY <1>6 DEF VerifyOTP, Goto, RequestTypes, Steps
  <2>4. FaultTypes'
    BY <1>6 DEF VerifyOTP, FaultTypes
  <2>5. QED
    BY <2>1, <2>2, <2>3, <2>4
<1>7. ASSUME NEW t \in Tabs, Verified(t) PROVE TypeOK'
  <2>1. TableTypes'
    BY <1>7 DEF Verified, consentGranted, tables, jars, TableTypes
  <2>2. ScreenTypes'
    BY <1>7 DEF Verified, ConsentPartial, Shows, screen, ScreenTypes, Forms
  <2>3. RequestTypes'
    BY <1>7 DEF Verified, Answered, Goto, locals, RequestTypes, Steps
  <2>4. FaultTypes'
    BY <1>7 DEF Verified, consentGranted, Fault, FaultTypes
  <2>5. QED
    BY <2>1, <2>2, <2>3, <2>4
<1>8. ASSUME NEW t \in Tabs, ConsentPage(t) PROVE TypeOK'
  <2>1. TableTypes'
    BY <1>8 DEF ConsentPage, tables, jars, TableTypes
  <2>2. ScreenTypes'
    BY <1>8 DEF ConsentPage, ConsentPartial, Shows, ScreenTypes, Forms
  <2>3. RequestTypes'
    BY <1>8 DEF ConsentPage, locals, RequestTypes
  <2>4. FaultTypes'
    BY <1>8 DEF ConsentPage, FaultTypes
  <2>5. QED
    BY <2>1, <2>2, <2>3, <2>4
<1>9. ASSUME NEW t \in Tabs, NEW u \in Users, ConsentAccept(t, u) PROVE TypeOK'
  <2>1. TableTypes'
    BY <1>9, NoPasskeyByHash DEF ConsentAccept, tables, jars, TableTypes
  <2>2. ScreenTypes'
    BY <1>9, NoPasskeyByHash DEF ConsentAccept, RegisterPartial, Shows, ScreenTypes, Forms
  <2>3. RequestTypes'
    BY <1>9, NoPasskeyByHash DEF ConsentAccept, locals, RequestTypes
  <2>4. FaultTypes'
    BY <1>9, NoPasskeyByHash DEF ConsentAccept, NoFault, FaultTypes
  <2>5. QED
    BY <2>1, <2>2, <2>3, <2>4
<1>10. ASSUME NEW t \in Tabs, NEW u \in Users, Skip(t, u) PROVE TypeOK'
  <2>1. TableTypes'
    BY <1>10 DEF Skip, IssueCookies, SetCookies, ContextTenant, Jar, tables, jars, TableTypes
  <2>2. ScreenTypes'
    BY <1>10 DEF Skip, LoginFormPartial, Shows, screen, ScreenTypes, Forms
  <2>3. RequestTypes'
    BY <1>10 DEF Skip, Goto, locals, RequestTypes, Steps
  <2>4. FaultTypes'
    BY <1>10 DEF Skip, IssueCookies, Fault, NoFault, FaultTypes
  <2>5. QED
    BY <2>1, <2>2, <2>3, <2>4
<1>11. ASSUME NEW t \in Tabs, NEW u \in Users, Register(t, u) PROVE TypeOK'
  <2>1. TableTypes'
    BY <1>11 DEF Register, IssueCookies, SetCookies, ContextTenant, Jar, tables, jars, TableTypes
  <2>2. ScreenTypes'
    BY <1>11 DEF Register, screen, ScreenTypes
  <2>3. RequestTypes'
    BY <1>11 DEF Register, Goto, locals, RequestTypes, Steps
  <2>4. FaultTypes'
    BY <1>11 DEF Register, IssueCookies, Fault, NoFault, FaultTypes
  <2>5. QED
    BY <2>1, <2>2, <2>3, <2>4
<1>12. ASSUME NEW t \in Tabs, NEW u \in Users, PasskeyLogin(t, u) PROVE TypeOK'
  <2>1. TableTypes'
    BY <1>12 DEF PasskeyLogin, SetCookies, ContextTenant, Jar, tables, TableTypes
  <2>2. ScreenTypes'
    BY <1>12 DEF PasskeyLogin, screen, ScreenTypes
  <2>3. RequestTypes'
    BY <1>12 DEF PasskeyLogin, Goto, locals, RequestTypes, Steps
  <2>4. FaultTypes'
    BY <1>12 DEF PasskeyLogin, FaultTypes
  <2>5. QED
    BY <2>1, <2>2, <2>3, <2>4
<1>13. ASSUME NEW t \in Tabs, NEW e \in Emails, OAuthCallback(t, e) PROVE TypeOK'
  <2>1. TableTypes'
    BY <1>13 DEF OAuthCallback, SetCookies, Jar, tables, TableTypes
  <2>2. ScreenTypes'
    BY <1>13 DEF OAuthCallback, screen, ScreenTypes
  <2>3. RequestTypes'
    BY <1>13 DEF OAuthCallback, Goto, locals, RequestTypes, Steps
  <2>4. FaultTypes'
    BY <1>13 DEF OAuthCallback, ResolveTenantByEmail, Fault, NoFault, FaultTypes
  <2>5. QED
    BY <2>1, <2>2, <2>3, <2>4
<1>14. ASSUME NEW t \in Tabs, StartRefresh(t) PROVE TypeOK'
  <2>1. TableTypes'
    BY <1>14 DEF StartRefresh, tables, jars, TableTypes
  <2>2. ScreenTypes'
    BY <1>14 DEF StartRefresh, screen, ScreenTypes
  <2>3. RequestTypes'
    BY <1>14 DEF StartRefresh, Goto, Jar, RequestTypes, Steps, TableTypes
  <2>4. FaultTypes'
    BY <1>14 DEF StartRefresh, FaultTypes
  <2>5. QED
    BY <2>1, <2>2, <2>3, <2>4
<1>15. ASSUME NEW t \in Tabs, Refreshed(t) PROVE TypeOK'
  <2>1. TableTypes'
    <3>1. CASE Exists(atUser[t]) /\ SetCookies(t, atUser[t], tenant[atUser[t]])
      <4>1. atUser[t] \in Users /\ tenant[atUser[t]] \in Tenants
        BY <3>1 DEF Exists, TableTypes
      <4>2. QED
        BY <1>15, <3>1, <4>1 DEF Refreshed, SetCookies, Jar, tables, TableTypes
    <3>2. CASE UNCHANGED jars
      BY <1>15, <3>2 DEF Refreshed, tables, jars, TableTypes
    <3>3. QED
      BY <1>15, <3>1, <3>2 DEF Refreshed
  <2>2. ScreenTypes'
    BY <1>15 DEF Refreshed, screen, ScreenTypes
  <2>3. RequestTypes'
    BY <1>15 DEF Refreshed, Answered, Goto, RequestTypes, Steps
  <2>4. FaultTypes'
    BY <1>15 DEF Refreshed, FaultTypes
  <2>5. QED
    BY <2>1, <2>2, <2>3, <2>4
<1>16. ASSUME NEW t \in Tabs, OpenDashboard(t) PROVE TypeOK'
  <2>1. TableTypes'
    BY <1>16 DEF OpenDashboard, tables, jars, TableTypes
  <2>2. ScreenTypes'
    BY <1>16 DEF OpenDashboard, screen, ScreenTypes
  <2>3. RequestTypes'
    BY <1>16 DEF OpenDashboard, Goto, locals, RequestTypes, Steps
  <2>4. FaultTypes'
    BY <1>16 DEF OpenDashboard, FaultTypes
  <2>5. QED
    BY <2>1, <2>2, <2>3, <2>4
<1>17. ASSUME NEW t \in Tabs, Guard(t) PROVE TypeOK'
  <2>1. TableTypes'
    BY <1>17 DEF Guard, tables, jars, TableTypes
  <2>2. ScreenTypes'
    BY <1>17 DEF Guard, LoginShell, LoginFormPartial, Shows, screen, ScreenTypes, Forms
  <2>3. RequestTypes'
    BY <1>17 DEF Guard, Answered, Goto, Jar, jars, RequestTypes, Steps, TableTypes
  <2>4. FaultTypes'
    BY <1>17 DEF Guard, FaultTypes
  <2>5. QED
    BY <2>1, <2>2, <2>3, <2>4
<1>18. ASSUME NEW t \in Tabs, Dashboard(t) PROVE TypeOK'
  <2>1. TableTypes'
    BY <1>18 DEF Dashboard, tables, jars, TableTypes
  <2>2. ScreenTypes'
    <3>1. atUser[t] \in Users \cup {NoUser} /\ atTenant[t] \in Tenants
      BY DEF RequestTypes
    <3>2. \E id \in Tenants : DashboardShell(t, atUser[t], id)
      BY <1>18, <3>1, TenantAssumption DEF Dashboard, getDashboardData
    <3>3. QED
      BY <3>1, <3>2 DEF DashboardShell, ScreenTypes, Forms
  <2>3. RequestTypes'
    BY <1>18 DEF Dashboard, Answered, Goto, RequestTypes, Steps
  <2>4. FaultTypes'
    BY <1>18 DEF Dashboard, Fault, NoFault, FaultTypes
  <2>5. QED
    BY <2>1, <2>2, <2>3, <2>4
<1>19. ASSUME NEW t \in Tabs, Logout(t) PROVE TypeOK'
  <2>1. TableTypes'
    BY <1>19 DEF Logout, ClearCookies, DropAccess, tables, TableTypes
  <2>2. ScreenTypes'
    BY <1>19 DEF Logout, LoginShell, LoginFormPartial, Shows, ScreenTypes, Forms
  <2>3. RequestTypes'
    BY <1>19 DEF Logout, locals, RequestTypes
  <2>4. FaultTypes'
    BY <1>19 DEF Logout, FaultTypes
  <2>5. QED
    BY <2>1, <2>2, <2>3, <2>4
<1>20. ASSUME NEW u \in Users, CodeDies(u) PROVE TypeOK'
  <2>1. TableTypes'
    BY <1>20 DEF CodeDies, jars, TableTypes
  <2>2. ScreenTypes'
    BY <1>20 DEF CodeDies, screen, ScreenTypes
  <2>3. RequestTypes'
    BY <1>20 DEF CodeDies, locals, RequestTypes
  <2>4. FaultTypes'
    BY <1>20 DEF CodeDies, FaultTypes
  <2>5. QED
    BY <2>1, <2>2, <2>3, <2>4
<1>21. ASSUME NEW b \in Browsers, AccessLapses(b) PROVE TypeOK'
  <2>1. TableTypes'
    BY <1>21 DEF AccessLapses, DropAccess, tables, TableTypes
  <2>2. ScreenTypes'
    BY <1>21 DEF AccessLapses, screen, ScreenTypes
  <2>3. RequestTypes'
    BY <1>21 DEF AccessLapses, locals, RequestTypes
  <2>4. FaultTypes'
    BY <1>21 DEF AccessLapses, FaultTypes
  <2>5. QED
    BY <2>1, <2>2, <2>3, <2>4
<1>22. CASE UNCHANGED vars
  BY <1>22
     DEF vars, tables, jars, screen, locals, TableTypes, RequestTypes, ScreenTypes, Forms, Steps, FaultTypes
<1>23. QED
  BY <1>1, <1>2, <1>3, <1>4, <1>5, <1>6, <1>7, <1>8, <1>9, <1>10, <1>11, <1>12, <1>13, <1>14, <1>15,
     <1>16, <1>17, <1>18, <1>19, <1>20, <1>21, <1>22
     DEF Next, AuthStep, PasskeyStep, OAuthStep, DashboardStep

\* Every reachable state is well typed.
THEOREM TypeCorrect == Spec => []TypeOK
  BY TypeInit, TypeStep, PTL DEF Spec

-----------------------------------------------------------------------------
(* One account for an address *)

\* The unique index keeps two rows from having the same email_hash.
IndexOK == \A u, v \in Users : email[u] = email[v] /\ email[u] # NoEmail => u = v

\* A request that sends a code has the row of the address it sends it to.
SendOK == \A t \in Tabs : pc[t] = "send" => email[atUser[t]] = atEmail[t]

\* And so has the screen it answers with.
OtpOK ==
    \A t \in Tabs : form[t] = "otp" =>
        shownEmail[t] \in Emails /\ email[shownUser[t]] = shownEmail[t]

AccountOK == IndexOK /\ SendOK /\ OtpOK

\* Rows are inserted for addresses that have none, and never change theirs.
LEMMA AccountStepOK == TypeOK /\ AccountOK /\ [Next]_vars => AccountOK'
<1> SUFFICES ASSUME TypeOK, AccountOK, [Next]_vars PROVE AccountOK'
  OBVIOUS
<1> USE UserAssumption, EmailAssumption DEF TypeOK, AccountOK
<1>1. ASSUME NEW t \in Tabs, LoginPage(t) PROVE AccountOK'
  <2>1. IndexOK'
    BY <1>1 DEF LoginPage, tables, IndexOK
  <2>2. SendOK'
    BY <1>1 DEF LoginPage, tables, locals, SendOK
  <2>3. OtpOK'
    BY <1>1 DEF LoginPage, LoginShell, LoginFormPartial, Shows, tables, OtpOK, ScreenTypes
  <2>4. QED
    BY <2>1, <2>2, <2>3
<1>2. ASSUME NEW t \in Tabs, NEW e \in Emails, SendOTP(t, e) PROVE AccountOK'
  <2>1. IndexOK'
    BY <1>2 DEF SendOTP, tables, IndexOK
  <2>2. SendOK'
    BY <1>2 DEF SendOTP, Goto, tables, locals, SendOK, RequestTypes
  <2>3. OtpOK'
    BY <1>2 DEF SendOTP, OTPErrorPartial, OTPBody, Shows, tables, screen, OtpOK, ScreenTypes
  <2>4. QED
    BY <2>1, <2>2, <2>3
<1>3. ASSUME NEW t \in Tabs, FindUser(t) PROVE AccountOK'
  <2>1. IndexOK'
    BY <1>3 DEF FindUser, tables, IndexOK
  <2>2. SendOK'
    BY <1>3 DEF FindUser, FindByEmailHash, Goto, tables, SendOK, RequestTypes
  <2>3. OtpOK'
    BY <1>3 DEF FindUser, tables, screen, OtpOK
  <2>4. QED
    BY <2>1, <2>2, <2>3
<1>4. ASSUME NEW t \in Tabs, Create(t) PROVE AccountOK'
  <2>1. IndexOK'
    BY <1>4 DEF Create, FindByEmailHash, Insert, tables, IndexOK, TableTypes
  <2>2. SendOK'
    BY <1>4
       DEF Create, FindByEmailHash, Insert, Answered, Goto, tables, SendOK, TableTypes, RequestTypes
  <2>3. OtpOK'
    BY <1>4 DEF Create, FindByEmailHash, Insert, tables, screen, OtpOK, TableTypes, ScreenTypes
  <2>4. QED
    BY <2>1, <2>2, <2>3
<1>5. ASSUME NEW t \in Tabs, SendCode(t) PROVE AccountOK'
  <2>1. IndexOK'
    BY <1>5 DEF SendCode, IndexOK
  <2>2. SendOK'
    BY <1>5 DEF SendCode, Answered, Goto, SendOK, RequestTypes
  <2>3. OtpOK'
    BY <1>5
       DEF SendCode, OTPFormPartial, OTPBody, LoginFormPartial, Shows, OtpOK, SendOK, ScreenTypes, RequestTypes
  <2>4. QED
    BY <2>1, <2>2, <2>3
<1>6. ASSUME NEW t \in Tabs, NEW u \in Users, VerifyOTP(t, u) PROVE AccountOK'
  <2>1. IndexOK'
    BY <1>6 DEF VerifyOTP, IndexOK
  <2>2. SendOK'
    BY <1>6 DEF VerifyOTP, Goto, SendOK, RequestTypes
  <2>3. OtpOK'
    BY <1>6 DEF VerifyOTP, OTPErrorPartial, OTPBody, Shows, screen, OtpOK, ScreenTypes
  <2>4. QED
    BY <2>1, <2>2, <2>3
<1>7. ASSUME NEW t \in Tabs, Verified(t) PROVE AccountOK'
  <2>1. IndexOK'
    BY <1>7 DEF Verified, tables, IndexOK
  <2>2. SendOK'
    BY <1>7 DEF Verified, Answered, Goto, tables, locals, SendOK, RequestTypes
  <2>3. OtpOK'
    BY <1>7 DEF Verified, ConsentPartial, Shows, tables, screen, OtpOK, ScreenTypes
  <2>4. QED
    BY <2>1, <2>2, <2>3
<1>8. ASSUME NEW t \in Tabs, ConsentPage(t) PROVE AccountOK'
  <2>1. IndexOK'
    BY <1>8 DEF ConsentPage, tables, IndexOK
  <2>2. SendOK'
    BY <1>8 DEF ConsentPage, tables, locals, SendOK
  <2>3. OtpOK'
    BY <1>8 DEF ConsentPage, ConsentPartial, Shows, tables, OtpOK, ScreenTypes
  <2>4. QED
    BY <2>1, <2>2, <2>3
<1>9. ASSUME NEW t \in Tabs, NEW u \in Users, ConsentAccept(t, u) PROVE AccountOK'
  <2>1. IndexOK'
    BY <1>9, NoPasskeyByHash DEF ConsentAccept, tables, IndexOK
  <2>2. SendOK'
    BY <1>9, NoPasskeyByHash DEF ConsentAccept, tables, locals, SendOK
  <2>3. OtpOK'
    BY <1>9, NoPasskeyByHash DEF ConsentAccept, RegisterPartial, Shows, tables, OtpOK, ScreenTypes
  <2>4. QED
    BY <2>1, <2>2, <2>3
<1>10. ASSUME NEW t \in Tabs, NEW u \in Users, Skip(t, u) PROVE AccountOK'
  <2>1. IndexOK'
    BY <1>10 DEF Skip, tables, IndexOK
  <2>2. SendOK'
    BY <1>10 DEF Skip, Goto, tables, locals, SendOK, RequestTypes
  <2>3. OtpOK'
    BY <1>10 DEF Skip, LoginFormPartial, Shows, tables, screen, OtpOK, ScreenTypes
  <2>4. QED
    BY <2>1, <2>2, <2>3
<1>11. ASSUME NEW t \in Tabs, NEW u \in Users, Register(t, u) PROVE AccountOK'
  <2>1. IndexOK'
    BY <1>11 DEF Register, tables, IndexOK
  <2>2. SendOK'
    BY <1>11 DEF Register, Goto, tables, locals, SendOK, RequestTypes
  <2>3. OtpOK'
    BY <1>11 DEF Register, tables, screen, OtpOK
  <2>4. QED
    BY <2>1, <2>2, <2>3
<1>12. ASSUME NEW t \in Tabs, NEW u \in Users, PasskeyLogin(t, u) PROVE AccountOK'
  <2>1. IndexOK'
    BY <1>12 DEF PasskeyLogin, tables, IndexOK
  <2>2. SendOK'
    BY <1>12 DEF PasskeyLogin, Goto, tables, locals, SendOK
  <2>3. OtpOK'
    BY <1>12 DEF PasskeyLogin, tables, screen, OtpOK
  <2>4. QED
    BY <2>1, <2>2, <2>3
<1>13. ASSUME NEW t \in Tabs, NEW e \in Emails, OAuthCallback(t, e) PROVE AccountOK'
  <2>1. IndexOK'
    BY <1>13 DEF OAuthCallback, tables, IndexOK
  <2>2. SendOK'
    BY <1>13 DEF OAuthCallback, Goto, tables, locals, SendOK
  <2>3. OtpOK'
    BY <1>13 DEF OAuthCallback, tables, screen, OtpOK
  <2>4. QED
    BY <2>1, <2>2, <2>3
<1>14. ASSUME NEW t \in Tabs, StartRefresh(t) PROVE AccountOK'
  <2>1. IndexOK'
    BY <1>14 DEF StartRefresh, tables, IndexOK
  <2>2. SendOK'
    BY <1>14 DEF StartRefresh, Goto, tables, SendOK
  <2>3. OtpOK'
    BY <1>14 DEF StartRefresh, tables, screen, OtpOK
  <2>4. QED
    BY <2>1, <2>2, <2>3
<1>15. ASSUME NEW t \in Tabs, Refreshed(t) PROVE AccountOK'
  <2>1. IndexOK'
    BY <1>15 DEF Refreshed, tables, IndexOK
  <2>2. SendOK'
    BY <1>15 DEF Refreshed, Answered, Goto, tables, SendOK
  <2>3. OtpOK'
    BY <1>15 DEF Refreshed, tables, screen, OtpOK
  <2>4. QED
    BY <2>1, <2>2, <2>3
<1>16. ASSUME NEW t \in Tabs, OpenDashboard(t) PROVE AccountOK'
  <2>1. IndexOK'
    BY <1>16 DEF OpenDashboard, tables, IndexOK
  <2>2. SendOK'
    BY <1>16 DEF OpenDashboard, Goto, tables, locals, SendOK
  <2>3. OtpOK'
    BY <1>16 DEF OpenDashboard, tables, screen, OtpOK
  <2>4. QED
    BY <2>1, <2>2, <2>3
<1>17. ASSUME NEW t \in Tabs, Guard(t) PROVE AccountOK'
  <2>1. IndexOK'
    BY <1>17 DEF Guard, tables, IndexOK
  <2>2. SendOK'
    BY <1>17 DEF Guard, Answered, Goto, tables, SendOK, RequestTypes
  <2>3. OtpOK'
    BY <1>17 DEF Guard, LoginShell, LoginFormPartial, Shows, tables, screen, OtpOK, ScreenTypes
  <2>4. QED
    BY <2>1, <2>2, <2>3
<1>18. ASSUME NEW t \in Tabs, Dashboard(t) PROVE AccountOK'
  <2>1. IndexOK'
    BY <1>18 DEF Dashboard, tables, IndexOK
  <2>2. SendOK'
    BY <1>18 DEF Dashboard, Answered, Goto, tables, SendOK
  <2>3. OtpOK'
    BY <1>18 DEF Dashboard, DashboardShell, tables, OtpOK, ScreenTypes
  <2>4. QED
    BY <2>1, <2>2, <2>3
<1>19. ASSUME NEW t \in Tabs, Logout(t) PROVE AccountOK'
  <2>1. IndexOK'
    BY <1>19 DEF Logout, tables, IndexOK
  <2>2. SendOK'
    BY <1>19 DEF Logout, tables, locals, SendOK
  <2>3. OtpOK'
    BY <1>19 DEF Logout, LoginShell, LoginFormPartial, Shows, tables, OtpOK, ScreenTypes
  <2>4. QED
    BY <2>1, <2>2, <2>3
<1>20. ASSUME NEW u \in Users, CodeDies(u) PROVE AccountOK'
  <2>1. IndexOK'
    BY <1>20 DEF CodeDies, IndexOK
  <2>2. SendOK'
    BY <1>20 DEF CodeDies, locals, SendOK
  <2>3. OtpOK'
    BY <1>20 DEF CodeDies, screen, OtpOK
  <2>4. QED
    BY <2>1, <2>2, <2>3
<1>21. ASSUME NEW b \in Browsers, AccessLapses(b) PROVE AccountOK'
  <2>1. IndexOK'
    BY <1>21 DEF AccessLapses, tables, IndexOK
  <2>2. SendOK'
    BY <1>21 DEF AccessLapses, tables, locals, SendOK
  <2>3. OtpOK'
    BY <1>21 DEF AccessLapses, tables, screen, OtpOK
  <2>4. QED
    BY <2>1, <2>2, <2>3
<1>22. CASE UNCHANGED vars
  BY <1>22
     DEF vars, tables, jars, screen, locals, IndexOK, TableTypes, SendOK, RequestTypes, OtpOK, ScreenTypes
<1>23. QED
  BY <1>1, <1>2, <1>3, <1>4, <1>5, <1>6, <1>7, <1>8, <1>9, <1>10, <1>11, <1>12, <1>13, <1>14, <1>15,
     <1>16, <1>17, <1>18, <1>19, <1>20, <1>21, <1>22
     DEF Next, AuthStep, PasskeyStep, OAuthStep, DashboardStep

\* A code form is for the only account of the address it shows.
THEOREM FormsNameTheAsker == Spec => []AccountOfAsker
<1>1. Init => AccountOK
  BY EmailAssumption DEF Init, AccountOK, IndexOK, SendOK, OtpOK
<1>2. TypeOK /\ AccountOK => AccountOfAsker
  BY EmailAssumption
  DEF AccountOK, IndexOK, OtpOK, AccountOfAsker, FindByEmailHash, TypeOK, ScreenTypes
<1>3. QED
  BY <1>1, <1>2, AccountStepOK, TypeCorrect, PTL DEF Spec

-----------------------------------------------------------------------------
(* Dashboards *)

\* A row, once there, keeps its address and its tenant.
RowsStay ==
    \A u \in Users : Exists(u) => email'[u] = email[u] /\ tenant'[u] = tenant[u]

\* Only Insert writes users, and it takes a UUID that has no row.
LEMMA RowsStayStep == TypeOK /\ [Next]_vars => RowsStay
<1> SUFFICES ASSUME TypeOK, [Next]_vars PROVE RowsStay
  OBVIOUS
<1> USE DEF TypeOK
<1>1. ASSUME NEW t \in Tabs, Create(t) PROVE RowsStay
  BY <1>1 DEF Create, FindByEmailHash, Insert, tables, Exists, RowsStay, TableTypes
<1>2. CASE UNCHANGED <<email, tenant>>
  BY <1>2 DEF RowsStay
<1>3. ASSUME NEW t \in Tabs, AuthStep(t), ~Create(t) PROVE UNCHANGED <<email, tenant>>
  BY <1>3, NoPasskeyByHash
  DEF AuthStep, LoginPage, SendOTP, FindUser, SendCode, VerifyOTP, Verified, ConsentPage, ConsentAccept,
      StartRefresh, Refreshed, Logout, tables
<1>4. ASSUME NEW t \in Tabs, PasskeyStep(t) \/ OAuthStep(t) \/ DashboardStep(t)
      PROVE  UNCHANGED <<email, tenant>>
  BY <1>4
  DEF PasskeyStep, Skip, Register, PasskeyLogin, OAuthStep, OAuthCallback, DashboardStep, OpenDashboard,
      Guard, Dashboard, tables
<1>5. ASSUME NEW u \in Users, CodeDies(u) PROVE UNCHANGED <<email, tenant>>
  BY <1>5 DEF CodeDies
<1>6. ASSUME NEW b \in Browsers, AccessLapses(b) PROVE UNCHANGED <<email, tenant>>
  BY <1>6 DEF AccessLapses, tables
<1>7. CASE UNCHANGED vars
  BY <1>7, <1>2 DEF vars, tables
<1>8. QED
  BY <1>1, <1>2, <1>3, <1>4, <1>5, <1>6, <1>7 DEF Next

\* Tenant id is that of the address of user u, or the default one.
HomeOf(u, id) == Exists(u) /\ id \in {DomainTenant[email[u]], Public}

\* The tenant a request resolves is that of the address it was sent with, ...
ResolvedOK ==
    \A t \in Tabs : pc[t] \in {"find", "create"} => atTenant[t] \in {DomainTenant[atEmail[t]], Public}

\* ... and so is the one in the row it inserts, ...
RowsOK == \A u \in Users : Exists(u) => HomeOf(u, tenant[u])

\* ... the one in the cookies of its user, who has a row as has every key's, ...
JarsOK ==
    \A b \in Browsers :
        /\ jarUser[b] \in Users => HomeOf(jarUser[b], jarTenant[b])
        /\ \A u \in keyAt[b] : Exists(u)

\* ... and the one a dashboard is about to be, or was, served for.
ServedOK ==
    \A t \in Tabs :
        /\ pc[t] = "serve" /\ atUser[t] \in Users => HomeOf(atUser[t], atTenant[t])
        /\ form[t] = "dashboard" /\ shownUser[t] \in Users => HomeOf(shownUser[t], board[t])

BoardOK == ResolvedOK /\ RowsOK /\ JarsOK /\ ServedOK

\* What is a user's home stays it.
LEMMA HomeStays ==
    ASSUME TypeOK, RowsStay
    PROVE  /\ \A u \in Users, id \in Tenants : HomeOf(u, id) => HomeOf(u, id)'
           /\ \A u \in Users : Exists(u) => Exists(u)'
  BY DEF RowsStay, HomeOf, Exists, TypeOK, TableTypes

\* Setting a user's cookies for its home, and making it a key, keeps what is said of both.
LEMMA JarsSet ==
    ASSUME TypeOK, JarsOK, RowsStay, NEW t \in Tabs, NEW u \in Users \cup {NoUser},
           NEW id \in Tenants, SetCookies(t, u, id), u \in Users => HomeOf(u, id),
           keyAt' = keyAt \/ (u \in Users /\ keyAt' = [keyAt EXCEPT ![Jar(t)] = @ \cup {u}])
    PROVE  JarsOK'
<1>1. /\ \A v \in Users, i \in Tenants : HomeOf(v, i) => HomeOf(v, i)'
      /\ \A v \in Users : Exists(v) => Exists(v)'
  BY HomeStays
<1>2. ASSUME NEW b \in Browsers, jarUser'[b] \in Users PROVE HomeOf(jarUser[b], jarTenant[b])'
  <2>1. \/ jarUser'[b] = u /\ jarTenant'[b] = id
        \/ jarUser'[b] = jarUser[b] /\ jarTenant'[b] = jarTenant[b]
    BY BrowserAssumption DEF SetCookies, Jar, TypeOK, TableTypes
  <2>2. HomeOf(jarUser'[b], jarTenant'[b]) /\ jarTenant'[b] \in Tenants
    BY <1>2, <2>1 DEF JarsOK, TypeOK, TableTypes
  <2>3. QED
    BY <1>1, <1>2, <2>2 DEF HomeOf, Exists
<1>3. ASSUME NEW b \in Browsers, NEW v \in keyAt'[b] PROVE Exists(v)'
  <2>1. v \in keyAt[b] \/ (v = u /\ u \in Users)
    BY <1>3 DEF TypeOK, TableTypes
  <2>2. v \in Users /\ Exists(v)
    BY <2>1 DEF JarsOK, HomeOf, TypeOK, TableTypes
  <2>3. QED
    BY <1>1, <2>2
<1>4. QED
  BY <1>2, <1>3 DEF JarsOK

\* Cookies and keys that stay keep it, too.
LEMMA JarsStay ==
    ASSUME TypeOK, JarsOK, RowsStay, UNCHANGED <<jars, keyAt>>
    PROVE  JarsOK'
  BY HomeStays DEF JarsOK, jars, TypeOK, TableTypes

\* A cookie's tenant comes from the row of its user, whichever tab set it.
LEMMA BoardStepOK == TypeOK /\ BoardOK /\ [Next]_vars => BoardOK'
<1> SUFFICES ASSUME TypeOK, BoardOK, [Next]_vars PROVE BoardOK'
  OBVIOUS
<1> USE BrowserAssumption, UserAssumption, EmailAssumption, TenantAssumption DEF TypeOK, BoardOK
<1>0. RowsStay
  BY RowsStayStep
<1>1. ASSUME NEW t \in Tabs, LoginPage(t) PROVE BoardOK'
  <2>1. ResolvedOK'
    BY <1>1 DEF LoginPage, locals, ResolvedOK
  <2>2. RowsOK'
    BY <1>1 DEF LoginPage, tables, RowsOK, HomeOf, Exists
  <2>3. JarsOK'
    BY <1>1, <1>0, JarsStay DEF LoginPage
  <2>4. ServedOK'
    BY <1>1, HomeStays, <1>0
       DEF LoginPage, LoginShell, LoginFormPartial, Shows, locals, ServedOK, RequestTypes, ScreenTypes
  <2>5. QED
    BY <2>1, <2>2, <2>3, <2>4
<1>2. ASSUME NEW t \in Tabs, NEW e \in Emails, SendOTP(t, e) PROVE BoardOK'
  <2>1. ResolvedOK'
    BY <1>2 DEF SendOTP, ResolveTenantByEmail, ResolveByDomain, Goto, locals, ResolvedOK, RequestTypes
  <2>2. RowsOK'
    BY <1>2 DEF SendOTP, tables, RowsOK, HomeOf, Exists
  <2>3. JarsOK'
    BY <1>2, <1>0, JarsStay DEF SendOTP
  <2>4. ServedOK'
    BY <1>2, HomeStays, <1>0
       DEF SendOTP, OTPErrorPartial, OTPBody, Shows, Goto, screen, locals, ServedOK, RequestTypes, ScreenTypes
  <2>5. QED
    BY <2>1, <2>2, <2>3, <2>4
<1>3. ASSUME NEW t \in Tabs, FindUser(t) PROVE BoardOK'
  <2>1. ResolvedOK'
    BY <1>3 DEF FindUser, Goto, ResolvedOK, RequestTypes
  <2>2. RowsOK'
    BY <1>3 DEF FindUser, tables, RowsOK, HomeOf, Exists
  <2>3. JarsOK'
    BY <1>3, <1>0, JarsStay DEF FindUser
  <2>4. ServedOK'
    BY <1>3, HomeStays, <1>0 DEF FindUser, Goto, screen, ServedOK, RequestTypes, ScreenTypes
  <2>5. QED
    BY <2>1, <2>2, <2>3, <2>4
<1>4. ASSUME NEW t \in Tabs, Create(t) PROVE BoardOK'
  <2>1. ResolvedOK'
    BY <1>4 DEF Create, Answered, Goto, ResolvedOK, RequestTypes
  <2>2. RowsOK'
    <3>1. CASE UNCHANGED <<email, tenant>>
      BY <3>1 DEF RowsOK, HomeOf, Exists
    <3>2. ASSUME NEW u \in Users, Insert(u, atEmail[t], atTenant[t]) PROVE RowsOK'
      <4>1. atEmail[t] \in Emails /\ atTenant[t] \in {DomainTenant[atEmail[t]], Public}
        BY <1>4 DEF Create, ResolvedOK, RequestTypes
      <4>2. QED
        BY <3>2, <4>1 DEF Insert, RowsOK, HomeOf, Exists, TableTypes
    <3>3. QED
      BY <1>4, <3>1, <3>2 DEF Create, FindByEmailHash, tables
  <2>3. JarsOK'
    BY <1>4, <1>0, JarsStay DEF Create
  <2>4. ServedOK'
    BY <1>4, HomeStays, <1>0 DEF Create, Answered, Goto, screen, ServedOK, RequestTypes, ScreenTypes
  <2>5. QED
    BY <2>1, <2>2, <2>3, <2>4
<1>5. ASSUME NEW t \in Tabs, SendCode(t) PROVE BoardOK'
  <2>1. ResolvedOK'
    BY <1>5 DEF SendCode, Answered, Goto, ResolvedOK
  <2>2. RowsOK'
    BY <1>5 DEF SendCode, RowsOK, HomeOf, Exists
  <2>3. JarsOK'
    BY <1>5, <1>0, JarsStay DEF SendCode
  <2>4. ServedOK'
    BY <1>5, HomeStays, <1>0
       DEF SendCode, OTPFormPartial, OTPBody, LoginFormPartial, Shows, Answered, Goto, ServedOK, RequestTypes,
           ScreenTypes
  <2>5. QED
    BY <2>1, <2>2, <2>3, <2>4
<1>6. ASSUME NEW t \in Tabs, NEW u \in Users, VerifyOTP(t, u) PROVE BoardOK'
  <2>1. ResolvedOK'
    BY <1>6 DEF VerifyOTP, Goto, ResolvedOK, RequestTypes
  <2>2. RowsOK'
    BY <1>6 DEF VerifyOTP, RowsOK, HomeOf, Exists
  <2>3. JarsOK'
    BY <1>6, <1>0, JarsStay DEF VerifyOTP
  <2>4. ServedOK'
    BY <1>6, HomeStays, <1>0
       DEF VerifyOTP, OTPErrorPartial, OTPBody, Shows, Goto, screen, ServedOK, RequestTypes, ScreenTypes
  <2>5. QED
    BY <2>1, <2>2, <2>3, <2>4
<1>7. ASSUME NEW t \in Tabs, Verified(t) PROVE BoardOK'
  <2>1. ResolvedOK'
    BY <1>7 DEF Verified, Answered, Goto, locals, ResolvedOK, RequestTypes
  <2>2. RowsOK'
    BY <1>7 DEF Verified, tables, RowsOK, HomeOf, Exists
  <2>3. JarsOK'
    BY <1>7, <1>0, JarsStay DEF Verified, consentGranted
  <2>4. ServedOK'
    BY <1>7, HomeStays, <1>0
       DEF Verified, ConsentPartial, Shows, Answered, Goto, screen, locals, ServedOK, RequestTypes, ScreenTypes
  <2>5. QED
    BY <2>1, <2>2, <2>3, <2>4
<1>8. ASSUME NEW t \in Tabs, ConsentPage(t) PROVE BoardOK'
  <2>1. ResolvedOK'
    BY <1>8 DEF ConsentPage, locals, ResolvedOK
  <2>2. RowsOK'
    BY <1>8 DEF ConsentPage, tables, RowsOK, HomeOf, Exists
  <2>3. JarsOK'
    BY <1>8, <1>0, JarsStay DEF ConsentPage
  <2>4. ServedOK'
    BY <1>8, HomeStays, <1>0
       DEF ConsentPage, ConsentPartial, Shows, locals, ServedOK, RequestTypes, ScreenTypes
  <2>5. QED
    BY <2>1, <2>2, <2>3, <2>4
<1>9. ASSUME NEW t \in Tabs, NEW u \in Users, ConsentAccept(t, u) PROVE BoardOK'
  <2>1. ResolvedOK'
    BY <1>9, NoPasskeyByHash, HomeStays, <1>0 DEF ConsentAccept, locals, ResolvedOK
  <2>2. RowsOK'
    BY <1>9, NoPasskeyByHash, HomeStays, <1>0 DEF ConsentAccept, tables, RowsOK, Exists, TableTypes
  <2>3. JarsOK'
    BY <1>9, NoPasskeyByHash, HomeStays, <1>0 DEF ConsentAccept, jars, JarsOK, TableTypes
  <2>4. ServedOK'
    BY <1>9, NoPasskeyByHash, HomeStays, <1>0
       DEF ConsentAccept, RegisterPartial, Shows, locals, ServedOK, RequestTypes, ScreenTypes
  <2>5. QED
    BY <2>1, <2>2, <2>3, <2>4
<1>10. ASSUME NEW t \in Tabs, NEW u \in Users, Skip(t, u) PROVE BoardOK'
  <2>1. ResolvedOK'
    BY <1>10 DEF Skip, Goto, locals, ResolvedOK, RequestTypes
  <2>2. RowsOK'
    BY <1>10 DEF Skip, tables, RowsOK, HomeOf, Exists
  <2>3. JarsOK'
    <3>1. Exists(u) => HomeOf(u, Public)
      BY DEF HomeOf
    <3>2. CASE UNCHANGED jars
      BY <1>10, <1>0, <3>2, JarsStay DEF Skip
    <3>3. CASE Exists(u) /\ SetCookies(t, u, Public)
      BY <1>10, <1>0, <3>1, <3>3, JarsSet DEF Skip
    <3>4. QED
      BY <1>10, <3>2, <3>3 DEF Skip, IssueCookies, ContextTenant
  <2>4. ServedOK'
    BY <1>10, HomeStays, <1>0
       DEF Skip, LoginFormPartial, Shows, Goto, screen, locals, ServedOK, RequestTypes, ScreenTypes
  <2>5. QED
    BY <2>1, <2>2, <2>3, <2>4
<1>11. ASSUME NEW t \in Tabs, NEW u \in Users, Register(t, u) PROVE BoardOK'
  <2>1. ResolvedOK'
    BY <1>11 DEF Register, Goto, locals, ResolvedOK, RequestTypes
  <2>2. RowsOK'
    BY <1>11 DEF Register, tables, RowsOK, HomeOf, Exists
  <2>3. JarsOK'
    <3>1. Exists(u) => HomeOf(u, Public)
      BY DEF HomeOf
    <3>2. CASE UNCHANGED jars
      BY <1>11, <1>0, <3>2, HomeStays DEF Register, jars, JarsOK, TableTypes
    <3>3. CASE SetCookies(t, u, Public)
      BY <1>11, <1>0, <3>1, <3>3, JarsSet DEF Register
    <3>4. QED
      BY <1>11, <3>2, <3>3 DEF Register, IssueCookies, ContextTenant
  <2>4. ServedOK'
    BY <1>11, HomeStays, <1>0 DEF Register, Goto, screen, locals, ServedOK, RequestTypes, ScreenTypes
  <2>5. QED
    BY <2>1, <2>2, <2>3, <2>4
<1>12. ASSUME NEW t \in Tabs, NEW u \in Users, PasskeyLogin(t, u) PROVE BoardOK'
  <2>1. ResolvedOK'
    BY <1>12 DEF PasskeyLogin, Goto, locals, ResolvedOK
  <2>2. RowsOK'
    BY <1>12 DEF PasskeyLogin, tables, RowsOK, HomeOf, Exists
  <2>3. JarsOK'
    <3>1. HomeOf(u, Public)
      BY <1>12 DEF PasskeyLogin, Jar, JarsOK, HomeOf
    <3>2. QED
      BY <1>12, <1>0, <3>1, JarsSet DEF PasskeyLogin, ContextTenant
  <2>4. ServedOK'
    BY <1>12, HomeStays, <1>0
       DEF PasskeyLogin, Goto, screen, locals, ServedOK, RequestTypes, ScreenTypes
  <2>5. QED
    BY <2>1, <2>2, <2>3, <2>4
<1>13. ASSUME NEW t \in Tabs, NEW e \in Emails, OAuthCallback(t, e) PROVE BoardOK'
  <2>1. ResolvedOK'
    BY <1>13 DEF OAuthCallback, Goto, locals, ResolvedOK
  <2>2. RowsOK'
    BY <1>13 DEF OAuthCallback, tables, RowsOK, HomeOf, Exists
  <2>3. JarsOK'
    <3>1. PICK id \in Tenants : SetCookies(t, NoUser, id)
      BY <1>13 DEF OAuthCallback
    <3>2. QED
      BY <1>13, <1>0, <3>1, JarsSet DEF OAuthCallback
  <2>4. ServedOK'
    BY <1>13, HomeStays, <1>0
       DEF OAuthCallback, Goto, screen, locals, ServedOK, RequestTypes, ScreenTypes
  <2>5. QED
    BY <2>1, <2>2, <2>3, <2>4
<1>14. ASSUME NEW t \in Tabs, StartRefresh(t) PROVE BoardOK'
  <2>1. ResolvedOK'
    BY <1>14 DEF StartRefresh, Goto, ResolvedOK
  <2>2. RowsOK'
    BY <1>14 DEF StartRefresh, tables, RowsOK, HomeOf, Exists
  <2>3. JarsOK'
    BY <1>14, <1>0, JarsStay DEF StartRefresh
  <2>4. ServedOK'
    BY <1>14, HomeStays, <1>0 DEF StartRefresh, Goto, screen, ServedOK, RequestTypes, ScreenTypes
  <2>5. QED
    BY <2>1, <2>2, <2>3, <2>4
<1>15. ASSUME NEW t \in Tabs, Refreshed(t) PROVE BoardOK'
  <2>1. ResolvedOK'
    BY <1>15 DEF Refreshed, Answered, Goto, ResolvedOK
  <2>2. RowsOK'
    BY <1>15 DEF Refreshed, tables, RowsOK, HomeOf, Exists
  <2>3. JarsOK'
    <3>1. CASE UNCHANGED jars
      BY <1>15, <1>0, <3>1, JarsStay DEF Refreshed
    <3>2. CASE Exists(atUser[t]) /\ SetCookies(t, atUser[t], tenant[atUser[t]])
      <4>1. atUser[t] \in Users /\ tenant[atUser[t]] \in Tenants
        BY <3>2 DEF Exists, TableTypes
      <4>2. HomeOf(atUser[t], tenant[atUser[t]])
        BY <3>2, <4>1 DEF RowsOK
      <4>3. QED
        BY <1>15, <1>0, <3>2, <4>1, <4>2, JarsSet DEF Refreshed
    <3>3. QED
      BY <1>15, <3>1, <3>2 DEF Refreshed
  <2>4. ServedOK'
    BY <1>15, HomeStays, <1>0 DEF Refreshed, Answered, Goto, screen, ServedOK, RequestTypes, ScreenTypes
  <2>5. QED
    BY <2>1, <2>2, <2>3, <2>4
<1>16. ASSUME NEW t \in Tabs, OpenDashboard(t) PROVE BoardOK'
  <2>1. ResolvedOK'
    BY <1>16 DEF OpenDashboard, Goto, locals, ResolvedOK
  <2>2. RowsOK'
    BY <1>16 DEF OpenDashboard, tables, RowsOK, HomeOf, Exists
  <2>3. JarsOK'
    BY <1>16, <1>0, JarsStay DEF OpenDashboard
  <2>4. ServedOK'
    BY <1>16, HomeStays, <1>0
       DEF OpenDashboard, Goto, screen, locals, ServedOK, RequestTypes, ScreenTypes
  <2>5. QED
    BY <2>1, <2>2, <2>3, <2>4
<1>17. ASSUME NEW t \in Tabs, Guard(t) PROVE BoardOK'
  <2>1. ResolvedOK'
    BY <1>17 DEF Guard, Answered, Goto, ResolvedOK, RequestTypes
  <2>2. RowsOK'
    BY <1>17 DEF Guard, tables, RowsOK, HomeOf, Exists
  <2>3. JarsOK'
    BY <1>17, <1>0, JarsStay DEF Guard
  <2>4. ServedOK'
    <3>1. CASE LoginShell(t) /\ Answered(t)
      BY <1>0, <3>1, HomeStays
         DEF LoginShell, LoginFormPartial, Shows, Answered, Goto, ServedOK, RequestTypes, ScreenTypes
    <3>2. CASE ~(LoginShell(t) /\ Answered(t))
      <4>1. /\ Jar(t) \in Browsers
            /\ jarUser[Jar(t)] \in Users => HomeOf(jarUser[Jar(t)], jarTenant[Jar(t)])
            /\ jarTenant[Jar(t)] \in Tenants
        BY DEF Jar, JarsOK, TableTypes
      <4>2. /\ atUser' = [atUser EXCEPT ![t] = jarUser[Jar(t)]]
            /\ atTenant' = [atTenant EXCEPT ![t] = jarTenant[Jar(t)]]
            /\ pc' = [pc EXCEPT ![t] = "serve"] /\ UNCHANGED screen
        BY <1>17, <3>2 DEF Guard, Goto
      <4>3. QED
        BY <1>0, <4>1, <4>2, HomeStays DEF screen, ServedOK, RequestTypes, ScreenTypes
    <3>3. QED
      BY <3>1, <3>2
  <2>5. QED
    BY <2>1, <2>2, <2>3, <2>4
<1>18. ASSUME NEW t \in Tabs, Dashboard(t) PROVE BoardOK'
  <2>1. ResolvedOK'
    BY <1>18 DEF Dashboard, Answered, Goto, ResolvedOK
  <2>2. RowsOK'
    BY <1>18 DEF Dashboard, tables, RowsOK, HomeOf, Exists
  <2>3. JarsOK'
    BY <1>18, <1>0, JarsStay DEF Dashboard
  <2>4. ServedOK'
    <3>1. PICK id \in Tenants : id \in {atTenant[t], Public} /\ DashboardShell(t, atUser[t], id)
      BY <1>18 DEF Dashboard, getDashboardData, RequestTypes
    <3>2. atUser[t] \in Users => HomeOf(atUser[t], id)
      BY <1>18, <3>1 DEF Dashboard, ServedOK, HomeOf
    <3>3. QED
      BY <1>18, <1>0, <3>1, <3>2, HomeStays
         DEF Dashboard, DashboardShell, Answered, Goto, ServedOK, RequestTypes, ScreenTypes
  <2>5. QED
    BY <2>1, <2>2, <2>3, <2>4
<1>19. ASSUME NEW t \in Tabs, Logout(t) PROVE BoardOK'
  <2>1. ResolvedOK'
    BY <1>19 DEF Logout, locals, ResolvedOK
  <2>2. RowsOK'
    BY <1>19 DEF Logout, tables, RowsOK, HomeOf, Exists
  <2>3. JarsOK'
    BY <1>19, HomeStays, <1>0 DEF Logout, ClearCookies, DropAccess, JarsOK, TableTypes
  <2>4. ServedOK'
    BY <1>19, HomeStays, <1>0
       DEF Logout, LoginShell, LoginFormPartial, Shows, locals, ServedOK, RequestTypes, ScreenTypes
  <2>5. QED
    BY <2>1, <2>2, <2>3, <2>4
<1>20. ASSUME NEW u \in Users, CodeDies(u) PROVE BoardOK'
  <2>1. ResolvedOK'
    BY <1>20 DEF CodeDies, locals, ResolvedOK
  <2>2. RowsOK'
    BY <1>20 DEF CodeDies, RowsOK, HomeOf, Exists
  <2>3. JarsOK'
    BY <1>20, <1>0, JarsStay DEF CodeDies
  <2>4. ServedOK'
    BY <1>20, HomeStays, <1>0 DEF CodeDies, screen, locals, ServedOK, RequestTypes, ScreenTypes
  <2>5. QED
    BY <2>1, <2>2, <2>3, <2>4
<1>21. ASSUME NEW b \in Browsers, AccessLapses(b) PROVE BoardOK'
  <2>1. ResolvedOK'
    BY <1>21 DEF AccessLapses, locals, ResolvedOK
  <2>2. RowsOK'
    BY <1>21 DEF AccessLapses, tables, RowsOK, HomeOf, Exists
  <2>3. JarsOK'
    BY <1>21, HomeStays, <1>0 DEF AccessLapses, DropAccess, JarsOK, TableTypes
  <2>4. ServedOK'
    BY <1>21, HomeStays, <1>0 DEF AccessLapses, screen, locals, ServedOK, RequestTypes, ScreenTypes
  <2>5. QED
    BY <2>1, <2>2, <2>3, <2>4
<1>22. CASE UNCHANGED vars
  BY <1>22, HomeStays
     DEF vars, tables, jars, screen, locals, ResolvedOK, RequestTypes, RowsOK, HomeOf, Exists, TableTypes,
         JarsOK, ServedOK, ScreenTypes
<1>23. QED
  BY <1>1, <1>2, <1>3, <1>4, <1>5, <1>6, <1>7, <1>8, <1>9, <1>10, <1>11, <1>12, <1>13, <1>14, <1>15,
     <1>16, <1>17, <1>18, <1>19, <1>20, <1>21, <1>22
     DEF Next, AuthStep, PasskeyStep, OAuthStep, DashboardStep

\* No dashboard shows the features of a tenant its user's address is not of.
THEOREM BoardsOfTheirTenant == Spec => []BoardOfTenant
<1>1. Init => BoardOK
  BY UserAssumption DEF Init, BoardOK, ResolvedOK, RowsOK, JarsOK, ServedOK, Exists
<1>2. BoardOK => BoardOfTenant
  BY DEF BoardOK, ServedOK, HomeOf, BoardOfTenant
<1>3. QED
  BY <1>1, <1>2, BoardStepOK, PTL, TypeCorrect DEF Spec
=============================================================================
