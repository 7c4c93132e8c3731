CONSTANTS
    t1 = t1
    t2 = t2
    b1 = b1
    e1 = e1
    e2 = e2
    airline = airline
    Public = Public
    Tabs = {t1, t2}
    Browsers = {b1}
    BrowserOf <- OneBrowser
    Emails = {e1, e2}
    NoEmail = NoEmail
    Users = {u1, u2}
    NoUser = NoUser
    Tenants = {airline, Public}
    DomainTenant <- Domains
    TenantRows = {airline}
    MaxFaults = 1
SPECIFICATION Spec
PROPERTY ConsentFirst
INVARIANTS SessionInTenant AccountInTenant TryAgain
CHECK_DEADLOCK FALSE
