SPECIFICATION MCSpec
CONSTANTS
    NULL = NULL
    c1 = c1
    c2 = c2
    h1 = h1
    h2 = h2
    ch = ch
    sn = sn
    u1 = u1
    u2 = u2
    u3 = u3
    Cases = {c1}
    Clients = {ch, sn}
    COMMUNITYHUB = ch
    CaseIds <- MCCaseIds
    ClientOf <- MCClientOf
    History <- MCHistory
    Users <- MCUsers
    Periods <- MCPeriods
    Analyses = {"S2"}
    Ratings = {"S3"}
    DELIVERY_MAX_AUTO_ATTEMPTS = 2
    MaxDay = 1
    MaxManual = 1
    MaxReports = 2
    MaxMessages = 1
INVARIANTS PortalIsSound ReportsAreVersioned ClientsStayHome
PROPERTIES RecordIsKept KeepsPromise
