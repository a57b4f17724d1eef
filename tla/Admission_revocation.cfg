\* Logins and calls race with role changes, deactivation, expiry and restarts.
SPECIFICATION Spec
CONSTANTS
    analyst = analyst
    Users = {analyst}
    FirstRole <- MCFirstRole
    AccountRoles = {"gis_analyst", "auditor"}
    Routes = {"conflict_detection", "audit"}
    TokenLife = 2
    Requests = {r1, r2}
    MaxTokens = 1
    MaxTime = 3
SYMMETRY RequestSymmetry
INVARIANTS
    HandledWithAuthority
