SPECIFICATION Spec
CONSTANTS
    u1 = u1
    u2 = u2
    n1 = n1
    n2 = n2
    n3 = n3
    r1 = r1
    svc = svc
    Users = {u1, u2}
    Names = {n1, n2, n3}
    Roles = {r1, svc}
    ServiceRoles = {svc}
    NoOne = NoOne
    Onboarding = Onboarding
    NoAccount = NoAccount
    RoleNameFor <- MCRoleNameFor
    Claims <- MCClaims
    Posts <- MCPosts
    Faults = FALSE
SYMMETRY Symmetry
INVARIANTS
    UnclaimedHasNoPassword
CHECK_DEADLOCK FALSE
