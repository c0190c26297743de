SPECIFICATION Spec
CONSTANTS
    Users = {ann, bob}
    Orgs = {o1, o2}
    Names = {n1, n2}
    Workers = {w1, w2}
    MaxJobs = 3
    None = None
SYMMETRY Alike
CHECK_DEADLOCK FALSE
INVARIANTS TypeOK SuccessStands OneOrganization OnboardingWhole
PROPERTIES MembershipsKept
