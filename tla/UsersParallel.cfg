CONSTANTS
    john = john
    sarah = sarah
    mike = mike
    Users = {john, sarah}
    PolicyUsers = {john, sarah}
    PolicyAdmins = {john, sarah}
    FirstUsers <- MCFirst
    Secrets = {s1}
    Strong = {s1}
    Callers = {c1, c2}
    MaxRows = 3
SPECIFICATION Spec
INVARIANTS TypeOK UniqueAccount SaltsMatch AccountHasRole
PROPERTIES RemovesOnlyTarget ActsAsStore
