CONSTANTS
    john = john
    sarah = sarah
    mike = mike
    Users = {john, sarah, mike}
    PolicyUsers = {john, sarah, mike}
    PolicyAdmins = {john, mike}
    FirstUsers <- MCFirst
    Secrets = {s1}
    Strong = {s1}
    Callers = {c1}
    MaxRows = 3
SPECIFICATION Spec
INVARIANTS AdminRemains
