SPECIFICATION Spec
CONSTANTS
    Groups = {g}
    Names = {p, q}
    JobNames = {j1, j2}
    User = user
    LDAPGroups = {a, b}
    Permissions = {10, 20, 30}
    MaxRules = 2
    MaxChanges = 1
SYMMETRY Symmetry
INVARIANT TypeOK
INVARIANT AccessJustified
INVARIANT ListJustified
INVARIANT WholeProjects
