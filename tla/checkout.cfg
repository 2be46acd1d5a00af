\* One document, a manager and a lawyer, two requests in flight, two uploads.
SPECIFICATION Spec
CONSTANTS
    m = m
    l = l
    s1 = s1
    s2 = s2
    f0 = f0
    f1 = f1
    f2 = f2
    Documents = {1}
    Users = {m, l}
    Managers = {m}
    Cases = {1}
    CaseOf <- OneCase
    Firms = {1}
    TimeoutOf <- AtZero
    Sessions = {s1, s2}
    Files = {f0, f1, f2}
    Original = f0
    None = None
    MaxAge = 1
SYMMETRY Interchangeable
INVARIANTS
    ChainLinear
    VersionsKept
    CurrentWhileAssigned
PROPERTY
    ImplementsHistory
