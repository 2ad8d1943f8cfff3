CONSTANTS
    Account = {admin, a, b}
    NoAccount = NoAccount
    Admin = admin
    Person = {u}
    Nobody = Nobody
    Role = {sys, sales, manager}
    NoRole = NoRole
    System = sys
    Starter = sales
    Manager = manager
    Login = {l1}
    Password = Password
    NoLogin = NoLogin
    Client = {k1, k2, k3}
    MaxRequests = 2
    Grants <- Given
    Departed <- Left
    Configs <- Choices
SPECIFICATION Spec
CHECK_DEADLOCK FALSE
INVARIANTS
    OneSessionPerLogin
    OneAccountPerPerson
    RevocationComplete
PROPERTIES
    VisitSettles
