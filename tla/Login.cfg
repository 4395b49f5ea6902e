SPECIFICATION Spec
CONSTANTS
    dana = dana
    stan = stan
    dmail = dmail
    dhost = dhost
    shost = shost
    Users = {dana, stan}
    Subjects = {dmail, dhost, shost}
    Aliases <- MCAliases
    Defaults <- MCDefaults
    Logins = {l1, l2}
    Threads = {t1, t2}
    Keys = {1, 2}
    TTL = 2
    MaxNow = 3
    MaxChanges = 2
    MaxFailures = 1
    MaxRestarts = 1
    None = None
SYMMETRY Symmetry
CHECK_DEADLOCK FALSE
INVARIANTS
    LoginIsSound
PROPERTIES
    AcceptedKeyFresh
    RowsMoveByAdmin
