CONSTANTS
    m1 = m1
    Modules = {m1}
    Links = {1, 2, 3}
    Cases <- AnyTwo
SPECIFICATION FairSpec
INVARIANTS
    TypeOK
    AppIsAuthenticated
    InputIsFreed
    LoginIsFreed
    SchemaFollows
PROPERTIES
    LoginComesBack
CHECK_DEADLOCK FALSE
