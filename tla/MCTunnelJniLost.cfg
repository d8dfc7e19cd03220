SPECIFICATION JniFairSpec
CONSTANTS
    c1 = c1
    c2 = c2
    Stoppers = {c1, c2}
    NoThread = NoThread
PROPERTIES
    QuitEndsMain
CHECK_DEADLOCK FALSE
