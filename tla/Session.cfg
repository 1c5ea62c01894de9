CONSTANTS
    Callers = {"socket", "app"}
    Socket = "socket"
    Registered <- RegisteredNames
    Importable = {"mock", "model"}
    Faulty = {"bad"}
    Mock = "mock"
    Configs <- SmallConfigs
    MaxBundles = 3
SPECIFICATION Spec
CONSTRAINT Followed
INVARIANTS UnloadedOnce SessionAgrees ReplacedReleased
CHECK_DEADLOCK FALSE
