CONSTANTS
    Callers = {"socket", "app"}
    Socket = "socket"
    Registered <- RegisteredNames
    Importable = {"mock", "model"}
    Faulty = {"bad"}
    Mock = "mock"
    Configs <- LLMConfigs
    MaxBundles = 3
SPECIFICATION Spec
INVARIANTS LLMReleased
CHECK_DEADLOCK FALSE
