CONSTANTS
    People <- MCPeople
    NameOf <- MCNameOf
    MailNameOf <- MCMailNameOf
    PSCNameOf <- MCPSCNameOf
    Holders = {"p1"}
    Logins <- MCLogins
    Callers <- MCCallers
    Configs <- MCConfigs
    MaxExpiries = 1
    MaxOutages = 1
    Spaces <- MCSpaces
    QuotaJobs = {"j1"}
    SpaceOf <- MCSpaceOf
    Sizes = {0, 1}
    QuotaWorkers = {"w1", "w2"}
    MaxChanges = 3
    MaxLosses = 1
    Main = "main"
    Others = {"c1", "c2"}
    MaxOdd = 1
    Options = {"num_cpus", "gpu_enabled"}
    MaxValue = 2
    Declarations <- MCDeclarations
    Mapped = {"num_cpus"}
    AuthKeys <- MCAuthKeys
    StorageKeys <- MCStorageKeys
    ResourceKeys <- MCResourceKeys
    JobTypeKeys <- MCJobTypeKeys
    ConfigFiles <- MCConfigFiles
    Names = {"a", "b"}
    In <- MCIn
    Datasets = {"d", "e"}
    Known = {"d"}
    MaxLinks = 2
    Parts = {"startup"}
SPECIFICATION ServicesSpec
INVARIANTS ValidLaunches
\* The server is up, and no other request is made.
CHECK_DEADLOCK FALSE
