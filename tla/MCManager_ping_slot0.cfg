\* One process: PING with a JVMRoute after CONFIGs of other JVMRoutes.
CONSTANTS
    Procs = {t1}
    Routes = {r1, r2}
    REMOVED = REMOVED
    HostPorts = {h1, h2}
    Schemes = {ajp}
    Tunes = {u1}
    Aliases = {"a1"}
    Paths = {"p1"}
    MaxNode = 2
    MaxHost = 2
    MaxContext = 2
    MaxVersion = 4
    RemoveCheckMax = 1
    VersionWidth = 3
    ConfigGroups <- MCNoGroups
    AliasLists <- MCAliasListsOne
    PathLists <- MCPathLists
    UnlockOutcomes = {"noop"}
    Domains = {d1}
    DomainStatuses = {}
SYMMETRY MCSymmetry
SPECIFICATION Spec
PROPERTY PingProbesItsNode
