\* Two LB groups and one tuning: a CONFIG that only changes a node's Domain
\* updates it in place (is_same_node does not compare Domain), so a node can
\* move to the other domain while the status page's domain command is
\* between its unlocked read and its locked node-scope command.
CONSTANTS
    Procs = {t1, t2}
    Routes = {r1, r2}
    REMOVED = REMOVED
    HostPorts = {h1, h2}
    Schemes = {ajp}
    Tunes = {u1}
    Aliases = {"a1", "a2"}
    Paths = {"p1"}
    MaxNode = 2
    MaxHost = 2
    MaxContext = 2
    MaxVersion = 4
    RemoveCheckMax = 1
    VersionWidth = 3
    ConfigGroups <- MCNoGroups
    AliasLists <- MCAliasListsOne
    PathLists <- MCPathLists
    UnlockOutcomes = {"noop"}
    Domains = {d1, d2}
    DomainStatuses = {"STOPPED"}
SYMMETRY MCSymmetry
SPECIFICATION Spec
INVARIANT DomainCmdInDomain
