\* *-APP Alias lists of one or two aliases, room for all rows, and CONFIG
\* without groups, so that nothing but the alias list can make a request fail.
CONSTANTS
    Procs = {t1, t2}
    Routes = {r1, r2}
    REMOVED = REMOVED
    HostPorts = {h1, h2, h3}
    Schemes = {ajp}
    Tunes = {u1, u2}
    Aliases = {"a1", "a2"}
    Paths = {"p1"}
    MaxNode = 2
    MaxHost = 3
    MaxContext = 3
    MaxVersion = 4
    RemoveCheckMax = 1
    VersionWidth = 3
    ConfigGroups <- MCNoGroups
    AliasLists <- MCAliasListsWide
    PathLists <- MCPathLists
    UnlockOutcomes = {"noop"}
    Domains = {d1}
    DomainStatuses = {}
SYMMETRY MCSymmetry
SPECIFICATION Spec
PROPERTY ErrorsLeaveNoRows
