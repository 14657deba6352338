\* Two threads, two JVMRoutes, three endpoints for a two-slot node table
\* (so the table can fill up), two tunings (so that is_same_node and the
\* proxy's worker name disagree), room for one alias group, and versions up
\* to 4: enough for CONFIG, an alias insert, a REMOVE and a reuse.
CONSTANTS
    Procs = {t1, t2}
    Routes = {r1, r2}
    REMOVED = REMOVED
    HostPorts = {h1, h2, h3}
    Schemes = {ajp}
    Tunes = {u1, u2}
    Aliases = {"a1", "a2"}
    Paths = {"p1"}
    MaxNode = 2
    MaxHost = 2
    MaxContext = 2
    MaxVersion = 4
    RemoveCheckMax = 1
    VersionWidth = 3
    ConfigGroups <- MCConfigGroups
    AliasLists <- MCAliasLists
    PathLists <- MCPathLists
    UnlockOutcomes = {"noop"}
    Domains = {d1}
    DomainStatuses = {}
SYMMETRY MCSymmetry
SPECIFICATION Spec
PROPERTY NoLiveOverwrite
