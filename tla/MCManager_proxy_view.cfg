\* Two threads, two JVMRoutes, two endpoints and one tuning for a one-slot
\* node table, with one alias and one context row (manager_init never makes
\* Maxhost smaller than Maxnode, nor Maxcontext smaller than Maxhost);
\* versions up to 3 (CONFIG, a REMOVE-APP * or a route move, and a reuse of
\* the slot by the other route).  No symmetry: the temporal properties are
\* checked on the full state graph.
CONSTANTS
    Procs = {t1, t2}
    Routes = {r1, r2}
    REMOVED = REMOVED
    HostPorts = {h1, h2}
    Schemes = {ajp}
    Tunes = {u1}
    Aliases = {"a1", "a2"}
    Paths = {"p1"}
    MaxNode = 1
    MaxHost = 1
    MaxContext = 1
    MaxVersion = 3
    RemoveCheckMax = 1
    VersionWidth = 3
    ConfigGroups <- MCConfigGroups
    AliasLists <- MCAliasListsOne
    PathLists <- MCPathLists
    UnlockOutcomes = {"noop"}
    Domains = {d1}
    DomainStatuses = {}
SPECIFICATION Spec
PROPERTY RemovedEventuallyFreed
PROPERTY WorkersCatchUp
PROPERTY RefinesRegistry
