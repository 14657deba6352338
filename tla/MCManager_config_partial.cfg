\* Two context rows: a CONFIG and an ENABLE-APP of a second context fill
\* the context table, so that a second node's CONFIG inserts its alias and
\* then fails on its context (MCONTUI).
CONSTANTS
    Procs = {t1, t2}
    Routes = {r1, r2}
    REMOVED = REMOVED
    HostPorts = {h1, h2, h3}
    Schemes = {ajp}
    Tunes = {u1, u2}
    Aliases = {"a1", "a2"}
    Paths = {"p1", "p2"}
    MaxNode = 2
    MaxHost = 2
    MaxContext = 2
    MaxVersion = 4
    RemoveCheckMax = 1
    VersionWidth = 3
    ConfigGroups <- MCConfigGroups
    AliasLists <- MCAliasLists
    PathLists <- MCPathListsTwo
    UnlockOutcomes = {"noop"}
    Domains = {d1}
    DomainStatuses = {}
SYMMETRY MCSymmetry
SPECIFICATION Spec
PROPERTY ErrorsLeaveNoRows
