------------------------------ MODULE Manager ------------------------------
(***************************************************************************)
(* The MCMP command processors of mod_manager (mod_manager.c, embedded in  *)
(* src/native/balancers/Makefile.in) acting on the shared registry: the    *)
(* node, host (alias) and context tables and the version counter, all in   *)
(* shared memory and guarded by the "node-shm" global mutex.               *)
(*                                                                         *)
(* Each httpd thread in Procs handles one MCMP request at a time.  A       *)
(* request takes the node mutex (Lock), runs its transaction atomically    *)
(* (one action per outcome of the handler), and releases the mutex.  The   *)
(* steps a handler takes after releasing the mutex are actions of their    *)
(* own, because other threads interleave with them:                       *)
(*   - CONFIG's insert-failure path unlocks the mutex twice;               *)
(*   - STATUS reads the node under the mutex and probes it afterwards.     *)
(*                                                                         *)
(* The proxy side (mod_proxy_cluster, not in this repository) appears as   *)
(* the environment the handlers call: its worker table (proxy_node_getid,  *)
(* proxy_node_get_free_id, reenable_proxy_worker), the periodic worker     *)
(* refresh that follows the version counter, and the reaper that frees     *)
(* nodes marked removed.  The table primitives (node.c, host.c,            *)
(* context.c) are not in this repository either; they are modelled from    *)
(* their description in the specification.                                 *)
(***************************************************************************)
EXTENDS Integers, Sequences, FiniteSets, FiniteSetsExt

CONSTANTS
    Procs,          \* httpd threads handling MCMP requests
    Routes,         \* JVMRoute values sent by back-end nodes
    REMOVED,        \* the "REMOVED" route written into a tombstoned node
    HostPorts,      \* (Host, Port) of a node: the key of find_node_byhostport
    Schemes,        \* (balancer, Type): with Host/Port, the proxy worker name
    Tunes,          \* (reversed, smax, ttl): the rest of is_same_node
    Aliases,        \* virtual-host aliases
    Paths,          \* context paths
    MaxNode,        \* size of the node table (Maxnode)
    MaxHost,        \* size of the host table (Maxhost)
    MaxContext,     \* size of the context table (Maxcontext)
    MaxVersion,     \* bound on the version counter: no mutating request after it
    RemoveCheckMax, \* reaper: checks of a removed node before it is freed
    VersionWidth,   \* bits of the unsigned the version is truncated to (32)
    ConfigGroups,   \* the Alias/Context groups a CONFIG may carry
    AliasLists,     \* the Alias lists an *-APP request may carry
    PathLists,      \* the Context lists an *-APP request may carry
    UnlockOutcomes, \* what unlocking the unheld node mutex does: "noop" | "release"
    Domains,        \* LB groups (the Domain of a CONFIG)
    DomainStatuses  \* the verbs the status page may apply to a whole domain

ASSUME REMOVED \notin Routes
ASSUME UnlockOutcomes # {} /\ UnlockOutcomes \subseteq {"noop", "release"}
\* manager_init raises Maxhost to Maxnode and Maxcontext to Maxhost: the
\* tables never have other sizes
ASSUME MaxHost >= MaxNode /\ MaxContext >= MaxHost
ASSUME DomainStatuses \subseteq {"ENABLED", "DISABLED", "STOPPED", "REMOVE"}

\* get_max_size_node: the ids of the table's slots
Slots == 0 .. (MaxNode - 1)
NONE == -1                                  \* "no id" in the C code
Vhosts == 1 .. (MaxVersion + 1)            \* every vhost id is at most one more than a bump
CtxENABLED == "ENABLED"
CtxDISABLED == "DISABLED"
CtxSTOPPED == "STOPPED"
CtxREMOVE == "REMOVE"
AppStatus == {CtxENABLED, CtxDISABLED, CtxSTOPPED, CtxREMOVE}

(* A node row (nodemess_t of node.h); the fields the handlers compare.     *)
NodeRec == [route: Routes \cup {REMOVED}, hp: HostPorts, scheme: Schemes,
            tune: Tunes, domain: Domains, remove: BOOLEAN, rmcheck: 0 .. RemoveCheckMax]
FreeSlot == [free |-> TRUE]
\* create_mem_node: a table of MaxNode free slots
NoNodes == [s \in Slots |-> FreeSlot]
HostRec == [node: Slots, vhost: Vhosts, alias: Aliases]
ContextRec == [node: Slots, vhost: Vhosts, path: Paths,
               status: {CtxENABLED, CtxDISABLED, CtxSTOPPED}]
WorkerRec == [hp: HostPorts, scheme: Schemes, route: Routes \cup {REMOVED}]
NoWorker == [none |-> TRUE]

ConfigReqs == [cmd: {"CONFIG"}, route: Routes, hp: HostPorts, scheme: Schemes,
               tune: Tunes, domain: Domains, groups: ConfigGroups]
ApplReqs == [cmd: {"APP"}, route: Routes, status: AppStatus, global: {TRUE},
             aliases: {<<>>}, paths: {<<>>}]
            \cup
            [cmd: {"APP"}, route: Routes, status: AppStatus, global: {FALSE},
             aliases: AliasLists, paths: PathLists]
StatusReqs == [cmd: {"STATUS"}, route: Routes]
\* PING with a JVMRoute: read_node under the mutex, then isnode_up(id, -2)
PingReqs == [cmd: {"PING"}, route: Routes]
\* the commands that read a node under the mutex and probe it after
\* process_ping sets nodeinfo.mess.id = 0 with a JVMRoute: read_node reads by id
PingId == 0
ProbeCmds == {"STATUS", "PING"}
Requests == ConfigReqs \cup ApplReqs \cup StatusReqs \cup PingReqs
NoReq == [cmd |-> "none"]
\* the status page's Range=DOMAIN command: a verb for every node of a domain
DomainReqs == [domain: Domains, status: DomainStatuses]
\* the node-scope command process_domain builds for one node; the JVMRoute
\* is the one it read, REMOVED included
DomainApplReqs == [cmd: {"APP"}, route: Routes \cup {REMOVED}, status: AppStatus,
                   global: {TRUE}, aliases: {<<>>}, paths: {<<>>}]
NoDom == [none |-> TRUE]
\* what a processor returns: NULL, or the catalogued message it fails with
Replies == {"OK", "MNODERM", "MNODEET", "MNODEUI", "MHOSTUI", "MCONTUI",
            "MNODERD", "MHOSTRD"}

VARIABLES
    node,         \* the node table: slot -> row or FreeSlot
    host,         \* the host table: set of alias rows
    context,      \* the context table: set of context rows
    version,      \* the version_node_mem counter
    worker,       \* the proxy's worker table: index -> worker or NoWorker
    tableversion, \* mconf->tableversion: the version the workers reflect
    permits,      \* the node mutex: 1 = free, 0 = held (2 after a double unlock)
    pc,           \* where each thread is
    req,          \* the request each thread is processing
    probe,        \* STATUS: the node id read under the mutex
    reply,        \* what the processor returned, until manager_handler sends it
    domcmd        \* process_domain: its domain, verb and the ids still to visit

vars == <<node, host, context, version, worker, tableversion, permits, pc, req, probe, reply,
          domcmd>>

\* get_ids_used_node: the ids of the slots not free
UsedSlots == {s \in Slots : node[s] # FreeSlot}
Live(s) == s \in UsedSlots /\ ~node[s].remove

-----------------------------------------------------------------------------
(* Table primitives (node.c, host.c, context.c), from their description.   *)

\* read_node / find_node: the first used slot whose JVMRoute is r
ReadNode(r) ==
    LET f == {s \in UsedSlots : node[s].route = r}
    IN IF f = {} THEN NONE ELSE Min(f)

\* read_node_by_id: read_node with only mess.id set reads that slot, NULL
\* when it is not in use
ReadNodeById(id) == IF id \in UsedSlots THEN id ELSE NONE

\* find_node_byhostport: the first used slot with this Host and Port
FindNodeByHostPort(hp) ==
    LET f == {s \in UsedSlots : node[s].hp = hp}
    IN IF f = {} THEN NONE ELSE Min(f)

\* remove_node: the slot is freed
RemoveNode(id) == [node EXCEPT ![id] = FreeSlot]

\* insert_update_node: slot id in place, or a free slot when id is -1
InsertNodeSlot(id) ==
    IF id # NONE THEN id
    ELSE IF UsedSlots = Slots THEN NONE ELSE Min(Slots \ UsedSlots)

\* mutant: an alias is inserted whether or not the host table has room
RECURSIVE InsertUpdateHostsNoRoom(_, _, _, _)
InsertUpdateHostsNoRoom(as, n, v, H) ==
    IF as = <<>> THEN [ok |-> TRUE, tbl |-> H]
    ELSE InsertUpdateHostsNoRoom(Tail(as), n, v,
                                 H \cup {[node |-> n, vhost |-> v, alias |-> Head(as)]})

\* insert_update_host for each alias of a comma list; stops at the first failure
RECURSIVE InsertUpdateHosts(_, _, _, _)
InsertUpdateHosts(as, n, v, H) ==
    IF as = <<>> THEN [ok |-> TRUE, tbl |-> H]
    ELSE LET row == [node |-> n, vhost |-> v, alias |-> Head(as)]
         IN IF row \in H THEN InsertUpdateHosts(Tail(as), n, v, H)
            ELSE IF Cardinality(H) < MaxHost
                 THEN InsertUpdateHosts(Tail(as), n, v, H \cup {row})
                 ELSE [ok |-> FALSE, tbl |-> H]

\* insert_update_contexts: each path of the list is updated to status st,
\* inserted, or (st = REMOVE) removed; stops at the first failed insert
RECURSIVE InsertUpdateContexts(_, _, _, _, _)
InsertUpdateContexts(ps, n, v, st, C) ==
    IF ps = <<>> THEN [ok |-> TRUE, tbl |-> C]
    ELSE LET same == {c \in C : c.node = n /\ c.vhost = v /\ c.path = Head(ps)}
             row == [node |-> n, vhost |-> v, path |-> Head(ps), status |-> st]
         IN IF st = CtxREMOVE
            THEN InsertUpdateContexts(Tail(ps), n, v, st, C \ same)
            ELSE IF same # {} \/ Cardinality(C) < MaxContext
                 THEN InsertUpdateContexts(Tail(ps), n, v, st, (C \ same) \cup {row})
                 ELSE [ok |-> FALSE, tbl |-> C]

-----------------------------------------------------------------------------
(* The proxy's worker table (mod_proxy_cluster), from its description.     *)

\* proxy_node_getid: the index of the worker named scheme://host:port
ProxyNodeGetId(m) ==
    LET f == {s \in Slots : worker[s] # NoWorker /\ worker[s].hp = m.hp
                                                 /\ worker[s].scheme = m.scheme}
    IN IF f = {} THEN NONE ELSE Min(f)

\* proxy_node_get_free_id: an index no worker and no node uses
ProxyNodeGetFreeId ==
    LET f == {s \in Slots \ UsedSlots : worker[s] = NoWorker}
    IN IF f = {} THEN NONE ELSE Min(f)

-----------------------------------------------------------------------------
(* Helpers of mod_manager.c                                                *)

\* is_same_node: the fields whose change needs a new proxy worker
IsSameNode(n, m) == n.hp = m.hp /\ n.scheme = m.scheme /\ n.tune = m.tune

\* mutant: a node marked removed by REMOVE-APP * is skipped like a tombstone
IsSameWorkerExistingLiveOnly(m) ==
    LET f == {s \in UsedSlots : IsSameNode(node[s], m)}
        o == node[Min(f)]
    IN /\ f # {}
       /\ o.route # m.route
       /\ ~o.remove

\* is_same_worker_existing: scans the used nodes in id order and answers on
\* the first one that is the same worker
IsSameWorkerExisting(m) ==
    LET f == {s \in UsedSlots : IsSameNode(node[s], m)}
        o == node[Min(f)]
    IN /\ f # {}
       /\ o.route # m.route
       /\ ~(o.remove /\ o.route = REMOVED)

\* mark_node_removed
MarkNodeRemoved(n) == [n EXCEPT !.route = REMOVED, !.remove = TRUE, !.rmcheck = 0]

\* the row process_config_node builds from the CONFIG fields
NewNode(m) == [route |-> m.route, hp |-> m.hp, scheme |-> m.scheme,
               tune |-> m.tune, domain |-> m.domain, remove |-> FALSE, rmcheck |-> 0]

\* loc_remove_host_context: every host and context row of node n
HostsWithout(n) == {h \in host : h.node # n}
ContextsWithout(n) == {c \in context : c.node # n}

\* the Alias/Context groups of a CONFIG, vhost ids from vid on; stops at
\* the first failed insert, leaving what it inserted before
RECURSIVE InstallGroups(_, _, _, _, _)
InstallGroups(gs, n, vid, H, C) ==
    IF gs = <<>> THEN [reply |-> "OK", host |-> H, context |-> C]
    ELSE LET h == InsertUpdateHosts(Head(gs).aliases, n, vid, H)
             c == InsertUpdateContexts(Head(gs).paths, n, vid, CtxSTOPPED, C)
         IN IF ~h.ok THEN [reply |-> "MHOSTUI", host |-> h.tbl, context |-> C]
            ELSE IF ~c.ok THEN [reply |-> "MCONTUI", host |-> h.tbl, context |-> c.tbl]
            ELSE InstallGroups(Tail(gs), n, vid + 1, h.tbl, c.tbl)

\* mutant: no find_node_byhostport fallback when the proxy has no worker
ConfigTargetNoHostPort(m) ==
    LET nd == ReadNode(m.route)
        wid == ProxyNodeGetId(m)
    IN IF wid # NONE
       THEN [id |-> wid, clean |-> nd # NONE /\ nd = wid,
             taken |-> /\ nd = NONE
                       /\ wid \in UsedSlots
                       /\ node[wid].route \notin {REMOVED, m.route}]
       ELSE [id |-> ProxyNodeGetFreeId, clean |-> TRUE, taken |-> FALSE]

\* the slot CONFIG writes the node into, and whether it keeps the worker's
\* statistics (clean = FALSE): proxy_node_getid, then find_node_byhostport,
\* then proxy_node_get_free_id; taken: the worker's slot holds another node
ConfigTarget(m) ==
    LET nd == ReadNode(m.route)
        wid == ProxyNodeGetId(m)
        bh == FindNodeByHostPort(m.hp)
    IN IF wid # NONE
       THEN [id |-> wid, clean |-> nd # NONE /\ nd = wid,
             taken |-> /\ nd = NONE
                       /\ wid \in UsedSlots
                       /\ node[wid].route \notin {REMOVED, m.route}]
       ELSE [id |-> IF bh # NONE THEN bh ELSE ProxyNodeGetFreeId,
             clean |-> TRUE, taken |-> FALSE]

\* get_version_node's 64-bit counter assigned to "unsigned last"
Last == version % (2 ^ VersionWidth)

\* mutant: the function returns the version the workers already reflect
NeedUpdateReturnsOld ==
    IF Last # tableversion THEN tableversion ELSE 0

\* loc_worker_nodes_need_update: the (truncated) version when it differs
\* from the one the workers reflect; 0 means "up to date"
NeedUpdate ==
    IF Last # tableversion THEN Last ELSE 0

-----------------------------------------------------------------------------
(* The node mutex and the threads.                                         *)

Unlock == permits' = permits + 1
\* the processor returns its error string, or NULL ("OK"), to manager_handler,
\* or to the loop of process_domain that called it
Finish(p, m) == /\ pc' = [pc EXCEPT ![p] = IF domcmd[p] = NoDom THEN "reply" ELSE "domain"]
                /\ reply' = [reply EXCEPT ![p] = m]
                /\ req' = [req EXCEPT ![p] = NoReq]

Init ==
    /\ node = NoNodes
    /\ host = {}
    /\ context = {}
    /\ version = 0
    /\ worker = [s \in Slots |-> NoWorker]
    /\ tableversion = 0
    /\ permits = 1
    /\ pc = [p \in Procs |-> "idle"]
    /\ req = [p \in Procs |-> NoReq]
    /\ probe = [p \in Procs |-> NONE]
    /\ reply = [p \in Procs |-> "none"]
    /\ domcmd = [p \in Procs |-> NoDom]

\* manager_handler dispatches a request; its processor takes the node mutex
Lock(p) ==
    /\ pc[p] = "idle"
    /\ permits > 0
    /\ \E r \in Requests :
          /\ r.cmd \notin ProbeCmds => version < MaxVersion
          /\ req' = [req EXCEPT ![p] = r]
    /\ permits' = permits - 1
    /\ pc' = [pc EXCEPT ![p] = "cs"]
    /\ UNCHANGED <<node, host, context, version, worker, tableversion, probe, reply, domcmd>>

-----------------------------------------------------------------------------
(* process_config                                                          *)

InConfig(p) == pc[p] = "cs" /\ req[p].cmd = "CONFIG"

\* mutant: the node is tombstoned without loc_remove_host_context
ConfigRouteConflictNoCascade(p) ==
    LET m == req[p]
        nd == ReadNode(m.route)
    IN /\ InConfig(p)
       /\ nd # NONE
       /\ ~IsSameNode(node[nd], m)
       /\ node' = [node EXCEPT ![nd] = MarkNodeRemoved(@)]
       /\ version' = version + 1
       /\ Unlock /\ Finish(p, "MNODERM")
       /\ UNCHANGED <<host, context, worker, tableversion, probe, domcmd>>

\* a node with this JVMRoute exists with another worker: it is tombstoned,
\* its aliases and contexts removed, and CONFIG fails (MNODERM)
ConfigRouteConflict(p) ==
    LET m == req[p]
        nd == ReadNode(m.route)
    IN /\ InConfig(p)
       /\ nd # NONE
       /\ ~IsSameNode(node[nd], m)
       /\ node' = [node EXCEPT ![nd] = MarkNodeRemoved(@)]
       /\ host' = HostsWithout(nd)
       /\ context' = ContextsWithout(nd)
       /\ version' = version + 1
       /\ Unlock /\ Finish(p, "MNODERM")
       /\ UNCHANGED <<worker, tableversion, probe, domcmd>>

\* the first node with the same worker has another JVMRoute (MNODEET)
ConfigSameWorker(p) ==
    LET m == req[p]
        nd == ReadNode(m.route)
    IN /\ InConfig(p)
       /\ nd # NONE => IsSameNode(node[nd], m)
       /\ IsSameWorkerExisting(m)
       /\ Unlock /\ Finish(p, "MNODEET")
       /\ UNCHANGED <<node, host, context, version, worker, tableversion, probe, domcmd>>

ConfigAdmitted(p) ==
    LET m == req[p]
        nd == ReadNode(m.route)
    IN /\ InConfig(p)
       /\ nd # NONE => IsSameNode(node[nd], m)
       /\ ~IsSameWorkerExisting(m)

\* the proxy has a worker for this endpoint whose node has another JVMRoute
ConfigWorkerTaken(p) ==
    /\ ConfigAdmitted(p)
    /\ ConfigTarget(req[p]).taken
    /\ Unlock /\ Finish(p, "MNODEET")
    /\ UNCHANGED <<node, host, context, version, worker, tableversion, probe, domcmd>>

\* insert_update_node finds no slot: the mutex is released, and the
\* re-tombstoning of a reused slot (never needed: an insert into a known
\* slot does not fail) and a second unlock follow outside it
ConfigInsertFail(p) ==
    /\ ConfigAdmitted(p)
    /\ ~ConfigTarget(req[p]).taken
    /\ InsertNodeSlot(ConfigTarget(req[p]).id) = NONE
    /\ Unlock
    /\ pc' = [pc EXCEPT ![p] = "unlock2"]
    /\ UNCHANGED <<node, host, context, version, worker, tableversion, req, probe, reply, domcmd>>

\* the second loc_unlock_nodes of the failure path, on a mutex the thread
\* no longer holds: its effect depends on the mutex mechanism
ConfigSecondUnlock(p) ==
    /\ pc[p] = "unlock2"
    /\ \E o \in UnlockOutcomes :
          permits' = IF o = "release" THEN permits + 1 ELSE permits
    /\ Finish(p, "MNODEUI")
    /\ UNCHANGED <<node, host, context, version, worker, tableversion, probe, domcmd>>

\* the node is written, the reused worker re-enabled, the version bumped,
\* and the Alias/Context groups inserted in state STOPPED
ConfigInsert(p) ==
    LET m == req[p]
        t == ConfigTarget(m)
        id == InsertNodeSlot(t.id)
        g == InstallGroups(m.groups, id, 1, host, context)
    IN /\ ConfigAdmitted(p)
       /\ ~t.taken
       /\ id # NONE
       /\ node' = [node EXCEPT ![id] = NewNode(m)]
       /\ worker' = IF t.clean THEN worker
                    ELSE [worker EXCEPT ![id] = [hp |-> m.hp, scheme |-> m.scheme,
                                                 route |-> m.route]]
       /\ version' = version + 1
       /\ host' = g.host
       /\ context' = g.context
       /\ Unlock /\ Finish(p, g.reply)
       /\ UNCHANGED <<tableversion, probe, domcmd>>

-----------------------------------------------------------------------------
(* process_appl_cmd and process_node_cmd: ENABLE-APP, DISABLE-APP,         *)
(* STOP-APP and REMOVE-APP, in context scope or node scope ("*")           *)

InAppl(p) == pc[p] = "cs" /\ req[p].cmd = "APP"

\* the node is unknown or marked removed: REMOVE-APP succeeds, the others
\* fail (MNODERD); nothing changes
ApplNoNode(p) ==
    LET nd == ReadNode(req[p].route)
    IN /\ InAppl(p)
       /\ nd # NONE => node[nd].remove
       /\ Unlock /\ Finish(p, IF req[p].status = CtxREMOVE THEN "OK" ELSE "MNODERD")
       /\ UNCHANGED <<node, host, context, version, worker, tableversion, probe, domcmd>>

\* REMOVE-APP *: node->mess.remove = 1 on the shared row, then
\* insert_update_node(node, &id, 0), which finds the row by its JVMRoute and
\* updates it in place (id is where it stores the slot, node.h)
RemoveAppNode(n) == [node EXCEPT ![n].remove = TRUE]

\* mutant: the node-scope command does not increment the version
ApplNodeCmdNoVersion(p) ==
    LET m == req[p]
        n == ReadNode(m.route)
        vh == {h.vhost : h \in {x \in host : x.node = n}}
        hit == {c \in context : c.node = n /\ c.vhost \in vh}
    IN /\ InAppl(p)
       /\ m.global
       /\ n # NONE /\ ~node[n].remove
       /\ context' = IF m.status = CtxREMOVE THEN context \ hit
                     ELSE (context \ hit) \cup {[c EXCEPT !.status = m.status] : c \in hit}
       /\ host' = IF m.status = CtxREMOVE THEN HostsWithout(n) ELSE host
       /\ node' = IF m.status = CtxREMOVE THEN RemoveAppNode(n) ELSE node
       /\ Unlock /\ Finish(p, "OK")
       /\ UNCHANGED <<version, worker, tableversion, probe, domcmd>>

\* mutant: REMOVE-APP * removes the contexts but not the aliases
ApplNodeCmdKeepsHosts(p) ==
    LET m == req[p]
        n == ReadNode(m.route)
        vh == {h.vhost : h \in {x \in host : x.node = n}}
        hit == {c \in context : c.node = n /\ c.vhost \in vh}
    IN /\ InAppl(p)
       /\ m.global
       /\ n # NONE /\ ~node[n].remove
       /\ version' = version + 1
       /\ context' = IF m.status = CtxREMOVE THEN context \ hit
                     ELSE (context \ hit) \cup {[c EXCEPT !.status = m.status] : c \in hit}
       /\ node' = IF m.status = CtxREMOVE THEN RemoveAppNode(n) ELSE node
       /\ Unlock /\ Finish(p, "OK")
       /\ UNCHANGED <<host, worker, tableversion, probe, domcmd>>

\* process_node_cmd: the contexts of every vhost the node has an alias in
\* take the new status or are removed; REMOVE-APP * also removes those
\* aliases and marks the node removed (its JVMRoute stays)
ApplNodeCmd(p) ==
    LET m == req[p]
        n == ReadNode(m.route)
        vh == {h.vhost : h \in {x \in host : x.node = n}}
        hit == {c \in context : c.node = n /\ c.vhost \in vh}
    IN /\ InAppl(p)
       /\ m.global
       /\ n # NONE /\ ~node[n].remove
       /\ version' = version + 1
       /\ context' = IF m.status = CtxREMOVE THEN context \ hit
                     ELSE (context \ hit) \cup {[c EXCEPT !.status = m.status] : c \in hit}
       /\ host' = IF m.status = CtxREMOVE THEN HostsWithout(n) ELSE host
       /\ node' = IF m.status = CtxREMOVE THEN RemoveAppNode(n) ELSE node
       /\ Unlock /\ Finish(p, "OK")
       /\ UNCHANGED <<worker, tableversion, probe, domcmd>>

\* read_host: the vhost of the first alias row of node n named a
ReadHost(n, a) ==
    LET f == {h.vhost : h \in {x \in host : x.node = n /\ x.alias = a}}
    IN IF f = {} THEN NONE ELSE Min(f)

\* the contexts of the Context list take the new status on vhost v (a
\* failed insert stops with MCONTUI); after REMOVE-APP the vhost's aliases
\* go when it has no context left
ApplyContexts(p, n, v, m, H) ==
    LET c == InsertUpdateContexts(m.paths, n, v, m.status, context)
        empty == ~\E x \in c.tbl : x.node = n /\ x.vhost = v
    IN /\ context' = c.tbl
       /\ host' = IF c.ok /\ m.status = CtxREMOVE /\ empty
                  THEN {h \in H : ~(h.node = n /\ h.vhost = v)}
                  ELSE H
       /\ Finish(p, IF c.ok THEN "OK" ELSE "MCONTUI")

\* context scope: the vhost is the one of the first alias; an unknown alias
\* gets a new vhost (one more than the node's largest), which is read back
\* by the whole Alias list
ApplContextCmd(p) ==
    LET m == req[p]
        n == ReadNode(m.route)
        hv == ReadHost(n, Head(m.aliases))
        vids == {h.vhost : h \in {x \in host : x.node = n}}
        vid == IF vids = {} THEN 1 ELSE Max(vids) + 1
        ins == InsertUpdateHosts(m.aliases, n, vid, host)
    IN /\ InAppl(p)
       /\ ~m.global
       /\ n # NONE /\ ~node[n].remove
       /\ version' = version + 1
       /\ \/ hv # NONE /\ ApplyContexts(p, n, hv, m, host)
          \/ /\ hv = NONE /\ m.status = CtxREMOVE
             /\ UNCHANGED <<host, context>> /\ Finish(p, "OK")
          \/ /\ hv = NONE /\ m.status # CtxREMOVE
             /\ \/ /\ ~ins.ok
                   /\ host' = ins.tbl /\ UNCHANGED context
                   /\ Finish(p, "MHOSTUI")
                \/ /\ ins.ok /\ Len(m.aliases) > 1
                   /\ host' = ins.tbl /\ UNCHANGED context
                   /\ Finish(p, "MHOSTRD")
                \/ /\ ins.ok /\ Len(m.aliases) = 1
                   /\ ApplyContexts(p, n, vid, m, ins.tbl)
       /\ Unlock
       /\ UNCHANGED <<node, worker, tableversion, probe, domcmd>>

-----------------------------------------------------------------------------
(* process_status, and process_ping with a JVMRoute                        *)

\* read_node under the mutex, which is then released; no node fails (MNODERD)
ProbeRead(p, nd) ==
    /\ Unlock
    /\ IF nd = NONE
       THEN Finish(p, "MNODERD") /\ UNCHANGED probe
       ELSE /\ probe' = [probe EXCEPT ![p] = nd]
            /\ pc' = [pc EXCEPT ![p] = "probe"]
            /\ UNCHANGED <<req, reply>>
    /\ UNCHANGED <<node, host, context, version, worker, tableversion, domcmd>>

\* process_status: id = -1, so read_node looks the node up by JVMRoute
StatusRead(p) ==
    /\ pc[p] = "cs" /\ req[p].cmd = "STATUS"
    /\ ProbeRead(p, ReadNode(req[p].route))

\* process_ping with a JVMRoute: id = 0, so read_node reads slot 0 whatever
\* the JVMRoute
PingRead(p) ==
    /\ pc[p] = "cs" /\ req[p].cmd = "PING"
    /\ ProbeRead(p, ReadNodeById(PingId))

\* isnode_up(node->mess.id, Load) (STATUS) or isnode_up(node->mess.id, -2)
\* (PING), after the mutex is released
StatusProbe(p) ==
    /\ pc[p] = "probe"
    /\ probe' = [probe EXCEPT ![p] = NONE]
    /\ Finish(p, "OK")
    /\ UNCHANGED <<node, host, context, version, worker, tableversion, permits, domcmd>>

-----------------------------------------------------------------------------
(* process_domain: the status page's Range=DOMAIN command.  The used ids   *)
(* and then each node's Domain and JVMRoute are read without the node      *)
(* mutex; each node-scope command takes the mutex itself, by JVMRoute.     *)

\* the status page dispatch (allow_cmd, no error yet): get_ids_used_node
\* into the id array, the loop's error string NULL
DomainStart(p) ==
    /\ pc[p] = "idle"
    /\ version < MaxVersion
    /\ \E r \in DomainReqs :
          domcmd' = [domcmd EXCEPT ![p] = [domain |-> r.domain, status |-> r.status,
                                            ids |-> UsedSlots]]
    /\ pc' = [pc EXCEPT ![p] = "domain"]
    /\ reply' = [reply EXCEPT ![p] = "OK"]
    /\ UNCHANGED <<node, host, context, version, worker, tableversion, permits, req, probe>>

\* get_node succeeds on id s (its slot is still used) and strcmp finds its
\* Domain equal to dm
OfDomain(s, dm) == s \in UsedSlots /\ node[s].domain = dm

\* the next id: get_node fails on a slot freed since, or its Domain differs
DomainSkip(p) ==
    LET d == domcmd[p]
        s == Min(d.ids)
    IN /\ pc[p] = "domain" /\ d.ids # {}
       /\ ~OfDomain(s, d.domain)
       /\ domcmd' = [domcmd EXCEPT ![p].ids = @ \ {s}]
       /\ UNCHANGED <<node, host, context, version, worker, tableversion, permits, pc,
                      req, probe, reply>>

\* the node is of the domain: its JVMRoute is copied into the request and
\* process_enable/disable/stop/remove is called in node scope
DomainSelect(p) ==
    LET d == domcmd[p]
        s == Min(d.ids)
    IN /\ pc[p] = "domain" /\ d.ids # {}
       /\ OfDomain(s, d.domain)
       /\ domcmd' = [domcmd EXCEPT ![p].ids = @ \ {s}]
       /\ req' = [req EXCEPT ![p] = [cmd |-> "APP", route |-> node[s].route,
                                     status |-> d.status, global |-> TRUE,
                                     aliases |-> <<>>, paths |-> <<>>]]
       /\ pc' = [pc EXCEPT ![p] = "domlock"]
       /\ UNCHANGED <<node, host, context, version, worker, tableversion, permits,
                      probe, reply>>

\* process_appl_cmd takes the node mutex; the command then runs as ApplNoNode
\* or ApplNodeCmd, and returns to the loop
DomainLock(p) ==
    /\ pc[p] = "domlock"
    /\ permits > 0
    /\ permits' = permits - 1
    /\ pc' = [pc EXCEPT ![p] = "cs"]
    /\ UNCHANGED <<node, host, context, version, worker, tableversion, req, probe, reply,
                   domcmd>>

\* every id visited: the error string of the last command is returned
DomainDone(p) ==
    /\ pc[p] = "domain" /\ domcmd[p].ids = {}
    /\ pc' = [pc EXCEPT ![p] = "reply"]
    /\ domcmd' = [domcmd EXCEPT ![p] = NoDom]
    /\ UNCHANGED <<node, host, context, version, worker, tableversion, permits, req,
                   probe, reply>>

-----------------------------------------------------------------------------
(* manager_handler: the reply                                              *)

\* an error string is sent with process_error (HTTP 500), NULL as 200 OK
Respond(p) ==
    /\ pc[p] = "reply"
    /\ pc' = [pc EXCEPT ![p] = "idle"]
    /\ reply' = [reply EXCEPT ![p] = "none"]
    /\ UNCHANGED <<node, host, context, version, worker, tableversion, permits, req, probe, domcmd>>

-----------------------------------------------------------------------------
(* The proxy side, from its description (mod_proxy_cluster).               *)

\* the node_storage_method's lock_nodes ... unlock_nodes around a step of
\* the proxy's maintenance task: the step waits for the mutex to be free and
\* leaves it free
ProxyLocked == permits > 0

\* the node_storage_method's worker_nodes_are_updated: the process records
\* the version its workers now reflect
WorkerNodesAreUpdated(last) == tableversion' = last

\* remove_removed_node, under the node mutex: a node marked removed is
\* checked RemoveCheckMax times, then freed once no alias or context
\* refers to it
Reap(s) ==
    /\ ProxyLocked
    /\ s \in UsedSlots /\ node[s].remove
    /\ \/ /\ node[s].rmcheck < RemoveCheckMax
          /\ node' = [node EXCEPT ![s].rmcheck = @ + 1]
       \/ /\ node[s].rmcheck = RemoveCheckMax
          /\ ~\E h \in host : h.node = s
          /\ ~\E c \in context : c.node = s
          /\ node' = RemoveNode(s)
    /\ UNCHANGED <<host, context, version, worker, tableversion, permits, pc, req, probe, reply, domcmd>>

\* the periodic refresh: when loc_worker_nodes_need_update reports a new
\* version, a worker is created at the index of every live node whose
\* worker name is not in use yet, and loc_worker_nodes_are_updated
\* records the version
SyncWorkers ==
    LET named(s) == \E t \in Slots : /\ worker[t] # NoWorker
                                      /\ worker[t].hp = node[s].hp
                                      /\ worker[t].scheme = node[s].scheme
    IN /\ ProxyLocked
       /\ NeedUpdate # 0
       /\ worker' = [s \in Slots |->
                       IF Live(s) /\ worker[s] = NoWorker /\ ~named(s)
                       THEN [hp |-> node[s].hp, scheme |-> node[s].scheme,
                             route |-> node[s].route]
                       ELSE worker[s]]
       /\ WorkerNodesAreUpdated(NeedUpdate)
       /\ UNCHANGED <<node, host, context, version, permits, pc, req, probe, reply, domcmd>>

-----------------------------------------------------------------------------
\* the steps of a request after its processor took the mutex
Handle(p) ==
    \/ ConfigRouteConflict(p) \/ ConfigSameWorker(p) \/ ConfigWorkerTaken(p)
    \/ ConfigInsertFail(p) \/ ConfigSecondUnlock(p) \/ ConfigInsert(p)
    \/ ApplNoNode(p) \/ ApplNodeCmd(p) \/ ApplContextCmd(p)
    \/ StatusRead(p) \/ PingRead(p) \/ StatusProbe(p)
    \/ DomainSkip(p) \/ DomainSelect(p) \/ DomainDone(p)
    \/ Respond(p)

Next ==
    \/ \E p \in Procs : Lock(p) \/ DomainStart(p) \/ DomainLock(p) \/ Handle(p)
    \/ \E s \in Slots : Reap(s)
    \/ SyncWorkers

\* A request, once its processor runs, runs to completion (nothing in it
\* waits on the sender): weak fairness.  The reaper and the worker refresh
\* are run by the proxy's periodic maintenance task; each waits for the
\* node mutex, which is free infinitely often: strong fairness.  No
\* fairness for Lock or DomainStart: senders need not send anything.  A
\* domain command that waits for the mutex between its nodes (DomainLock)
\* gets it as the reaper does: strong fairness.
Fairness ==
    /\ \A p \in Procs : WF_vars(Handle(p)) /\ SF_vars(DomainLock(p))
    /\ \A s \in Slots : SF_vars(Reap(s))
    /\ SF_vars(SyncWorkers)

Spec == Init /\ [][Next]_vars /\ Fairness

-----------------------------------------------------------------------------
(* Properties                                                              *)

TypeOK ==
    /\ node \in [Slots -> NodeRec \cup {FreeSlot}]
    /\ host \subseteq HostRec /\ Cardinality(host) <= MaxHost
    /\ context \subseteq ContextRec /\ Cardinality(context) <= MaxContext
    /\ version \in 0 .. (MaxVersion + Cardinality(Procs))
    /\ worker \in [Slots -> WorkerRec \cup {NoWorker}]
    /\ tableversion \in 0 .. (2 ^ VersionWidth - 1)
    /\ permits \in 0 .. 2
    /\ pc \in [Procs -> {"idle", "cs", "unlock2", "probe", "domain", "domlock", "reply"}]
    /\ req \in [Procs -> Requests \cup DomainApplReqs \cup {NoReq}]
    /\ probe \in [Procs -> Slots \cup {NONE}]
    /\ reply \in [Procs -> Replies \cup {"none"}]
    /\ domcmd \in [Procs -> [domain: Domains, status: DomainStatuses, ids: SUBSET Slots]
                             \cup {NoDom}]

\* JVMRoute uniqueness (find_node answers with the first match only): no
\* two nodes of the table share a JVMRoute, tombstones apart
RouteUnique ==
    \A s, t \in UsedSlots :
        s # t /\ node[s].route = node[t].route => node[s].route = REMOVED

\* Cascade: every alias and context row belongs to a live node (used and not
\* marked removed): tombstoning (mark_node_removed + loc_remove_host_context)
\* and REMOVE-APP * take the node's rows with it, so the reaper can free it
\* and a reused slot does not inherit its previous node's aliases/contexts
RowsOwned ==
    /\ \A h \in host : Live(h.node)
    /\ \A c \in context : Live(c.node)

\* what the proxy's routing depends on: the live nodes and the rows
RoutingView ==
    <<[s \in Slots |-> IF Live(s) THEN <<node[s].route, node[s].hp,
                                         node[s].scheme, node[s].tune>>
                       ELSE <<>>],
      host, context>>

\* Version monotonicity: a step that changes the live nodes, the aliases or
\* the contexts increments the version counter, so that every process
\* rebuilds its workers (loc_worker_nodes_need_update)
VersionCoversChanges ==
    [][RoutingView' # RoutingView => version' > version]_vars

\* the node mutex: at most one thread runs a transaction
MutualExclusion ==
    Cardinality({p \in Procs : pc[p] = "cs"}) <= 1

\* Vhost-id density: the vhost ids of a node's aliases are 1..k
VhostDense ==
    \A s \in Slots :
        LET v == {h.vhost : h \in {x \in host : x.node = s}}
        IN v = 1 .. Cardinality(v)

\* Errors are all-or-nothing (specification section 7: "no partial
\* mutations survive"): a processor that returns an error leaves the alias
\* and context tables as it found them.  MNODERM is excepted: its cascade
\* (tombstone, remove aliases and contexts) is what section 4.3 prescribes.
ErrorsLeaveNoRows ==
    [][\A p \in Procs :
          pc[p] # "reply" /\ pc'[p] = "reply" /\ reply'[p] \notin {"OK", "MNODERM"}
          => host' = host /\ context' = context]_vars

\* a live node keeps its JVMRoute until it is tombstoned or freed
NoLiveOverwrite ==
    [][\A s \in Slots :
          Live(s) /\ s \in UsedSlots' => node'[s].route \in {node[s].route, REMOVED}]_vars

\* STATUS probes (isnode_up tests, and sets the load of) the worker of the
\* node whose JVMRoute it was sent, never the worker of another node, even
\* though node->mess.id is used after the node mutex is released
StatusProbesItsNode ==
    [][\A p \in Procs :
          /\ pc[p] = "probe" /\ pc'[p] = "reply" /\ req[p].cmd = "STATUS"
          /\ probe[p] \in UsedSlots /\ node[probe[p]].route \in Routes
          => node[probe[p]].route = req[p].route]_vars

\* PING with a JVMRoute pings the node of that JVMRoute (spec 4.5, "ping
\* known node"): process_ping's isnode_up(node->mess.id, -2) must test the
\* worker of the node it was sent, not of whichever node holds slot 0
PingProbesItsNode ==
    [][\A p \in Procs :
          /\ pc[p] = "probe" /\ pc'[p] = "reply" /\ req[p].cmd = "PING"
          /\ probe[p] \in UsedSlots /\ node[probe[p]].route \in Routes
          => node[probe[p]].route = req[p].route]_vars

\* A node marked removed (REMOVE-APP *, or tombstoned by a CONFIG whose
\* route moved) is eventually freed by the proxy's reaper, or brought back
\* by a CONFIG that reuses its slot: process_node_cmd and
\* loc_remove_host_context must leave it no alias and no context, or the
\* slot is lost to the node table for good.
RemovedEventuallyFreed ==
    \A s \in Slots : (s \in UsedSlots /\ node[s].remove) ~> ~(s \in UsedSlots /\ node[s].remove)

\* Once requests stop, the proxy's workers reflect the last version:
\* loc_worker_nodes_need_update must keep reporting a change until
\* loc_worker_nodes_are_updated has recorded it.
WorkersCatchUp ==
    <>[](tableversion = Last)

\* Specification section 4.4 (Range=DOMAIN: "iterate every node whose LB
\* group matches and apply the verb to each in node scope") and section 5
\* (node-shm "required before reading a node by JVMRoute prior to
\* mutation"): while a domain command of process_domain holds the mutex,
\* the live node its JVMRoute names belongs to that domain.
DomainCmdInDomain ==
    \A p \in Procs :
        LET n == ReadNode(req[p].route)
        IN pc[p] = "cs" /\ domcmd[p] # NoDom /\ n # NONE /\ ~node[n].remove
           => node[n].domain = domcmd[p].domain

-----------------------------------------------------------------------------
(* Refinement of Registry: a route's entry is the node that read_node       *)
(* finds for it, its endpoint and whether it is still live; tombstones     *)
(* (JVMRoute REMOVED), the proxy's workers, the mutex and the threads are   *)
(* hidden.                                                                 *)

NoEntry == [absent |-> TRUE]

RegOf == [r \in Routes |->
            IF ReadNode(r) = NONE THEN NoEntry
            ELSE [hp |-> node[ReadNode(r)].hp, live |-> ~node[ReadNode(r)].remove]]

Abstract == INSTANCE Registry WITH reg <- RegOf, ver <- version, Absent <- NoEntry

\* With one scheme and one tuning, the command processors implement the
\* registry: is_same_worker_existing and the worker lookup of CONFIG keep
\* an endpoint to one route, a moved route is tombstoned before it is
\* registered again, and every change of a route bumps the version.
RefinesRegistry == Abstract!Spec

====
