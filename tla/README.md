# TLA+ models of mod_manager (mod_proxy_cluster)

This directory holds TLA+ models of the MCMP manager, mod_manager. Its C
source is embedded in `src/native/balancers/Makefile.in`, lines 33–4038; the
node row is declared in `src/native/include/node.h`. Line numbers below refer
to those two files. The modules are checked with TLC.

## 1. The system

Back-end servers (Tomcat, WildFly) send MCMP requests to httpd: CONFIG,
ENABLE-APP, DISABLE-APP, STOP-APP, REMOVE-APP (per context, or `*` for the
whole node), STATUS, PING, INFO, DUMP and VERSION. Many httpd threads, in many
processes, handle these requests in parallel. They all share one registry in
shared memory:

| Part | State | Code |
|---|---|---|
| node table | slots of `nodeinfo_t`: JVMRoute, Host/Port, Type, tuning, `remove`, `num_remove_check`, worker stats | node.h 33–83; node.c (not in this repository) |
| host table | alias rows (node id, vhost id, alias) | host.c (not in this repository) |
| context table | context rows (node id, vhost id, path, status) | context.c (not in this repository) |
| balancer, domain, session-id tables | balancer parameters, domain of a route, sticky sessions | not read back by the processors modelled |
| version counter | `inc_version_node` / `get_version_node` | 239–258 |
| node mutex `node-shm` | `loc_lock_nodes` / `loc_unlock_nodes` | 300–308 |

Each command processor takes the node mutex, reads and changes the tables,
increments the version counter, and releases the mutex. The proxy side,
mod_proxy_cluster, is not in this repository. It works as follows:
- It keeps a worker table indexed by node id. `proxy_node_getid` and
  `proxy_node_get_free_id` (977–1001) query it during CONFIG.
- Periodically it compares the version with the one its workers reflect
  (`loc_worker_nodes_need_update`, 268–287), rebuilds its workers, and records
  the new version (`loc_worker_nodes_are_updated`, 292–298).
- It frees the slots of removed nodes once they have no aliases or contexts
  left, after `num_remove_check` checks.

### Inventory

- **MCMP parser**: `process_buff`, `decodeenc`, `mod_manager_hex2c`,
  `check_method`, `manager_trans` (733–765, 2472–2636). This is a pure
  function from the request body to a token vector. Its hard part is that
  `decodeenc` returns at the first empty token (2530), so later tokens are
  neither decoded nor checked for `<>"'` CR LF.
- **CONFIG** (`process_config`, 1253–1555):
  - It parses the fields, then takes the lock and upserts the balancer.
  - A node with the same JVMRoute but another endpoint or tuning is
    tombstoned, cascade-deleted and reported as MEM.
  - An existing node that is the same worker under another route gives
    MNODEET.
  - It chooses a slot: first the proxy's worker index, then
    `find_node_byhostport`, then a free id.
  - It inserts the node and re-enables the reused worker. On failure it
    unlocks twice.
  - It bumps the version and inserts the Alias/Context groups. These inserts
    can fail halfway.
- **\*-APP** (`process_appl_cmd` 2016–2266, `process_node_cmd` 1954–2011):
  - It reads the node. A missing or removed node makes REMOVE succeed and the
    other commands fail.
  - It bumps the version.
  - Node scope: every context of the node's vhosts gets the new status, or,
    for REMOVE, the contexts and aliases are deleted and the node is marked
    removed while keeping its JVMRoute.
  - Context scope: it finds the vhost of the first alias, or creates a vhost
    with id max+1. It then updates the contexts. REMOVE deletes the vhost's
    aliases when the vhost has no context left.
- **STATUS** (`process_status`, 2312–2361): it reads the node under the mutex,
  then releases the mutex and probes `isnode_up(node->mess.id, Load)`.
- **PING** (`process_ping`, 2392–2462): a JVMRoute sets `mess.id = 0`
  (2411), so `read_node` reads slot 0 by id, not by JVMRoute. The node there
  is probed after the mutex is released, with Load -2 (2437–2457). Without a
  JVMRoute, it only asks the proxy
  whether a host is up (`ishost_up`) and reads no table.
- **Reports**: DUMP, INFO, VERSION, ERROR and the HTML status page
  (`manager_info`). They only read the tables.
- **Status-page commands** (`manager_info` 3150–3188): with `Range=NODE` or
  the default range, the page calls the *-APP processors above. With
  `Range=DOMAIN` it calls `process_domain` (2968–3010). That function reads
  the used ids and then each node's Domain and JVMRoute without the mutex.
  For every node of the domain, it calls the node-scope processor by
  JVMRoute, and that processor takes the mutex itself.
- **Directives and hooks**: these set the table sizes and flags, create the
  shared memory, and reset `tableversion` in `manager_child_init`.

**Hazards** are listed in PROJECT.json at the line where each one bites. The
main ones:
- the second unlock on CONFIG's failure path;
- STATUS using a slot id after releasing the mutex;
- PING with a JVMRoute reading slot 0 whatever the JVMRoute (2411);
- `find_node_byhostport` returning a live node;
- vhost ids becoming sparse;
- Alias/Context inserts failing halfway;
- the 64-bit version truncated to `unsigned`;
- `process_domain`'s lock-free read of Domain and JVMRoute;
- the `decodeenc` early return.

## 2. Modules

### Manager.tla: the command processors on the shared registry

**State.** Each variable corresponds to code as follows:

| Variable | Code |
|---|---|
| `node` | the node table; a slot holds a `NodeRec` (node.h 33–83) or `FreeSlot`, created empty by `create_mem_node` (`NoNodes`) |
| `host`, `context` | the host and context tables, as sets of rows |
| `version` | the 64-bit version counter |
| `worker` | the proxy's worker table |
| `tableversion` | `mconf->tableversion` |
| `permits` | the node mutex, as a counting semaphore |
| `pc`, `req`, `probe`, `reply` | per thread: where it is, the parsed request, the node id STATUS or PING read, and the error string (or NULL) the processor returned to `manager_handler` |
| `domcmd` | per thread: the domain, the verb and the ids still to visit of a running `process_domain` |

**Data abstraction.** Requests are records over small sets: a route, a
host:port, a scheme, and a tuning (reversed, smax and ttl together). CONFIG
carries a sequence of Alias/Context groups and a Domain (`Domains`); a
CONFIG that only changes the Domain updates the node in place, because
`is_same_node` does not compare it. Names are model values or short
strings. Error strings are their catalogue names (`MNODERM`, `MCONTUI`, …).
`Slots`, `UsedSlots`, `ReadNode`, `FindNodeByHostPort`, `InsertNodeSlot` and
`RemoveNode` are the node.h primitives.

**Actions.** Each action is one outcome of a handler, taken whole with
everything it calls:

| Action | Code |
|---|---|
| `Lock` | `manager_handler` dispatches a request; the processor takes the mutex |
| `ConfigRouteConflict` | 1368–1385 |
| `ConfigSameWorker` | 1386–1391 |
| `ConfigWorkerTaken` | 1404–1427 |
| `ConfigInsertFail` + `ConfigSecondUnlock` | 1474–1486 |
| `ConfigInsert` | 1488–1555 |
| `ApplNoNode` | 2081–2102 |
| `ApplNodeCmd` | 1954–2011 + 2102–2111; `RemoveAppNode` marks the node removed, and `insert_update_node` updates the row in place, found by JVMRoute (`id` is an output, node.h:102) |
| `ApplContextCmd` | 2102–2266 |
| `StatusRead` + `StatusProbe` | 2339–2361: `read_node` by JVMRoute (`ReadNode`), then `isnode_up` |
| `PingRead` + `StatusProbe` | 2411, 2437–2457: `read_node_by_id` semantics on slot 0 (`ReadNodeById(PingId)`), then `isnode_up(id, -2)` |
| `DomainStart` | 2968–2979: `get_ids_used_node` without the mutex |
| `DomainSkip` / `DomainSelect` | 2987–3006: `get_node` (`OfDomain`); the Domain compared; the JVMRoute copied into a node-scope request |
| `DomainLock` | 2082: the node-scope processor takes the mutex; `ApplNoNode` or `ApplNodeCmd` follows, and `Finish` returns to the loop |
| `DomainDone` | 3007–3009: the last command's error string is returned |
| `Respond` | 3434–3447: `process_error` (500) or OK |

The steps after the mutex is released are separate actions, because other
threads interleave with them. `Reap` and `SyncWorkers` model the proxy's
reaper and its periodic worker refresh. They come from the specification,
because that code is not in this repository. `SyncWorkers` uses
`NeedUpdate`, which truncates the version to a `VersionWidth`-bit unsigned
(`Last`), as `unsigned last = get_version_node()` does at line 272.
Both reach the tables through node.h's `node_storage_method` provider:
`ProxyLocked` is its `lock_nodes`/`unlock_nodes` pair around the step, and
`WorkerNodesAreUpdated` is `worker_nodes_are_updated`, which records the
version in the process's `tableversion`.

`UnlockOutcomes` chooses among outcomes the code leaves open: what
unlocking an unheld mutex does.

`DomainStatuses` lists the verbs the status page may apply to a domain.
`{}` turns domain commands off.

### Registry.tla: what the registry promises

This module is an atomic abstract specification written from §3, §4.2, §4.3
and §8. A route is registered live at one endpoint that no other route
holds. It is dropped when it moves (MNODERM), marked not live by
REMOVE-APP \*, and freed by the proxy. `Touch` is a change to aliases or
contexts. Every action but `Free` increments the version.

`Manager` implements it through the mapping `RegOf`: a route's entry is the
node `read_node` finds for it. Tombstones, workers, the mutex and the
threads are hidden, and the version maps to `version`. The property is
`RefinesRegistry == Abstract!Spec`.

### McmpParser.tla: the MCMP body parser

Characters are byte codes. The code is modelled as RECURSIVE operators:
- `Split` is `process_buff`'s tokenizing: every `&` and `=` ends a token.
- `HexDigit` and `Hex2c` are `mod_manager_hex2c`.
- `DecodeTok` is `decodeenc`'s in-place loop over one token.
- `Decodeenc` returns at the first empty token.
- `ProcessBuff` combines them.

The reference decoder (`RefDecode`, `RefParse`) is written from §4.1 with a
lookup table of hex digits instead of arithmetic. `Encode` is a sender's
percent-encoding. One `Parse` step parses one body chosen in `Init`. The
body is either any body of up to `MaxBody` bytes over `Chars`, or the
encoding of a token sequence from `Plains`.

`MCManager.tla` and `MCMcmpParser.tla` give the sequence-valued constants,
the character set and the symmetry set.

## 3. Runs

| Run | cfg | Expect | What it shows |
|---|---|---|---|
| registry | MCManager.cfg | pass | `TypeOK`, `RouteUnique`, `RowsOwned`, `VersionCoversChanges` hold over about 1 586 000 distinct states (about 2 min 50 s). Domain REMOVE-APP commands of the status page and PING are included. |
| proxy_view | MCManager_proxy_view.cfg | pass | `RemovedEventuallyFreed` and `WorkersCatchUp` hold under the fairness below, and `RefinesRegistry` holds: about 141 000 distinct states, about 2 min 50 s. |
| parser | MCMcmpParser.cfg | pass | `TypeOK`, `ParseMatchesReference` and `RoundTrip` hold over the 11 263 bodies. |
| double_unlock | MCManager_double_unlock.cfg | violation | Unlocking an unheld mutex increments it (sysvsem and posixsem do, and the `Mutex` directive selects them). Then CONFIG's insert failure (1478, 1483) lets two threads into the tables. |
| live_overwrite | MCManager_live_overwrite.cfg | violation | CONFIG r1@h1, then CONFIG r2@h1 with other tuning before the proxy built a worker. `find_node_byhostport` returns the live r1, and the insert overwrites it (1454). |
| vhost_gap | MCManager_vhost_gap.cfg | violation | ENABLE-APP with a new alias (vhost 2), then REMOVE-APP of vhost 1's context, leaves vhost ids {2}, against §8. |
| status_stale | MCManager_status_stale.cfg | violation | STATUS r1 reads slot 0. CONFIGs of other threads tombstone slot 0 and reuse it for r2. STATUS then probes r2's worker: `StatusProbesItsNode`. |
| ping_slot0 | MCManager_ping_slot0.cfg | violation | CONFIG of r1 takes slot 0. PING with JVMRoute r2, which is not registered, reads slot 0 by id and probes r1's worker instead of answering MNODERD (7 states): `PingProbesItsNode`, against spec §4.5. |
| config_partial | MCManager_config_partial.cfg | violation | A CONFIG and an ENABLE-APP of a second path fill the two context rows. A second node's CONFIG inserts its alias, then fails on its context (MCONTUI, 1537) and leaves the alias: `ErrorsLeaveNoRows`. |
| alias_list | MCManager_alias_list.cfg | violation | ENABLE-APP with aliases `a1,a2` inserts both, then `read_host` with the whole list fails (MHOSTRD, 2170) and leaves them: `ErrorsLeaveNoRows`. |
| domain_race | MCManager_domain_race.cfg | violation | A domain STOP-APP on d1 reads r1 (Domain d1) and waits for the mutex. Meanwhile a CONFIG of r1 with Domain d2 updates it in place. The command then stops r1, which is in d2: `DomainCmdInDomain`. |
| empty_token | MCMcmpParser_empty_token.cfg | violation | The body `&<` is accepted. `decodeenc` stops at the empty first token, so the `<` is never checked: `ForbiddenAlwaysRejected`. |

**Bounds.**
Every cfg respects the table sizes `manager_init` enforces (631–640): it
raises Maxhost to Maxnode and Maxcontext to Maxhost, and the module
`ASSUME`s the same.
- *registry and the Manager violation runs:*
  - 2 threads;
  - 2 routes and 3 host:ports for a 2-slot node table, so the table fills up
    and slots are reused;
  - 2 tunings, so that `is_same_node` and the proxy's worker name disagree;
  - one alias group per CONFIG;
  - 2 host and 2 context rows;
  - versions up to 4;
  - `VersionWidth` 3 (8 > 4 + 2, so no truncation);
  - `RemoveCheckMax` 1;
  - one domain; registry lets the status page send domain REMOVE-APP, and
    the violation runs send no domain command, except domain_race, which has
    two domains, one tuning and no alias groups.

  With these bounds, every action and every outcome of every handler happens.
  Symmetry over threads, routes, host:ports, tunings and domains is sound, because
  the model only compares them for equality.
- *proxy_view* runs without symmetry, because liveness checking under
  symmetry is unsound. It uses 2 host:ports, one tuning, and one slot and
  one row of each kind, the smallest sizes `manager_init` allows. Versions
  go up to 3. The two routes still move, are tombstoned, and reuse the slot. One tuning is needed for the refinement: with
  two tunings, the live overwrite of live_overwrite breaks the abstract
  rule that an endpoint has one route.
- *parser* uses the ten characters `% & = 2 3 6 C c a <` and bodies of up
  to 4 bytes. That is enough for `%3C`, `%3c`, `%26`, a literal `<`, a `%`
  not followed by two hex digits, and an empty token followed by a
  forbidden byte.

**Properties.**
- `RouteUnique`: §3/§8 JVMRoute uniqueness.
- `RowsOwned`: every alias and context belongs to a live node.
- `VersionCoversChanges`: any change of the live nodes, aliases or contexts
  increments the version.
- `ErrorsLeaveNoRows` (§7): a processor that returns an error other than
  MNODERM leaves the alias and context tables unchanged.
- `RemovedEventuallyFreed`: a node marked removed is eventually freed or
  reused.
- `WorkersCatchUp`: eventually, the workers always reflect the last version.
- `RefinesRegistry`: see above.
- `StatusProbesItsNode`: STATUS probes the worker of the node whose JVMRoute
  it was sent.
- `PingProbesItsNode` (§4.5): PING with a JVMRoute probes the worker of the
  node with that JVMRoute.
- `DomainCmdInDomain` (§4.4, §5): while a domain command holds the mutex,
  the live node it names is in the domain.
- `ParseMatchesReference`: for bodies without an empty token, the code
  accepts exactly what the reference accepts, with the same tokens.
- `RoundTrip`: §8's decode-round-trip, for sender tokens that are not
  empty.
- `ForbiddenAlwaysRejected`: §4.1's rejection rule, for every body.

**Mutants.** Each property of a passing run has a mutant, a plausible bug
that breaks it:

| Mutant | Property it breaks |
|---|---|
| `insert_update_hosts` without its capacity check | `TypeOK` (Manager) |
| CONFIG without the `find_node_byhostport` fallback | `RouteUnique` |
| a route conflict without `loc_remove_host_context` | `RowsOwned` |
| `process_node_cmd` without the version bump | `VersionCoversChanges` |
| REMOVE-APP \* without `remove_host` | `RemovedEventuallyFreed` |
| `loc_worker_nodes_need_update` returning the old version | `WorkersCatchUp` |
| `is_same_worker_existing` skipping nodes marked removed | `RefinesRegistry` |
| `decodeenc` checking only the first digit after `%` | `TypeOK` (McmpParser) |
| `hex2c` converting lowercase digits as uppercase | `ParseMatchesReference` |
| `decodeenc` advancing one character after `%HH` | `RoundTrip` |

### Fairness

The proxy_view run assumes fairness only for steps the code must take:
- **Weak fairness of `Handle(p)`.** These are every step of a request after
  its processor took the mutex. A processor never waits on its sender, so a
  request that started runs to completion.
- **Strong fairness of `Reap(s)` and `SyncWorkers`.** The proxy's
  maintenance task runs them periodically. Each waits for the node mutex,
  which is free infinitely often but not continuously.
- **Strong fairness of `DomainLock(p)`.** A domain command waiting for the
  mutex between two nodes gets it, as the reaper does. No passing run with
  a liveness property sends domain commands, so this does not weaken
  anything checked.
- **No fairness for `Lock` or `DomainStart`.** Senders need not send
  anything.

## 4. Not modelled

- **Balancer, domain and session-id tables.** No modelled decision depends
  on them. A node's Domain field is modelled; the domain table is not.
- **Torn reads in `process_domain`.** Its unlocked `get_node` can race with
  a CONFIG's copy of a row. The model reads a whole row from before or
  after the write, not a mix of the two.
- **DUMP, INFO, VERSION, ERROR, the HTML output of the status page, and
  PING without a JVMRoute.** These only read the tables, or no table, and
  change no shared state. No property could observe them.
- **The real width of the version.** 2^32 changes are out of TLC's reach.
  The truncation is modelled at a configurable width (`VersionWidth`).
  With `Procs = {t1}`, `VersionWidth = 2` and `MaxVersion = 4`,
  proxy_view's `WorkersCatchUp` fails: after the fourth change, `unsigned
  last` is 0, which means "no update". No run is kept for that case,
  because with 32 bits it takes 2^32 changes.
- **`node.c`, `host.c`, `context.c`.** They are not in this repository.
  Their primitives are modelled from node.h and the specification (§4.2).
- **`check_method` and `manager_trans`.** They only choose the handler, and
  are abstracted into the request kinds.
- **Partial orderings within one process.** The interleaving unit is a
  thread's step between mutex operations. Processes and threads are not
  distinguished, because the mutex is global.
