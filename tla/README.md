# Verification of claude-gemini-bridge

TLA+ models of the bridge and of the Redis server it vendors, model-checked with
TLC and proved with TLAPS. The reference is the code: `src/src/` (TypeScript,
the bridge) and `src/redis-stable/src/` (C, Redis 8.0.3). `PROJECT.json` maps
every definition to the lines it models.

## The system

The bridge routes prompts to Claude, Gemini and other models. A deployment is a
set of Node.js processes ("nodes"). Each runs an HTTP and WebSocket server, an
orchestrator that calls the adapters, a learning module, and a *distributed
orchestrator* that shares a queue of tasks with the other nodes through Redis.
Redis runs commands one at a time in its main thread; around it are I/O threads,
a background thread and child processes, and beside it its replicas, Sentinel
and Redis Cluster.

| Part | Module | What is hard about it |
|---|---|---|
| Distributed orchestrator | `DistributedOrchestrator` | many awaits, no transaction spans them; crashes, restarts, TTLs, pub/sub |
| Retry manager | `RetryManager` | timeouts leave operations running; calls share a breaker |
| Provider adapter and circuit breaker | `ProviderAdapter` | late outcomes, a retry counter shared by concurrent calls |
| Task entity, ExecuteTask | `TaskLifecycle` | two executions of one task, retry and fallback |
| Learning module | `LearningModule` | the history is swapped across awaits, a save is interrupted |
| WebSocket bridge | `WebSocketBridge` | a client leaves during an await |
| Plugin system | `PluginManager` | operations interleave at the plugin's hooks |
| In-memory cache | `MemoryCache` | the timer of an overwritten entry, tags |
| Redis: MULTI and WATCH | `Transactions` | the many ways a watched key changes |
| Redis: blocking commands | `BlockedClients` | a key changes several times before anybody is served |
| Redis: Pub/Sub | `PubSub`, `MessageBus` | every subscription is stored twice; slots move away |
| Redis: client side caching | `Tracking` | what is sent at once, after the reply, or before sleeping |
| Redis: streams | `Streams` | replicas and rewrites see other commands than the client gave |
| Redis: hash table, keyspace | `Dict`, `KVStore` | cursors and iterators across incremental resizing |
| Redis: integer sets, sorted sets | `Intset`, `Skiplist` | in-place widening; spans of links |
| Redis: append only file | `AOF` | a crash between any two steps on disk |
| Redis: I/O threads | `IOThreads` | hand-over of clients between event loops |
| Redis: replication | `Replication` | promotions, partial resynchronization, restarts |
| Redis Sentinel | `Sentinel` | votes, epochs and configurations across restarts |
| Redis Cluster | `Cluster` | elections, claims of slots, configuration epochs |

`components` in `PROJECT.json` lists the parts that are not modelled, too.

## Modules

Each module describes one part by itself. What lies outside (the network, the
disk, a clock, a plugin) is a choice in its actions, and what may go wrong is
bounded by a constant: a count (`MaxWrites`), or a set of scenarios of which a
behaviour starts with one.

**DistributedOrchestrator.** Redis is `store` (task data), `queue`, `claim`,
`nodeKey`, `nodesActive`; `inbox` holds pub/sub messages on their way to a
subscriber. Of a node, `phase` says where its process is between `start` and
`shutdown`, and `currentLoad` and `maxConcurrency` are the fields of `nodeInfo`.
Node.js runs one callback at a time and lets others in at every `await`. Each
asynchronous activity of a node is a *fiber*: a pass of the task timer (`Jobs`),
of the health timer (`Monitors`), or the handling of a message (`Handlers`). An
action is one Redis command with the code that follows its reply up to the next
`await`. The helpers `updateNodeStatus`, `updateTaskStatus` and `requeueTask`
are actions of their own that return to their caller (`AfterHeartbeat`,
`AfterStatus`, `AfterRequeue`). A Lua script or a `MULTI` is one command.
Faults: a crash anywhere, a restart under the same id, a graceful shutdown, a
heartbeat so late that the node's key expires, a lost message, expiry of a claim
or of task data, a rejected command at any await (one that did not run), an
execution that throws, reuse of a task id, operator messages. Left out: the
content of the node keys, events, logs, the scores of the queue (a claim takes
any queued task, which allows every order scores could produce), the reading
operations. `processMessage` is its outcome.

**RetryManager.** `executeWithRetry` for calls that share a breaker key: the
progress of each call, the operations in flight (an attempt that timed out
leaves its operation there), the breaker and the clock. An operation settles at
any time, or never; `calculateNextDelay` is the set of values its jitter allows.

**ProviderAdapter.** `execute` of a provider adapter through the circuit
breaker, by concurrent calls; the retry counter is one field they share.

**TaskLifecycle.** The status machine of a task, moved by concurrent executions
of the use case with retry and fallback.

**LearningModule, WebSocketBridge, PluginManager, MemoryCache.** One action per
segment between two awaits (or hooks, or timers).

**Transactions.** Clients with MULTI, EXEC, DISCARD, WATCH, and every way a
watched key changes: writes, expiry, FLUSHDB, SWAPDB. Keys carry the logical
expiry the code tests in `isWatchedKeyExpired`.

**BlockedClients.** `blockForKeys`, `signalKeyAsReady`, `handleClientsBlockedOnKeys`
and the reprocessing of woken clients for list commands and a stream group;
a *unit* is a transaction or script that changes keys several times before
anybody is served.

**PubSub, MessageBus.** The two tables of each kind of subscription. `PubSub`
is shown to implement `MessageBus`, in which a client has a set of
subscriptions and a message reaches exactly those entitled to it.

**Tracking.** The default, BCAST, OPTIN and OPTOUT modes with the table of keys,
its limit, and when messages leave: at once, after the reply of the command, or
before the event loop sleeps.

**Streams.** Entries in nodes, trimming, deletion, a consumer group; beside it a
replica that gets what `streamPropagateXCLAIM` and friends send, and the stream
the AOF rewrite would recreate.

**Dict, KVStore, Intset, Skiplist.** The representations with the operations on
them, checked against the set, order or count they stand for.

**AOF.** The files and the manifest as they are in memory, in the page cache and
on disk; flush, fsync, background rewrite, loading, crash and power loss.

**IOThreads.** The queues between the main thread and the I/O threads, the
notifiers, and the flags that say who may touch a client.

**Replication.** Servers with their histories, backlogs and links: PSYNC, full
synchronization, chains, promotion, restart, WAIT, FAILOVER.

**Sentinel.** Sentinels that watch one master: subjective and objective failure,
votes, the failover state machine, hello messages, configuration on disk.

**Cluster.** Nodes with their views of roles, slots and epochs: failover votes,
slot claims, UPDATE packets, epoch collisions, takeover, restart.

### Instances

A run checks several modules: its MC module (`MCServices`, `MCRedisCommands`,
`MCRedisStorage`, `MCRedisHA`, `MCSettles`) has a variable `which`, chosen at the
start, that says which of them moves; the other variables stay at a fixed
initial value. A property of one module is stated for the behaviours that choose
it, or holds in the fixed value too. The modules do not interact in such a run;
nothing is concluded from one about another. `Services` puts six services side
by side, for `MCServices` to run and for `ServicesProofs` to reason about;
`RedisCommands` does the same with Pub/Sub and transactions, `RedisStorage` with
client side caching and integer sets, `RedisHA` with Sentinel and Cluster.

## Runs

| Run | Instance | Shows |
|---|---|---|
| `settles` | 2 nodes, 1 task; a crash, or three throws with two jobs per node | no task is lost or reopened, runs of a task do not overlap, every task settles |
| `cluster` | 2 nodes, 1 task; the members of `ClusterFaults` | loads count jobs, one execution per enqueue |
| `services` | 2 to 3 calls, executions, clients or plugins each | the breaker of the retry manager never opens, every call ends; retries are bounded; a success is final; feedback is kept; subscribers are connected; enabled plugins are loaded; invalidation removes all |
| `redis_commands` | 2 clients, 1 or 2 keys, 2 databases, 2 messages or writes; streams of up to 3 ids in nodes of 2 | WATCH catches every change, nobody waits for a key that could serve them, subscriptions agree and messages reach who is entitled to them, copies of a stream agree |
| `redis_storage` | 3 keys in tables of up to 8, 4 dicts, 7 integers of 3 widths, 3 elements on 3 levels; 12 fault scenarios of the AOF with 3 writes; 2 clients of which 1 tracks 2 keys; 2 clients, up to 2 threads | the structures hold what was put into them; caches of clients are coherent; restarts recover a prefix that contains what was claimed durable; clients are served and owned by one thread |
| `redis_ha` | 3 servers, backlog 1, 2 writes; 3 sentinels, quorum 2; 5 cluster nodes | equal offsets of a history mean equal data, replicas converge; one leader, one winner per epoch; one master per configuration epoch; WAIT and FAILOVER keep their word |
| `failover_retry` | 2 nodes, a crash and a throw | violated: a retry deletes the next run's claim, and a crash then loses the task |
| `restart` | 2 nodes, a crash and a restart | violated: a restart before the key expires leaves the task behind |
| `breaker_threshold` | threshold 5 | violated: five failures in a row leave the breaker closed |
| `task_retry` | 1 task | violated: the retry condition is inverted |
| `sentinel_leader` | 3 sentinels | violated: votes of a later epoch are counted for the earlier failover |
| `watch` | 2 clients | violated: a write stops at the first watcher whose entry is flagged expired |

A violated run states what a comment or document says; `findings` in
`PROJECT.json` quotes it and names the line where the code differs.

Two nodes are the fewest in which one outlives, suspects or overtakes another;
three sentinels, three voting masters the fewest with a majority that is not
everybody; two clients the fewest that disagree; a backlog of one entry makes
every partial resynchronization a boundary case. Tables go through growing,
shrinking and rehashing at these sizes. Symmetry is used in
`cluster`, `redis_commands`, `redis_ha` and `sentinel_leader`, where only
invariants and action properties are checked.

The passing properties hold under the faults their run allows and not more.
`NoTaskLost` and `EventuallySettled` hold for a crash alone and for throwing
executions alone; `failover_retry` and `restart` show the combinations.
`CompletedIsFinal` speaks of the time while no node is down: a node that crashes after it stored a
result and before it deleted its claim has its task run again. `OneRunAtATime`
holds as long as no live node is suspected.

### Fairness

Cluster: every command is answered, both timers keep firing while the node runs,
a message that is not lost is handled, every node is started once, and the key of
a dead node expires. Nothing makes a fault, a client or an operator act, and no
node is made to restart. `setInterval` and the reconnecting Redis client justify
the first three, Redis' TTL the last. Retry manager: the clock advances and due
timers fire; operations get no fairness. I/O threads: each event loop runs.

Deadlock is not checked where the system may stop: a bounded number of calls,
writes or faults is used up.

## Theorems

Proved for all values of the constants, from the named assumptions of the
modules (`ConstantsAssumption`, `RetryAssumption`, `EpochAssumption`,
`TrackingAssumption`, `IntsetAssumption`, `ClusterAssumption`) and, where a
theorem has one, its hypothesis. Each invariant below was first checked with TLC.

- `DistributedOrchestratorProofs!TypeCorrect`, `LoadAccounting`: by the
  inductive invariant `IInv == TypeOK /\ FiberOK /\ LoadCountsJobs`. `FiberOK`
  ties what an activity holds (task, data, operation) to where it is; without it
  the copy of a task that `requeueTask` writes back is not known to be below the
  retry limit, nor which activities count in the load. There is a lemma per
  group of actions, and one per way an action touches the load.
- `ClaimsBounded`: every claim takes a task out of the queue and every entry was
  counted, so the bound is inductive beside `IInv`.
- `SingleRun`, `NothingLost`, `ResultFinal`, for budgets without the faults of
  `Disturbances` (a crash, a shutdown, a stall of 60 s, an id submitted twice, a
  changed priority); every other fault may happen any number of times. `CalmInv`:
  nodes that have started keep their keys, so no failure is announced or handled
  (`NodesUp`), and a task is in the queue or with exactly one activity
  (`OnePlace`), which gives `SingleRun` although claims may expire.
  `SteadyInv` adds that this place agrees with the stored status
  (`StatusAgrees`). A rejected command ends the activity that held a task and
  leaves its status as it was, so `NothingLost` excludes that too. `ResultFinal`
  needs in addition that task data do not expire.
  With a crash the three stay with TLC (run `settles`).
- `RetryManagerProofs!TypeCorrect`, `SingleOperation`: by `TypeOK`,
  `now >= Epoch` and `OpsOK`, which says that a call that is not in an attempt
  has no operation in flight unless it has ended.
- `BreakerNeverOpens`, for thresholds of at least 2: an entry of the window is 0
  or 1 and the clock is past the monitoring period, so each update drops all
  earlier entries, the window has length one and at most one failure is counted.
- `PubSubProofs!TablesAlwaysAgree`, and `Refinement` from it: once the tables
  agree, the receivers `PUBLISH` finds in the server's table are those the
  clients' tables name, so each step of `PubSub` is a step or a stutter of
  `MessageBus`. `FiniteSubscriptions` is needed beside the types, since the
  flag is cleared when a count reaches zero.
- `RedisStorageProofs!Coherence`, `NobodyForgotten`: by `IInv`, which adds to
  `CacheCoherent` that whoever holds a copy is remembered (`HoldersRemembered`:
  in the table, matched by a prefix, or about to be told), that copies belong to
  tracking clients only (`CopiesFollowed`), and that keys wait for the end of a
  command only while one executes.
- `RedisStorageProofs!IntsetExact`, for any integers, any number of them and any
  ranges of the three widths that contain one another. `IntsetInv` says that
  there is an ascending array, as long as there are members, each value of which
  is whole in the cells of its position (`IsArray`); reading the cells is then
  reading that array. The loops are done by induction: each turn of the binary
  search leaves the value between its bounds and fewer positions
  (`HalveOk`, `BisectOk`), and the widening from the back, of which each turn
  writes behind all that is still to be read (`WidenOk`). A value that does not
  fit the old width is smaller or larger than all others, so the end at which
  `UpgradeAndAdd` puts it is where it belongs.
- `TransactionsProofs!ExecExact`: by `IInv`, which ties the flag of a client and
  the entries of the lists of watchers to what has changed. Its core is
  `NoticedBy`: a change has set the flag, or is an expiry that EXEC will still
  find; and the deletion of an expired key flags only those who saw the key
  before it expired. The second half is what makes the first inductive. On a
  replica, or after SWAPDB, only the other half of the claim holds (run `watch`
  shows why), and that is all the theorem says there. Commands are taken apart
  into the operations they call (`touchWatchedKey`, `dbGenericDelete`, `setKey`,
  the loop of `execCommand`), with a lemma for each. Lists and queues have any
  length, so the loops over them are done by induction.
- `SentinelProofs!VotesOnce`, `OneLeader`, from `Setting` (finitely many
  sentinels, no sentinel named like the absent one). `Ballots` says that the
  epoch of the last vote is on disk before the answer leaves and that every
  answer kept by anyone is a vote that was cast; `LeadersBacked`, that a leader
  who counts in the current epoch has a majority of them. Two majorities share
  a voter.
- `OneMaster`: by `JInv` beside these. Whoever chooses a slave was elected for
  its epoch and had not led that epoch before (`FailoversFresh`, for which the
  epoch must be on the leader's disk), and while one epoch has had elections
  only one slave is chosen (`OneChoice`).
- `ClusterProofs!ElectionSound`, `OneVote`, `OneWinner`, for any finite set of
  nodes and any shards. A vote that anybody may know of is on disk
  (`Persisted`), so a master votes once in an epoch, restarts included. A vote
  has one answer on its way at most (`Acknowledged`), and a candidate asks only
  in epochs later than all it asked in before (`Asked`), so what it counts are
  votes of the present election (`Counted`) and a winner has a majority of what
  it takes for the masters (`Elected`). `OneWinner` has two conditions, and the
  code needs both: an answer that is late for all of the retry time still counts
  (`punctual` says there was none), and since every node has its own view of who
  serves slots, more nodes may vote than a winner believes there are.
- `ServicesProofs`, one theorem for each of six modules:
  - `TaskSuccess`: an execution about to report success has completed the task.
  - `BridgeSubscribers`: the subscription follows the check of the connection.
  - `PluginEnabled`: as long as nothing raced, an uninstall is the only
    operation under way and the others found the plugin loaded.
  - `CacheInvalidated`: a key is in the set of each of its tags or a `set` under
    way puts it there (`TagsIndexed`), and what an invalidation owes is in the
    keys it has yet to delete (`OwedListed`), since entries are never reborn
    (`EntriesNumbered`).
  - `AdapterRetries`, when the threshold is at least 2 and every retry delay is
    shorter than the reset timeout (the defaults are 5, at most 8 s and 60 s):
    `CallsBounded` counts, in each state of the breaker, the failures a call can
    still add.
  - `LearningKeeps`, when fewer writes fail than backups are kept: what is not
    exposed is in every array that may again become the history (`HistoryInv`),
    and while saves do not overlap, the saved content is in the file or at most
    as many backups back as writes have failed since (`FileInv`).

Only model-checked, and why:

- Liveness (`EventuallySettled` and the other leads-to properties) needs
  fairness and `ENABLED`, which the prover does not handle.
- `BlockedClients`, `Dict`, `KVStore`, `Skiplist` and `Streams` compute with
  `RECURSIVE` operators, with which no theorem can be stated.
- `Cluster!Convergence` is about states in which no packet says anything new;
  that such states agree depends on the whole history of claims.
- `Replication`, `AOF` and `IOThreads`: not attempted; the invariants relate
  sequences that `SelectSeq` and concatenation build.

## Seen while modelling

Behaviour of the code the models show or had to follow, beside the findings:

- Orchestrator: overlapping ticks exceed the capacity of a node; a second
  survivor may requeue a task that runs; a lost failover announcement, or an
  expired claim followed by a crash, loses a task.
- Provider adapter: `return this.execute(task)` is not awaited, so `finally`
  clears the retry counter before the retry settles and the limit of three never
  limits; only the breaker does.
- Plugin manager: an uninstall that races an enable leaves an enabled id without
  a plugin, on which `callHook` throws outside its `try`.
- Memory cache: the timer of an overwritten entry deletes the newer one.
- Blocked clients: "in the same order they blocked for this key" (blocked.c:557)
  is not so for clients blocked on several keys.
- Streams: a consumer that XREADGROUP creates when nothing is to be delivered is
  not propagated; the AOF rewrite drops pending entries of deleted messages.
- Sentinel: `sentinelProcessHelloMessage` compares the hello's address with the
  old master's while the failover reconfigures the replicas.
- Cluster: votes are counted for `senderCurrentEpoch >= failover_auth_epoch`;
  takeovers without consensus can leave two owners of a slot after a restart.
- AOF: after a failed directory fsync (aof.c:590) the handler unlinks the base
  file that the manifest on disk names; incremental files may repeat writes that
  the base holds; a failed fsync of the background thread still counts as synced
  for `fsynced_reploff`.

## Not modelled

`components` names every part that is left out, and why. In the modelled parts:

- Orchestrator: the scores of the task queue, `orchestrator.ts` (routing and
  cross validation), the collaborative and compression use cases, text
  heuristics, remote services, the CLI, the web application.
- Replication: the RDB channel, diskless details, SYNC, FORCE, WAITAOF.
- Sentinel: TILT, scripts, monitoring commands, reconnects.
- Cluster: handshakes, gossip reports, slot migration, replica migration,
  offsets of manual failovers, RESET, FORGET.
- AOF: upgrade of the old layout, rewrite limiting, timestamps.
- I/O threads: reentrancy while blocked, resizing, pipelined input.
