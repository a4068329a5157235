# EdgeSteer in TLA+

EdgeSteer is a local DNS forwarder for macOS and the command line. It sends each
query through a graph of resolver layers, may rewrite Cloudflare answers to
addresses it has measured itself, reloads its configuration while it serves, and
on macOS takes over the system DNS and gives it back.

This directory specifies the parts of it that are hard to test, checks them with
TLC on small instances, and proves the main results with TLAPS for every value
of the constants. `PROJECT.json` is the machine-readable index: components, runs,
mutants (small changes of a definition that a run must notice), the source lines
behind each definition, hazards, findings, theorems.

Contents:
1. inventory of the system, 2. modules and their correspondence to the code,
3. runs, bounds, fairness, 4. findings, 5. proofs, 6. what is left out, 7. plan.

## 1. Inventory

| component | source | state | operations | modules |
|---|---|---|---|---|
| Compatibility gate, preferred addresses | `state.rs`, `optimizer.rs` | runtime snapshot, update lock, probe cache, probe epoch, probe permits | request asks the gate, probe verifies and publishes, reload and optimizer replace the snapshot | `CompatibilityGate`, `CertifiedAnswers` |
| Request path | `dns.rs` | per request: snapshot, layer, deadlines, candidates | filters, `next`/`fallback`, exchanges, TCP retry, rediscovery | `QueryLayers`, `Subsequences` |
| Listener | `dns.rs` | query permits, TCP connections | accept, admit, process, reply | `Serving` |
| Configuration: layer graph | `config.rs` | search stack and marks | `validate_layer_graph` | `LayerGraph`, `ResolverGraph` |
| Configuration: validation, writing | `config.rs` | the file, a temporary sibling | validate, write atomically | `ConfigRules`, `SettingsDocument` |
| System DNS takeover | `integration.rs`, `agent.rs`, `bin/edgesteer-ui.rs` | ownership record on disk, DNS of each network service, Agent, engine processes, privileged scripts | enable, disable, stop, restart, quit, drop, abandoned engine | `SystemDns` |
| Hot reload | `watcher.rs`, `lib.rs` | file, event channel, runtime, `config_changed` | receive, drain, load, reject or swap, notify | `ConfigReload` |
| Rule sets | `rule_sets.rs` | worker entries, published store | refresh, load, retain, publish, match | `RuleSets`, `RuleFile` |
| Local DNS discovery | `local_dns.rs` | resolver cache, refresh lock | loop, refresh after a failure | `LocalDns` |
| Optimizer measurements | `optimizer.rs` | one round: candidates, workers, best | draw, probe, rank | `OptimizerRound`, `Subsequences`, and a round of `CompatibilityGate` |
| Cloudflare ranges | `ranges.rs` | one list | fetch and replace | the free outcome of `FileRejected` |
| Rewriting plugin | `plugins.rs` | none | pure functions on messages | `AnswerRewriting`, `Subsequences` |
| Single instance, control channel | `agent.rs` | lock and record files, connections, command queue, timeouts | acquire, publish, request, answer, handle, drop | `AgentControl` |
| Settings window | `ui.rs`, `tray.rs` | the edited document, dirty and valid flags; actions in progress | load, edit, save, reload; ask, wait, close | `SettingsDocument`, `SettingsForm`; `AgentControl` |
| Command line, packaging | `main.rs` | none | — | not modelled |

How they interact. `run_with_shutdown` loads and validates the configuration
(`ConfigRules`; `LayerGraph` is the rule with an algorithm in it), creates the
shared state and spawns the watcher, the DNS server and four background loops. A
DNS request takes one snapshot of the runtime and one of the rule sets, walks the
graph, and only after an upstream has answered asks the gate whether preferred
addresses may be written into the answer. The watcher and the optimizer replace
the runtime; the watcher then wakes the loops that wait for `config_changed`. A query holds one of the listener's
permits while it is processed; at a local layer it uses the cache of resolvers that
a loop refreshes, and discovers again, under one lock, when a resolver fails it. The
settings window writes the file the watcher watches. The
Agent owns the engine and changes system settings through privileged shell
scripts that run apart from it and outlive it.

Hard behaviours, by component (each is listed with its line under `hazards`):

- Gate: a verdict is computed over seconds while the configuration and the cache
  change; the comparison of epochs and the insertion are separate steps; a
  `Pending` entry has no timer. It is correct if nothing is rewritten without an
  unexpired proof for that name and address, no entry stays pending for ever, and
  no snapshot mixes two configurations.
- Request path: two kinds of edges, nested deadlines, candidates that are
  extended during the walk. It is correct if the request ends, within its
  deadline, at the layer its filters and the failures single out, and asks nobody
  twice.
- Layer graph: an iterative search with duplicates on its stack and starts in any
  order. It is correct if it accepts exactly the acyclic graphs.
- Listener and local discovery: permits held by whoever waits for a lock that is held
  by whoever waits for the platform; tasks that run on after the request they ran for
  has given up. It is correct if every admitted query ends, no permit is lost, one
  discovery serves all that failed together, and the cache never goes back.
- Settings: a draft with every control of a form, saved in steps that can fail over a
  file that others write. It is correct if the file is always whole and valid, "saved"
  means saved, and no single click spoils a valid draft.
- Algorithms (rewriting, trie, integers, ranking): pure or nearly so, with hazards in
  their combinations. They are correct if they agree with a definition stated from
  what they are for.
- System DNS: commands that wait for a prompt, scripts whose exit status is
  masked, an Agent that is killed, an engine that outlives it, a user who edits
  the same settings. It is correct if whatever points at the listener is on
  record, somebody serves it, and the user's own settings are not touched.
- Reload: events during a load, a listener that cannot be bound again, a
  notification that reaches only those who wait, downloads that end after the
  definition has changed. It is correct if the last edit takes effect or is
  reported, no configuration forwards to the process itself, and rules are used
  for their own definition only.

- Agent: files that several launches test and change in separate steps, processes
  that die with the files left behind, requests given up by either side while the
  command is still queued, an exit that joins a thread. It is correct if one Agent
  runs and the record leads to it, answers say what happened, and a confirmed quit
  is carried out completely.

## 2. Modules

### CompatibilityGate, CertifiedAnswers

State and steps are those of `AppState`: every lock, unlock, atomic access and
await of the code separates two actions.

| code | actions |
|---|---|
| snapshot and upstream exchange, `compatible_preferred` per address, IPv4 before IPv6 | `RequestArrives`, `GatePasses`, `GateWithholds`, `GateIsFull`, `GateSchedules`, `SpawnProbe`, `RequestReplies` |
| the spawned probe | `ProbeJudges`, `ProbeCompares` (epoch), `ProbePublishes` (cache lock) |
| `replace_config`, `update_preferred`, `clear_preferred` | `WatcherReloads`, `OptimizerStarts`, `OptimizerDiscards`, `OptimizerUpdates`, then `Stores`, `BumpsEpoch`, `ClearsCache` |

One plugin tag is modelled: cache keys of different tags are different, so tags
share only the capacity. A plugin configuration is a constant that stands for all
its fields. `Strict` is the set of configurations with an enabled optimizer;
validation demands compatibility hosts of them, so they are exactly those that
use the gate. The clock is read just before the cache lock in the code and in the
same step in the model, so time does not advance between the two.

`CertifiedAnswers` is what the gate promises, without caches, probes, epochs or
configurations: a pair (name, address) is handed out only while an unexpired proof
for that pair exists. `RewritesAreCertified` in `CompatibilityGate` is the
refinement mapping: proofs are the verified entries of the cache, answers the
addresses that passed.

### ResolverGraph, LayerGraph

`ResolverGraph` defines the edges and what acyclic means: every non-empty set of
layers has a member without a successor in the set. `LayerGraph` is
`validate_layer_graph` with one stack entry per action: `Starts` (outer loop, any
order, as the keys come from a `HashMap`), `Enters`, `PassesOver`, `Exits`,
`Rejects`, `Accepts`.

### QueryLayers

One request. The configuration and the set of layers whose filter applies are
chosen in `Init`, since the request works on one snapshot. `Misses` follows
`next`, `LayerFails` follows `fallback`; `AsksNetworkLayer`, `AsksLocalLayer`,
`Truncated`, `Rediscovers`, `DiscoveryFails`, `CandidateFails` are the exchanges
and the walk through the local resolvers. Upstreams answer, fail, truncate or
stay silent as they like. `Configs` are assumed to be `Acyclic`, which is what
`LayerGraph` is proved to decide: the two modules fit together there.

What a list keeps of another (candidates that are new, records that stay, probes that
passed) is `Subsequence(s, I)` of the module `Subsequences`: the entries of `s` at the
indices `I`, in their order. A set of indices instead of a predicate, and no recursion,
so that what it returns can be proved once, in `Subsequences_proofs`, and used in three
components.

Time is in ticks and timers fire on time: the clock does not pass the deadline of
the call in progress. The share of the time that a candidate gets is rounded up,
because in the code it is a `Duration` that is never zero while time is left.

### SystemDns

| code | actions |
|---|---|
| `Agent::new` and its commands | `AgentStarts`, `StartsEngine`, `RestartsEngine`, `Enables`, `Disables`, `StopsEngine`, `Quits`, `IsDropped` |
| the end of a privileged command | `Enabled`, `Restored`, `NotRestored` |
| the script itself | `ScriptIsAuthorized`, `ScriptIsCancelled`, `ScriptSets`, `ScriptFails` |
| the engine process of each Agent | `EngineServes`, `EngineEnds`, `EngineIsAbandoned`, `EngineRestores`, `EngineGivesUp`, `EngineHasRestored` |
| the rest of the world | `AgentDies`, `UserToggles`, `UserEdits` |

A behaviour fixes in `Init` which faults may occur in it (`faults`, from the
constant `Environments`), so a property can say exactly what it depends on.

| fault | what may happen |
|---|---|
| networksetup | `networksetup` fails for a service |
| toggle, edit, race | the user disables services, sets their DNS, also during a change |
| config | the configuration file does not load |
| crash | an engine dies |
| kill, orphan | the Agent is killed, also while its script runs |
| overlap | a new Agent starts before the old engine is done |

`OwnershipIsRecorded` excludes networksetup, toggle, orphan and overlap. Each of
the four breaks it when it alone is added (orphan together with kill, overlap
together with kill), so the list is minimal; the same holds of config for
`ResolverIsKept`. Two of the four contradict what the project documents and are
findings below. A second enable command is possible although the menu offers only
one: a Settings window sends commands from the last status it has seen.

Abstractions: one listener on port 53 of a loopback address; inspecting the
services and writing the record is one step (`fs::write` truncates and then writes, so
a death in between leaves a torn record, which the model does not have); stopping the engine is immediate;
`Drop` after Quit does nothing; an Agent whose first load fails changes nothing;
reuse of process numbers is ignored.

### ConfigReload, RuleSets

`ConfigReload` is the watcher task: `DirectoryWatched`, `EventReceived`,
`EventsDrained` (after the 250 ms), `FileLoaded` or `FileRejected`,
`RuntimeReplaced`, `LoopsNotified`. Events carry nothing, so the channel is a
flag. The check of static preferred addresses depends on a list that another loop
replaces; a file with such addresses may therefore be accepted or rejected.
`waiting` and `woken` are the semantics of `tokio::sync::Notify::notify_waiters`:
it reaches the futures that exist and stores no permit.

`RuleSets` extends it with the refresh worker (`RefreshStarts`, `SourceLoaded` per
tag, `StorePublished`, `WorkerWaits`, `WorkerWakes`), with timers (`EntryIsDue`),
and with one request that takes the runtime first and the store later
(`RequestStarts`, `SetsTaken`, `RequestEnds`). What a load returns is identified
with the definition it was loaded for. The code loads tags in the order of the
file; the model in any order.

### LocalDns, Serving

`LocalDns` is `local_dns.rs` with the requests that call it.

| code | actions |
|---|---|
| `refresh_loop` | `Looks` (`configured_refresh_secs`), `Listens`, `TimerFires` |
| `refresh`, `refresh_after_failure`, `refresh_locked` | `IsSpared` (another cache than the one observed), `Locks`, `TaskReads` (the blocking task), `Stores`, `FindsNone` |
| `local_exchange` as the cache sees it | `Observes`, `Answers`, `Fails`, `TimesOut` |
| the world | `SystemChanges`, `ReloadStores`, `ReloadNotifies` |

A pointer comparison becomes the set `current` of requests that have observed the
current cache. `found` is what the task of an actor has read and not yet delivered;
a request that times out drops its lock and its result. The filter of
`discover_system_dns` is `Usable`, on kinds of hosts. The listener it compares with
is the bound one for good, since `apply_hot_reload` keeps it in the runtime.

`Serving` puts the listener in front: `UdpArrives` (`try_acquire_owned`),
`TcpConnects`, `TcpReads`, `TcpIsAdmitted` (`acquire_owned`, after the packet has been
read), `DiscardsPacket`, `ComesToLocal`, `LeavesLocal`, `IsProcessed`, `UdpReplies`,
`TcpReleases` (the permit goes back before the response is written), `TcpWrites`,
`TcpCloses`. A request asks at most one local layer, and `ComesToLocal` looks at the
current configuration for one, where the code uses the request's snapshot. There is no idle timeout in the code and none in the model: a client may
keep a connection for ever, and holds no permit while it does.

### AnswerRewriting, RuleFile, OptimizerRound

`AnswerRewriting` is `rewrite_cloudflare_response` as an operator (`Rewrite`) applied
once. A record is its type, its addresses and whose TTL it has. The A records are judged
together, so are the AAAA records, and each hint of each HTTPS or SVCB record by
itself: an answer with a foreign hint, or foreign AAAA records, is rewritten in its A
records when those are Cloudflare's. `ForeignIsKept` states what holds of each part,
and that is all that holds. That the answer as a whole is left alone when it is mixed,
as the documentation says, is `MixedIsLeftAlone`, which is false (finding 6).

`RuleFile` has two parts. The succinct trie: `TrieOf` is the writer (sing-box, outside
this repository), `ParsesTrie`, `Exhausted`, `FindsSuffix`, `Descends`, `PassesLabel`,
`EndsAtLeaf`, `EndsAtSuffix` are `SrsDomainMatcher::parse` and the branches of
`matches`. A trie is numbered by counting: `IdOf` counts the nodes before one, `OneOf`
says where its one bit is, and the operators with the numbers (`NodeAt`, `ParentOf`)
come from these. The labels of rules are the codes 13 and 10, and no name has a
character as small (`WrittenOK`, `NamesOK`): the domain that `query_layers` asks for is
escaped (`to_utf8`), and a rule about an unprintable character would speak of nothing
that is ever asked for. And `ReadsByte`, the loop of `read_uvarint`, whose 7 bits per
byte and 64 bits of width are the constants `GroupBits` and `Width`.

`OptimizerRound` is one round of `run_loop`: `DrawsFromNetwork`, `DrawsNothing`
(`expand_candidates`), `StartsWorkers`, `Measures`, `Verifies`, `Passes`, `FailsProbe`
with the refill of the pool (`choose_preferred`), `EndsRound`. Room is taken by an
address when it is drawn and before it is checked: an address that is excluded or out
of the ranges uses up one of the samples of its network, as in the code.

### ConfigRules, SettingsForm, SettingsDocument

`ConfigRules` is every rule of `FileConfig::validate`, on documents whose texts and
numbers are reduced to what the rules tell apart; `Accepted` adds the one check of the
engine, `validate_preferred_ranges`. `SettingsForm` has one operator per edit of the
form, with what each does besides the obvious: `normalize_layer` and
`normalize_rule_set` drop the fields of other types and fill in defaults,
`unique_tag` numbers what is added, blank texts remove optional fields.
`SettingsDocument` is the window over the file: `Opens`, `Reloads`, the edits by
section, `SaveStarts`, `Writes`, `WriteFails`, `Renames`, `RenameFails` (the steps of
`write_config_atomically`), `Closes`, `SomebodyElseWrites`. A window that finds no
file that loads shows the bundled default as valid and saved, though nothing is saved:
`CleanIsOnDisk` names that case (`origin`).

### AgentControl

| code | actions |
|---|---|
| `AgentLock::acquire`, one file operation per step | `Launch`, `LockCreated`, `LockExists`, `FindsStale`, `FindsAgent`, `RemovesLock`, `RemovesRecord`, `NoLock` |
| `run_agent` up to the event loop | `Publishes`, `Serves`, `StartFails` |
| the event loop | `CommandReceived`, `TrayEvent` |
| `Drop` of the Agent, its lock, its control server | `AgentDropped`, `OwnRecordRemoved`, `OwnLockRemoved`, `ServerJoined` |
| the control thread | `CallAccepted`, `CallTurnedAway`, `AnswerTimesOut` |
| `AgentClient::request` | `RecordRead`, `Connects`, `CallFails` |
| the settings window | `StatusRequested`, `ActionConfirmed`, `QuitConfirmed`, `AgentActionFinished`, `QuitAgentFinished`, `WindowCloses` |
| the rest of the world | `Crash`, and `kill -0` that may find another process under an old number |

A token is a random number of 256 bits and stands for its process; ports are
reused. `remove_file` may fail, since the code ignores its result. A command
succeeds or fails as the configuration and the user allow; what it does to the
system DNS is in `SystemDns`, which conversely takes one Agent at a time for
granted, the result of this module.

`Overlap = FALSE` restricts the behaviours to launches and exits that take turns
(crashes come at any time). `OneReachableAgent` needs it: the lock file is created
before the record that makes it valid, so a second launch in between takes the
lock for stale, removes it and becomes a second Agent; and an Agent that leaves
removes whatever lock is there. No document of the project promises more. The other
invariants do not depend on it: TLC confirms them with `Overlap = TRUE` as well.

## 3. Runs

| run | specification | bounds | checks |
|---|---|---|---|
| `gate` | `MCSpec` | two parts, below | one generation per snapshot, the inductive invariant (types, serial updates and owned pending entries among its parts), no reload undone, cache bound, refinement of `CertifiedAnswers`, every pending entry is resolved |
| `gate_outlived` | `ReloadSpec` | 1 request, 2 permits, two strict configurations with different TTL, 3 updates | finding 1 |
| `requests` | `MCSpec` | six parts, below | path, no revisit, deadlines, calls made once, all candidates tried, a reply; one discovery for all, the cache goes forward and follows the system, TCP is served; rewriting part by part; exact matching and integers; the best address |
| `requests_mixed` | `PluginSpec` | every answer of up to 2 of 4 records of one family, one preferred address | finding 6 |
| `configuration` | `MCSpec` | all graphs of 3 layers, all orders; then 2 edits over a default and 2 other documents, a broken and a missing file | exactness of the search, its end; "saved" means saved, a whole file, edits that keep validity |
| `configuration_unaccepted` | `MCSpec` | the same | finding 2 |
| `system_dns` | `FairSpec` | 2 services, 2 Agents, 2 changes by the user, 5 sets of faults | record, resolver, manual settings, abandoned engine, the inductive invariant (with the types) |
| `system_dns_masked` | `Spec` | 1 Agent, networksetup fails | finding 3 |
| `system_dns_dropped` | `Spec` | 1 Agent, 1 change by the user | finding 4 |
| `reload` | `FairSpec` | 2 edits, 3 files and a broken one, 2 tags, 2 definitions, 2 listeners | listener, rules belong, nothing evicted, the last edit applied, the store converges, the inductive invariant |
| `reload_missed` | `Spec` | the same | finding 5 |
| `agent_control` | `FairSpec` | 2 launches that take turns, 1 request of a window, 1 of each launch, 1 port | types, one reachable Agent, truthful answers, every launch, call and quit ends |

`requests` and `configuration` put modules that share no variable into one model. The
variable `part` of `MCRequests` says which of them a behaviour is of; the others rest
in a state in which they have nothing left to do, so the states add up and do not
multiply. `gate` has parts, too, of one module: a part (`Parts` in
`MCCompatibilityGate`) limits who arrives, what the file may contain, how often the
runtime is replaced and how far the clock goes, and nothing of what the gate does about
it. Liveness rules out TLC's symmetry there; instead requests and permits are taken in
their order (`InOrder`), since idle ones are alike. In `MCConfiguration` the window opens after a search that has accepted.

| part of `gate` | bounds |
|---|---|
| `race` | 2 requests, 2 permits, 1 name, optimizer on or off, 2 updates, no time passes |
| `names` | 1 request, 2 permits, 2 names or none, both families, with the plugin or without, 1 update, 1 tick |

Both have a cache of one entry.

| part of `requests` | bounds |
|---|---|
| `layers` | all acyclic graphs of 3 layers with a local one in the middle, two local layers in a row, 3 resolvers |
| `service` | 1 UDP task, 2 TCP connections, 1 permit, 3 configurations of the system one after the other (the second without a usable server), 1 reload, discoveries that hang or not |
| `rewriting` | every answer of up to 3 of 10 records, every combination of preferred addresses |
| `matching` | sets of up to 2 rules of each kind over 4 names, 9 domains asked for |
| `decoding` | every sequence of up to 4 bytes of 3 bits for a width of 10 |
| `optimizing` | 5 settings over 5 addresses of both families, up to 3 probes, 3 latencies |

Why the bounds are enough for the cases that matter.

- Gate: two updates suffice for a probe that spans one and an optimizer round that
  spans another; two probes of one key exist when the cache was cleared between
  them; capacity 1 with two names makes the cache full. The clock reaches 1, which
  is enough for an entry with TTL 1 to expire; TTL 2 is there to outlive it.
- Listener: with one permit every wait for one happens; two connections and a packet
  compete for it, and all three can be at the local layer when it fails. The middle
  configuration of the system is the one whose discovery finds nothing.
- Rewriting: three records are enough for two of one type with one of another between
  them, and for an address beside a hint; each record is judged by itself or by its
  type only.
- Trie: names of up to three characters over two letters and a dot share prefixes,
  end inside each other and differ only before the dot.
- Integers: 3 bits in 10 stand for 7 in 64, as 10 = 3 * 3 + 1 and 64 = 9 * 7 + 1: the
  last byte has room for one bit in both.
- Rounds: more candidates than workers, than room, overlapping, excluded and foreign
  ones; three probes tell the median from the mean and from the worst.
- Settings: two edits reach every pair of controls, so each edit meets what another
  left behind; the documents have every kind of layer, rule set and plugin.
- Graph: with three layers there are self-loops, two- and three-cycles, diamonds
  (two edges to one layer) and a start inside a finished part. The theorems cover
  any number of layers.
- Request: three layers make every combination of miss and failure; discoveries of
  one to three addresses overlap the cache partly, wholly or not at all.
- System DNS: with two services one can be changed when the script stops; with two
  Agents there is a successor that finds what the first one left behind.
- Reload: two edits make the configuration return to what it was; one of the files
  is valid only if its listener may be bound, and one removes a definition.

- Agent: the second launch meets every state the first can leave behind; one port
  makes the successor always reuse it, which is the case the token is for; two
  requests at once give one that was timed out before another is queued.

Deadlock is checked where the system never stops (the gate goes on with
requests, `reload` with timers). The other configurations switch it off
because a request that was answered, a search that has decided and Agents that
have quit really stop.

Fairness. Probes run under a timeout, updaters do not wait while they hold the
lock, and tokio polls what is ready: weak fairness of those steps (`gate`),
of the request as a whole (`requests`), of the search (`configuration`), of the
watcher, of the worker and of the passing of time (`reload`). In `SystemDns` only
started scripts, restoring or abandoned engines and the Agent's return from a
finished script are fair. In `AgentControl` processes that run take their steps,
an event loop that agreed to quit leaves, both ends of a connection have timeouts
(70 and 75 seconds), and a window receives its messages. In `Serving`
deadlines fire, tasks go on, and the semaphore and the refresh lock, which are first
come, first served in tokio, serve whoever waits (strong fairness in place of the
queue). Nothing is assumed of prompts, users, upstreams,
editors, clients or the optimizer.

Two liveness properties have exceptions, stated in the properties: `FileIsApplied`
an edit between the load at start-up and the registration of the watch, which is
reported to nobody; `FollowsSystem` a refresh loop that missed the notification it
waits for (it looks at the configuration first and registers as a waiter later), and
discoveries that hang or find no usable server.

The invariants named `IInv` are what proofs rest on and are checked by TLC as well.

## 4. Findings

Each is a run that TLC ends with a counterexample, of a property that a document
or a comment of the repository states.

1. `gate_outlived`, `ProofDoesNotOutliveAnswer`. A proof scheduled under a long TTL
   may be inserted after a reload to a shorter one, because the epoch is compared
   before the cache is locked. The entry then lives longer than the answers.
2. `configuration_unaccepted`, `SavedIsAccepted`. The window saves a static preferred
   address outside the Cloudflare ranges as "Valid and saved"; the engine has one more
   check and refuses the file.
3. `system_dns_masked`, `QuitRestores`. `networksetup ... && dscacheutil ... || true`
   hides the failure: the record is removed and the App quits with a service on the
   loopback listener.
4. `system_dns_dropped`, `NothingIsResurrected`. A second enable command replaces the
   record by the services enabled now; one that is disabled at that moment is never
   given back.
5. `reload_missed`, `ReconcilesImmediately`. `notify_waiters` does not reach a worker
   that is refreshing: it goes to sleep with the old definitions until its next
   interval, by default a minute for local and a day for remote sources.
6. `requests_mixed`, `MixedIsLeftAlone`. An answer with a Cloudflare A record and a
   foreign `ipv4hint` is returned with the A record rewritten and the hint as it was:
   each part of an answer is judged by itself, although the documents say that mixed
   answers are returned unchanged. Nothing foreign is lost by it (`ForeignIsKept`).

An observation without a run: `docs/en/configuration.md` says that a failure of a local
resolver is followed by a rediscovery "within the remaining request deadline". The last
candidate of a local layer is given all the time of the layer, and so is the
rediscovery: when it stays silent, nothing is left, although the request has time.

## 5. Proofs

`tlapm <module>_proofs.tla` checks them; none assumes anything beyond the named
`ASSUME`s of the modules, which TLC evaluates on every run: disjoint address families
(`Inside` and `Outside` of the Cloudflare ranges, too), positive TTL and bounds,
finitely many permits and addresses, `None` and `Blank` outside the sets they extend,
validated and acyclic configurations, discoveries that list no resolver twice,
documents and messages with the fields their types have, names without the two codes
that are labels of rules, and integers that are wider than what a byte carries.

| theorem | statement | argument |
|---|---|---|
| `CompatibilityGate_proofs!Invariance` | `Spec => []IInv` | one lemma per action |
| `TypeCorrect`, `PendingNeverAbandoned`, `OneGeneration`, `Serial`, `NeverUndone` | the parts of `IInv` by name, and `ReloadIsNeverUndone` | from `IInv` |
| `CacheStaysBounded` | `Spec => []CacheIsBounded` | `LoadIsBounded`, by the cardinality of the keys cached or being probed |
| `GateKeepsPromise` | `Spec => RewritesAreCertified` | every step maps to a step or a stutter of `CertifiedAnswers` |
| `Configuration_proofs!SearchInvariance` | `Spec => []SearchInv` | one lemma per conjunct and action |
| `ValidationDecidesAcyclicity` | `Spec => []ValidationIsExact` | from `SearchInv` |
| `SettingsInvariance`, `CleanMeansSaved`, `FileStaysWhole` | `SettingsInv`, `CleanIsOnDisk`, `FileIsWhole` | an edit sets `dirty`, whatever it does |
| `EditsKeepIt` | `SettingsSpec => EditsKeepValidity` | every edit leaves a document (`ShapeInv`); a change of type and an addition leave the graph alone and each rule of `Valid` is checked on what they change |
| `Requests_proofs!PathInvariance`, `NoLayerTwice` | no layer is visited twice | `PathIsConnected` and acyclicity |
| `PathPrescribed` | `Spec => []PathIsPrescribed` | what is ahead of the current layer is what was ahead of the entry |
| `CallInvariance`, `DeadlineKept`, `CalledOnce`, `AllAreTried` | `DeadlineIsKept`, `CallsAreMadeOnce`, `LocalLayerTriesAll` | `CallInv` |
| `LocalInvariance` | `LocalSpec => []LocalInv` | one lemma per group of actions |
| `DiscoveriesAreShared`, `CacheNeverGoesBack` | `FailuresShareADiscovery`, `CacheGoesForward` | from `LocalInv` |
| `PermitsAddUp` | `ServiceSpec => [](ServingTypeOK /\ PermitsAreAccounted)` | a query takes, returns or keeps a permit: three lemmas about the cardinality of `InFlight` |
| `Plugin_proofs!ForeignStays` | `RewritingSpec => ForeignIsKept` | each pass changes records of its own type in place; what it leaves is a subsequence of a subsequence |
| `RoundInvariance`, `BestIsPicked` | `RoundSpec => []RoundPicksBest` | `RoundInv` |
| `SystemDns_proofs!OwnershipInvariance`, `RecordInvariance` | types and `OwnershipIsRecorded`; `Spec => []IInv` | one lemma per action |
| `ResolverInvariance` | `Spec => []ResolverIsKept` | `IInv` and `EngineInv` |
| `ManualInvariance` | `Spec => ManualIsKept` | `WorkIsNotManual` |
| `RuleSets_proofs!ReloadInvariance` | `Spec => []IInv` | one lemma per action |
| `ListenerIsSafe`, `MatchedRulesBelong`, `NoEviction` | `NeverForwardsToItself`, `RulesBelong`, `LastGoodIsKept` | from `IInv` |
| `MatchingInvariance`, `MatchedExactly` | `MatchingSpec => []MatchIsExact` | `MatchingInv`, from lemmas on where the bits of a node are |
| `DecodingInvariance`, `IntegerRead` | `DecodingSpec => []IntegerIsExact` | `DecodingInv`, from lemmas on powers of two |
| `AgentControl_proofs!ControlInvariance` | `Spec => []IInv` | one lemma per part; the actions in groups that disturb the same part |
| `ControlTypes`, `OneAgent`, `TrueAnswers` | `TypeOK`, `OneReachableAgent`, `AnswersAreTrue` | from `IInv`; the first and the last whatever overlaps |

`Subsequences_proofs` holds the lemmas on lists that four of these modules cite: a
finite set of indices has a least one and can be counted off in order (`LeastIndex`,
`NthMonotone`), a subsequence keeps order, members and the absence of repeats, and a
subsequence of a subsequence is one (`SubsequenceOfSubsequence`).

Why the invariants had to be strengthened.

- Gate. `PendingIsOwned` survives the bump of the epoch only because the updater
  that bumped it is about to clear the cache (`UpdatesAreLocked`), and survives the
  gap between inserting `Pending` and spawning the probe only because the permit is
  in the hands of one request (`TasksAreSpawnedOnce`). `SnapshotsAreOneGeneration`
  needs the same of what an updater is about to store. `CacheIsBounded` alone is not
  inductive, because publishing does not look at the capacity: what stays bounded is
  the number of keys cached or being probed (`LoadIsBounded`), which only scheduling
  adds to, and one permit is free when it does.
- Graph. Exactness rests on the exit markers: they are the active layers and form
  a path (`MarkersAreAPath`), so an edge into them is a cycle; and the completed
  layers are closed and acyclic (`CompletedIsAcyclic`), because what an active layer
  leads to is still above its marker (`SuccessorsAreAhead`).
- Request. Every layer that was left has an edge to one that was left or to the
  current one. Had the request come back, the layers left would be a set in which
  each has a successor, which no acyclic graph has.
- The path, again. `PathIsPrescribed` compares the layer that answers with a recursive
  function over the graph (`Onward`, the layer a walk ends at), which knows nothing of
  the request. It unfolds by one edge per step of the request, so its value at the
  current layer is its value at the entry (`PathIsFollowed`), although a failure changes
  the function: the layer that fails was where the walk ended. That some layer is ahead
  as long as none has failed for good is acyclicity again (`SomeLayerIsAhead`).
- Candidates and deadlines. The resolvers the layer knows of are those asked and those
  still in the pool, none of them twice and none in both (`CandidatesAreKnown`); that
  rediscovery adds only what is in neither is what keeps it so. The deadline of an
  exchange is within that of its layer, which is within that of the request
  (`DeadlinesNest`). Both are parts of `CallInv`.
- Rounds. That the best address is picked needs that candidates are shared out: each
  waits, is with one worker or has passed, and is never two of these (`WorkIsShared`);
  and that timings, taken lexicographically, are totally ordered, so that the least of
  what has passed so far can be carried along (`FastestAreKept`).
- Rewriting has one step and no invariant but the type of the answer. Its passes (A,
  AAAA, hints) change records in place and each only its own type, so a later one decides on the
  addresses the resolver sent; the last removes signatures, and what is left of the
  records nobody rewrites is the same subsequence of both answers
  (`SubsequenceOfSubsequence`, `SameSubsequence`).
- System DNS. While a script or an engine restores, everything that points at the
  listener is still before it (`WorkIsCovered`), so removing the record at the end
  is right; and only the last Agent has anything running (`OthersAreDone`). That manual DNS is kept needs no
  such assumption, only that what is still to be changed was not manual when it was
  chosen and that the user has not edited it since (`WorkIsNotManual`).
- Reload. A configuration between its validation and its swap must already be safe
  (`ReloadInv`). Rules stay paired with their definition in the entries, the store
  and the request's snapshot (`PairsInv`). Nothing is evicted because, during a
  refresh, the entry of a tag whose definition has not changed equals what the
  store holds for it (`StoreInv`).
- The rule file. The walk reads bits and counts them; what the counts mean is about the
  trie alone. Nodes are numbered level by level, so a parent comes before its children
  and the children of a node are next to each other, in the order of their labels
  (`ParentMonotone`, `SiblingBefore`). Hence the bits of a node lie between two ones,
  the zeroes up to a bit are the number of the child it stands for (`OneIsAt`,
  `OnesAre`, `BitsAre`), and a label that is read is that child's. On top of this
  `MatchingInv` says that the walk is at the node of the characters behind it, that no
  key said yes before, and that no label of the node it has passed leads to one that
  does. The last part holds because the labels of rules are below all characters: they
  are behind when a character's label is found. Where the file would be refused, or a
  child lies outside the trie, is shown not to happen.
- Integers. That what is read is exact needs that nothing wraps, for which the value so
  far is less than the place of the next byte is worth; the check on the last byte is
  what keeps it so when the width is no multiple of the bits in a byte (`ByteFits`).
  `Pow2` and `NumberOf` are recursive functions on finite domains; that such a function
  exists, and that two which begin and continue alike are one, is proved from the least
  argument at which it would fail (`ComputedExists`, `StepByStep`).
- Local discovery. The cache cannot go back because what a task has read is never
  older than the cache while its actor holds the lock (`cache.seen <= found[a]`), and
  only the holder has read anything. A request that discovers has observed the current
  cache, since only the holder of the lock can replace it.
- Settings. What is renamed is the document that was validated, because the window is
  one thread and nothing edits during a save. That proof uses no rule of `ConfigRules`
  and no edit of `SettingsForm`: it holds for any of them. `EditsKeepValidity` uses all
  of them. It needs that the document has the fields and the lists that serde demands,
  however it was edited (`ShapeInv`); that the tag `unique_tag` finds is free, so nobody
  refers to it and the graph is the same; and that a valid layer has no field but those
  of its type, so whatever a change of type keeps is one of the new type, too, or the
  address, which is where the stated exceptions come from.
- App. One Agent is not inductive: a launch that has judged the lock stale, and an Agent
  that is leaving, still remove files. So nobody lives beside a process in one of
  these stages, and only one process at a time is in transit (`TurnsAreTaken`). That
  answers are true rests on where a call can be: in one place of one backlog, not yet
  run, or in the queue of the Agent whose token it carries (`CallsTravelOnce`), so the
  only process that can run it is the one its caller meant.

Only model-checked, of the properties of the runs, is everything under fairness
(`PendingIsResolved`, `IsAnswered`, `Decides`, `AbandonedIsRestored`, `FileIsApplied`,
`StoreConverges`, `FollowsSystem`, `TcpIsServed`, `NothingHangs`): the prover has no rules
for ENABLED.

## 6. Not modelled

- Parsing and building of DNS packets, TLS and HTTP, reading the platform's
  settings: I/O. Their outcomes are free choices of the actions that call them.
- The cache of DoH clients, which a reload clears: a client that survives only keeps
  connections to an endpoint of its own key.
- The Cloudflare ranges: one loop replaces one list as a whole. Readers take its value
  as a free choice. A round of the optimizer does not look at the list again at its
  end, so an address may be published that has just left the ranges.
- Of the `.srs` reader everything but domains and integers: decompression, the limits
  on lengths and counts, and rule items that are not domains, which are local checks.
- Arithmetic on network prefixes in the optimizer: a candidate network is the set of
  its addresses.
- Login items and the legacy daemon; what the settings window draws and its own
  preferences; the command line; packaging.
- Accepted by the code and excluded by name in the properties: an engine of a dead
  Agent that restores while a new Agent takes over (fault `overlap`), a restart whose
  configuration does not load (fault `config`), an engine that dies under an Agent
  which still holds its handle, and a restoration that fails as the Agent is dropped.

## 7. Plan

The order was: the gate (most concurrency), the refinement of its promise, the
request path and the graph it relies on, the system DNS, reloading, the processes of
the App; then local discovery and the listener in front of it, the algorithms, and the
settings window with the rules of the configuration. What could follow:

1. Compositions: `LocalDns` and `RuleSets` as two loops of one `ConfigReload`, and
   `SettingsDocument` as the editor whose saves `ConfigReload` receives.
2. The cache of DoH clients, and a list of ranges that changes during a round.
