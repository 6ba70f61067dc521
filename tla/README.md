# A TLA+ verification of mcpg-plugin-host

`mcpg-plugin-host` loads plugins into the MCPG gateway, keeps them in a registry,
walks their chains on every request and offers them host services. This directory
models the parts of it whose correctness depends on the order in which concurrent
steps happen, checks them with TLC on small instances and proves the central
results with TLAPS for every value of the parameters.

## Inventory

| Part (source) | State | Operations | What is hard | What makes it correct |
|---|---|---|---|---|
| Lifecycle (`lifecycle.rs`) | one `PluginState` | `transition`, `advance`, `fail`, `reject` | long legal sequences | nothing serves without verification; dead stays dead |
| Chain evaluation and drain (`registry.rs`) | per plugin: atomic state cell, in-flight counter, notifier | the chain loops; `disable`, `enable`, `mark_draining`, `mark_disabled_after_drain`, `mark_degraded`, `mark_active`; `DrainToken::wait` | loads and stores without compare-exchange; check before guard; lost notifications | exact counter; `Completed` is true; an answer always comes |
| Health prober (`health_prober.rs`, `probe_plugin`) | failure streaks, stop flag | the probe cycle; `stop`, `nudge`, drop | the operator moves during a probe; notifications that find nobody parked | the flag follows the evidence; `stop` ends the task |
| Secret watcher (`secret_watcher.rs`) | pending version and deadline per task; cancel token; join handles | the `select` loop, `cancel` | debounce against cancel against end of stream; a dropped `cancel` | no rotation forgotten or postponed for ever; no callback after `cancel` |
| Credential cache (`credential_cache.rs`) | entries with expiry and last access; subscribers | `get_or_issue`, `invalidate*`, `insert*`, `on_revoked` | issuing is awaited without the lock; callbacks run with it | bound, lifetime, no callback after unsubscribe |
| Clustered cache (`credential_cache_clustered.rs`) | a cache per instance, a topic, a seen-set | `get_or_issue`, `invalidate`, `invalidate_plugin`, `subscriber_task`, `apply_event` | crossing, replayed, late and lost events; clocks that differ; local effect and event are two steps | revocations are final; caches agree when they can |
| Registry: registration (`registry.rs`, `firstparty.rs`) | one slot or chain per plugin class, aliases, bindings | `register_*`, `bind_*`, `auto_bind_*`, lookups | several instances of one id; boot calls that fail and are passed over | unique aliases; a binding leads to the plugin that was checked |
| Verdicts (`registry.rs`) | the payload as rewritten so far | `resolve_identity`, `apply_transforms_*`, `evaluate_tool_gates_*` | plugins disabled in mid-chain; shadow mode | the first enforced refusal is the last word |
| Audit (`audit_events.rs`, `registry.rs`) | policy, digest key, permits of each sink policy | `emit_audit_event`, `emit_audit_event_enforced` | sinks that change state during a fan-out; collectors that hang | fail-closed keeps the record; collectors hold nobody up |
| Shutdown (`registry.rs`) | the plugin being drained | `shutdown_all_with_timeout`, `drain_one` | plugins that hang | it comes to its end |
| Native loader (`native_loader.rs`, `native.rs`) | library, instance, handles and bridges | `load_native_plugin`, the constructors, every slot of 21 adapters | raw pointers under Arcs; a timed-out call goes on running | nothing is used after it is freed; late means refused |
| Host bridge (`host_bridge.rs`, `identity_sig.rs`, `host_services.rs`) | live dispatches, subscriptions | the slots plugins call | identities that come back late; blocking on the runtime | an identity dies with its request |
| Package trust (`verify.rs`, `signature.rs`, `revocation.rs`, `package.rs`, ...) | none beyond a load | verify, pack, unpack | the path changes between two reads | nothing unverified runs under `Enforce` |
| wasm, cipher, encryption, tenancy, metering, logging | - | - | - | not modelled, see the end |

How the parts meet: requests read the state cells that operators and the prober
write; a drain waits for the counter requests move; the prober calls plugins
through the registry; the resolver and the cluster wrapper share one
`CredentialCache`; the cluster wrapper's peers write into it through the topic;
revocation and rotation callbacks leave the host for backend plugins. A request
passes the chains, whose records the audit fan-out hands to sink plugins; behind
any of them may be the adapter of a native plugin, whose calls reach back into the
host through the bridge while the registry is being drained and dropped.

## Modules

| Module | Models |
|---|---|
| `PluginLifecycle` | the plugins, their states and the transition table, extended by all that touch a state cell |
| `Lifecycle` | the `Lifecycle` struct |
| `PluginStateProofs` | theorems about `Lifecycle` and `HealthProber` |
| `ChainDrain`, `ChainDrainProofs` | chain loops, in-flight guard, the six registry calls, `DrainToken::wait`; its theorems |
| `DrainContract` | what a drain promises, without counter, notifier and cells |
| `HealthProber` | `run_prober`, `probe_plugin`, the handle, an operator |
| `SecretWatcher`, `SecretWatcherProofs` | `run_watch_loop`, `SecretWatcherSet::cancel`; its theorems |
| `CredentialCache`, `CredentialCacheProofs` | `CredentialCache` and `CredentialCacheKind::get_or_issue`; its theorems |
| `ReplayGuard`, `ReplayGuardProofs` | freshness window, `SeenEvents`, `accept_once`; its theorems |
| `ClusterCache`, `ClusterCacheProofs` | instances, topic, subscriber tasks, for one key; its theorems |
| `AuditEvents` | the records the host can write, sink patterns, `glob_match`, the digest of attributes |
| `AuditFanout` | `emit_audit_event`, `emit_audit_event_enforced`, permits, the operator's settings |
| `RequestPath`, `RequestPathProofs` | a `tools/call` through every chain and its records; composes the two above; its theorems |
| `PackageTrust` | the checks an artifact must pass |
| `NativeSlots` | the ABI: one definition per adapter method and per constructor |
| `NativeHost` | load, instance, calls, handles and bridges of one native plugin |
| `HostBridge` | dispatch tags and the slots a plugin calls |
| `Registry` | admission per class, the first-party registrar, bindings, state cells, drain |
| `PluginHost`, `PluginHostProofs` | boot, traffic and shutdown of a host; composes the five above; its theorems |
| `MC*` | the instances for TLC |

Conventions: an action is the code between two points where another task or
thread can run, so an atomic load and the store that follows it are two actions,
and an `await` separates two actions; `pc` variables name the point. Variables and
actions keep the names of the source. History variables, marked as such, exist
for the properties only. A definition introduced by `Mutant:` is a plausible bug
of the definition that follows; nothing uses it, it shows that the property can
fail.

### ChainDrain

`state[p]` is the `AtomicPluginState`, `inflight[p]` the `InflightTracker.count`.
A request goes `idle -> eval -> checked -> calling (-> notify) -> eval/idle`:
`CheckServes` is `serves_traffic()`, `AcquireGuard` the `fetch_add`, `DropGuard`
the `fetch_sub`, `NotifyWaiters` the `notify_waiters` of the guard that saw 1. All
chain loops (gates before and after dispatch, transforms, identity) have this
shape; what the plugin answers is a choice between `continue` and `return`. A
caller of the registry goes `idle -> store -> idle`, and from `mark_draining` into
`wait -> arm -> parked`. Tokio's `Notified` counts from its creation, so `WaitArm`
creates it and parks in one step. `DrainToken::wait` is entered as soon as the
token is handed out.

`owed` (history) is the set of calls running when the token was handed out;
`CompletedDrainsOwed` says `Completed` waits for them, and `DrainContract` is this
promise as a specification of its own: a drain may answer `Completed` only when
the calls it was begun for are over, may answer `TimedOut` any time, and answers.
`ChainDrain` implements it with `calls <- Calling`, `waiting <- apc \in WaitPC`.

### HealthProber

The operator is one thread here (several are in `ChainDrain`); streaks saturate at
the threshold, past which the code does the same. `Listed` is
`registered_plugin_ids()`, `Probeable` the chain plugins; others answer
`Unsupported` or `NotFound`. A plugin is sick while its calls panic or hang.

### SecretWatcher

The biased `select` is three polls in order; a cancel or a deadline may fall
between two of them. The provider's stream buffers `MaxQueue` events. Versions
that do not parse are read as 0, as `parse_version` does. `DropCancel` is a
`cancel()` future that is dropped: while it waits for the mutex that costs
nothing (`"dropped"`; the set's own `Drop` is this case too), while it joins it
takes the drained handles with it (`"abandoned"`).

### CredentialCache

Time is a number; a request reads it in `Begin` and the entry is stamped with
that reading, or, on the path of `CredentialCacheKind`, with the time of the
insert. The lock is free between actions except while callbacks fire.

### ReplayGuard

`Deliver` is the freshness check, `AcceptOnce` is `check_and_record`; time may pass
between them, but less than `Slack` (60 s): the one assumption on the environment,
together with a receiver's clock that does not step back. Stamps are arbitrary, so
publishers' clocks may be off by any amount.

### ClusterCache

One key. `cache[n]` is the credential an instance holds. The topic is a log with a
cursor per subscriber; a `durable` backend (chosen in `Init`) takes and delivers every
event and may replay, any other may refuse a publish or lose an event. An event
carries the clock of its publisher at the time it was made (`BeginPublish`), and
`apply_event` refuses one whose stamp is more than `MaxAge` from the receiver's clock,
on either side (`Fresh`); instances have clocks that differ by a fixed `offset`. So an
event that is delivered late is refused for good, while one refused as early may be
taken when it is replayed. The properties say what is left: `Converged` and
`PresenceAgrees` name the late events (`Late`) an instance did not take, and they, and
`RevokedStaysGone` over a backend that replays, ask for clocks at most `MaxAge` apart
(`InStep`). Expiry and eviction are left out; every instance is taken to run this
version (stamps and ids are optional on the wire for older ones), to be on the others'
allowlist and to share their cipher.

### AuditEvents, AuditFanout, RequestPath

A record keeps what an auditor selects by: the dotted action as a sequence of
segments, the outcome, whose identity it carries, whether it names a request.
`fan[e]` is an emission on its way along the sinks; a gating sink is awaited, a
collector gets the record in a task of its own if a permit of its policy is free
(`SpawnEmit`; sinks registered under one id have clones of one policy and so one
semaphore, `PolicyOf`), and under `fail_closed` the emitter looks at the sinks a second time
(`FanoutDone`, `EmissionFailed`). `glob_match` is written as the code's greedy walk
and compared with what a glob means by an assumption TLC evaluates
(`GlobMatchesMeaning`, three parts, texts up to four).

`job[r]` is where a call is: the phase, the plugin whose turn it is, the records it
still owes. `job[r].log` keeps, with each emission, the policy it began under, who
failed, who was skipped, and who did not serve at the second look. A
payload is named after who wrote it last, so that "the next gate sees the latest
rewrite" can be said. `serving` is what `serves_traffic()` returns; it
may change between any two plugins. The order of the phases is the dispatch
site's, outside this repository, and marked external.

### PackageTrust, NativeSlots, NativeHost, HostBridge

`NativeSlots` classifies every adapter method by how the call is made (under a
timeout on a thread of its own, inline, without a timeout), by what a late, lost,
empty or unreadable reply becomes, and by what a good one opens. `NativeHost` gives
the classification its meaning. `load.pc` runs through the three reads of the
artifact; `inst.owners` are the Arcs and borrows that keep the instance, and the last
to go frees it; `calls[c]` is one call: whether its caller waits (`pc`), whether the
plugin's thread is still inside (`in`), what it opened (`hand`), the bridge it lent
(`bridge`) and whether the plugin may call back through it (`plug`). Dropping a watch
handle frees its bridge, cancelled or not (`DropWatch`). A caller that
times out or leaves and a thread that goes on are therefore different facts.

`host.live` is `live_dispatches`. The MAC is taken as unforgeable: what a plugin
presents is an identity it was once handed, or nothing. A host slot holds its thread
until the future it spawned has run, for which a worker must be free (`Stuck`).

### Registry, PluginHost

An entry is a plugin under an alias with the keys it states. `RegisterX` is what class
X asks besides a valid manifest and a free alias. A deployment fixes the boot calls;
their order is open, and one that fails is passed over, as the gateway reports and
goes on. Classes the code keeps in a `HashMap` are drained in registration order
here; the code's order is unspecified and no property depends on it.

## Runs

| Run | Instance | Shows |
|---|---|---|
| `lifecycle` | 2 plugins | `ServesOnlyLoaded`, `NoResurrection` |
| `chain_drain` | chain of 2, 2 requests, 1 operator, 1 prober, fair | `InflightExact`, `CompletedDrainsOwed`, `WakeupDelivered`, `ImplementsContract` |
| `drain_quiet` | 1 plugin, 1 request, 1 operator | refutes `CompletedDrainIsQuiet` |
| `prober_resurrects` | 1 plugin, 1 operator, 1 prober | refutes `ProberNeverResurrects` |
| `health_prober` | 2 chain plugins, threshold 2, fair | `DegradedExplained`, `OneLateProbe`, `StopEndsTask`, `HealthyRecovers`, `SickIsFlagged` |
| `secret_watcher` | 1 task, queue of 2, 2 callers of `cancel`, fair | `LastVersionFannedOut`, `NoCallbackAfterCancel`, `PendingIsFannedOut`, `CancelEnds` |
| `credential_cache` | 2 keys, 2 requests, both paths, 1 entry, TTLs 1 and 3, cap 2, time to 3 | `SizeBounded`, `EntryWithinLifetime`, `ServedAlive`, `NoCallbackAfterUnsubscribe` |
| `replay_guard` | 4 events, window 1, slack 2, cap 2, time to 8 | `MapMatchesQueue`, `AppliedOnce` |
| `cluster_cache` | 2 instances, a task on each, 2 credentials, 2 events, clocks 0 to 2 apart, `MaxAge` 1, 2 ticks | `Converged`, `PresenceAgrees`, `RevokedStaysGone` |
| `revoke_everywhere` | 2 instances, one clock, 1 credential, 4 events | refutes `RevokedEverywhere` |
| `request_path` | 1 call, 4 gateways (2 gates; 2 identity providers and 2 transforms; no plugin and 1 other surface; no plugin and 3 operator changes, elsewhere 1), a gating ledger, a collector and its mirror under one policy with 1 permit, fair | `VerdictFollowsChain`, `AcceptedCallsRecorded`, `ChainOnRecord`, `PermitsConserved`, `NoPlainAttribute`, `CallsEnd` |
| `plugin_host` | 155 hosts: loads under every pin, policy, key set and list with 2 rewrites of the path; every slot of every class, ferried and inline, 2 callers where handles are shared; a backend that asks the host; 3 boots with collisions; queue of 1; fair | `LoadedBytesVerified`, `InstancesFreedOnce`, `InstanceOutlivesUse`, `BridgeOutlivesCallbacks`, `AnswersEarned`, `IdentityDiesWithDispatch`, `RegistryConsistent`, `BoundedCallsEnd`, `ShutdownMovesOn` |

Why these bounds suffice. Two requests on one plugin make the counter pass through
2 and let one call end while another begins; the chain of two exercises `continue`
from both the skip and the drop; more operators, requests and plugins are covered
by the proofs. Threshold 2 is the least at which a streak can be cut short. A queue
of 2 lets an event arrive while another is pending; watch tasks share only the
token and the vector of handles, so one stands for all. TTLs on both sides of the
cap, and a clock that passes both, make every branch of expiry happen; one entry
for two keys forces evictions. The replay instance holds a stamped event that is
early, one that is late, one unstamped and one without id, over more time than the
set's TTL, and a cap it overflows. Two instances are enough for events to cross; the
two events of the log are every pair of issue and revocation, in both orders of
publication, and are replayed; offsets below, at and beyond `MaxAge` and two ticks make
events early, fresh and late, and fresh after they were early.
In `request_path` one call and one other emitter, and the two collectors of one
emission, compete for one permit; two gates,
one of them in shadow mode, make the second see the first one's rewrite and refusal;
three changes let a sink be disabled and enabled within one emission and again
between the dispatch site's look and the emission. In `plugin_host`
two rewrites put the first artifact back after another; two callers are needed only
where one goes through the other's handle or carries its identity; one native
plugin stands for all, since adapters share nothing.

Deadlock is checked except where the system may come to rest: `secret_watcher`
(everything cancelled, stream closed), `request_path` (the call is over) and
`plugin_host` (shut down, or standing in a plugin).

Fairness. `chain_drain`: weak fairness of the waiter's own steps and of the passing
of its budget; a plugin call may hang for ever, and nobody has to call. `health_prober`:
the runtime polls the task, sleeps and probe timeouts elapse, a `stop` that set the
flag goes on to notify, a store follows its load. `secret_watcher`: ready tasks are
polled, the synchronous callback returns, the deadline passes. `request_path`: a call's
own task runs on, and the plugins and gating sinks it awaits answer, because the
adapters bound their calls (`plugin_host` shows when they do); nothing is assumed of
collectors. `plugin_host`: the drain's next step, its timeout and the timeouts of calls,
while a worker is free to run them. Nowhere else is a provider, an operator or a
plugin assumed to do anything.

### Where code and comments part

The three refuting runs are findings in `PROJECT.json`.

- A drain that `Completed` does not keep the plugin quiet: the chain loops check the
  state (`registry.rs:6094`) before they take the guard (6100).
- `mark_active` and `mark_degraded` can undo a `disable` that falls between their load
  and store, so the prober does resurrect.
- An instance that invalidates a key while a peer's `Issued` event is under way keeps
  the credential.

Four more comments say what the code does not do. The passing properties state the
code's side and name these cases; each is a hazard in `PROJECT.json`.

- `Warn` refuses a plugin whose signature does not verify as soon as trusted keys are
  configured (`native.rs:140`, and so the comment of the variant at `signature.rs:25`),
  where `signature.rs:6`, `native.rs:52` and `native.rs:117` say that it logs and loads.
  `native.rs:56` also calls it the default, which is `Enforce` (`signature.rs:34`).
  `LoadedBytesVerified` states what the code does, the stricter reading.
- The thread of a call that timed out keeps the instance's pointer after the adapter
  may be dropped; `native_loader.rs:212` says the closures run to completion before.
- A lease or key-value handle keeps the cluster's instance after the host bridge went
  with the adapter; `host_bridge.rs:306` says it lives until `drop_instance`.
- A watch loses its sink bridge when its install times out, or when its handle is
  dropped without `cancel`, and the plugin may still call it; `native_loader.rs:2917`
  says it stays until the cancel slot returned.

Met while modelling, and recorded as hazards: a decrement to zero between the
waiter's load and its parking wakes nobody, and the drain ends by timeout;
`fail` is documented as accepted from every non-terminal state (`lifecycle.rs:333`)
but the table refuses `Discovered` and `Disabled`; a plugin registered twice is
probed twice per cycle (`health_prober.rs:50` says once); a probe holds no
in-flight guard; a `cancel()` that is dropped while joining voids the promise of a
later one; `CredentialCacheKind` stamps entries after the issuer answered, so they
may outlive `issued_at + min(plugin_ttl, max_cache_ttl)`; an issuance in flight
during `invalidate` is cached afterwards; two instances may both issue, and then
hold different credentials; `invalidate_plugin` publishes nothing; the resolver
issues beneath the cluster wrapper and publishes nothing; an event refused as early and
replayed later is applied out of order, after the revocation that was to end it.

Some properties hold with an exception, which each names:

- `LoadedBytesVerified`: a write of the path between the second hash and `dlopen`.
- `AcceptedCallsRecorded`: a gating sink that the fan-out skips as disabled and the
  second look finds enabled is missed by both; and a gateway without gates writes no
  record when its dispatch site was told that no sink could be reached.
- `Converged`, `PresenceAgrees`, `RevokedStaysGone`: events that came too late, and
  clocks further apart than the window (see `ClusterCache` above).
- `InstanceOutlivesUse`: nothing is said of a thread nobody waits for any more; a stream
  and a listener keep the library and not the instance, so `StreamCancelGuard`,
  `HttpStreamCancelGuard` and a listener's calls may reach a freed one; a
  watch handle keeps neither, so its `cancel` and `acknowledge` may run in unmapped
  code; a lease or a key-value handle outlives the host bridge.
- `BridgeOutlivesCallbacks`: a watch whose install timed out, or whose handle was dropped
  and not cancelled, has lost its bridge.
- `BoundedCallsEnd`, `ShutdownMovesOn`: every worker stands in a native call that was
  made on it, perhaps waiting for a host service that needs a worker.
- `ShutdownMovesOn`: the shutdown slot of a native plugin runs within one poll, and
  no timer interrupts it.

`auto_bind_config_provider_schemes` fails for a second instance of one id, since it
binds by id and finds the first.

## Proofs

Every safety property the passing runs check, invariant or action property, is a
theorem: TLC shows it on the instances above, TLAPS for every value of the constants.
The eight proof modules are checked to the last leaf from the named assumptions of
the modules they extend and no other. Those say what a constant is (a chain is a sequence of
plugins, a threshold is positive, an instance has a node), that names that must differ
do (`"none"` and `System` are not callers, operators are not probers), that requests are
finitely many where they are counted, and that deployments are built from plugin entries
(`DeploymentAssumption`). What is assumed of the environment is in the modules' actions:
the slack between freshness check and seen-set of `ReplayGuard`, the unforgeable MAC of
`HostBridge`. The bounds that keep TLC's instances finite (`MaxTime`,
`MaxIssued`, `MaxLog`, budgets) are arbitrary numbers in the proofs.

Few of the properties are inductive as they stand. What each proof adds, and why:

| Theorems | Strengthening |
|---|---|
| `PluginStateProofs`: `NoShortcut`, `TerminalStaysDead` (`ServesOnlyLoaded`, `NoResurrection`) | `PathInv`: the property speaks of serving states only; every state must say which were entered before it. The table respects that edge by edge (`TableRespectsPath`) |
| `PluginStateProofs`: `DegradedHasReason`, `StopIsHonoured` (`DegradedExplained`, `OneLateProbe`) | `MarkInv`: a failure on its way to `mark_degraded` has its streak, and no operator stores `Degraded`. `LateInv`: a probe begun after the flag leaves the point at which another could begin |
| `ChainDrainProofs`: `TypeCorrect`, `CounterExact`, `DrainSound`, `WakeupSound`, `DrainRefinement` | `TypeOK` needs `InflightExact`, or a drop could take the counter below 0; `OwedCounted` (whoever is owed to a waiting drain runs inside its plugin) makes a zero counter mean that nothing is owed |
| `ReplayGuardProofs`: `GuardSound`, `MapSound` | `EntriesInTime` relates recording time and stamp, `Counted` the entries behind each one, `Forgotten` says of an applied event that left the set that it is past its window or `Cap` others came after it. The TTL `2 * MaxAge + Slack` is used exactly there |
| `SecretWatcherProofs`: `DebounceLosesNothing`, `CancelIsBarrier` | `PendingIsLast`: what is pending or in the callback is the last version received. `GoneIsDone`: while no joiner was dropped, a task whose handle has left the vector is done |
| `CredentialCacheProofs`: `CacheBounded`, `EntriesDieInTime`, `ServesAlive`, `UnsubscribeIsFinal` | `FiniteTables`, without which a cardinality means nothing; `IssuedAfterRead`: a request about to insert read the clock no later than its credential was born |
| `ClusterCacheProofs`: `RevocationIsFinal`, `RacersAgree`, `OneWriterConverges` | `CredentialsUnique` (one carrier or one `Issued` event), `StampsPast` (nobody stamps ahead of its own clock, so that what is refused under clocks in step is late, and late for good), `SeenInOrder` (what a subscriber passed it applied or is too late for it, or nothing comes twice), for convergence `Follows` (every instance holds what the last event it took of a prefix says), for presence `GetsSpread` |
| `RequestPathProofs`: `PermitsNeverLost`, `AttributesStayHidden`, `ChainsDecide`, `AcceptedIsRecorded`, `ChainsOnRecord` | `RequestPathInvariant` proves `Inv`: per call `Good` (`Followed`: who spoke, of which payload, none after a refusal; `Judged`: the verdict while its records are written; `Recorded`: written and due make up what is owed, the record of the call itself included), per emission `FanOffers`, and `LogOffers` for what is written |
| `PluginHostProofs`: `OnlyTrustedCodeRuns` | `LoadChecked`: what was read passed the checks and lies on disk until somebody writes after the second hash |
| `PluginHostProofs`: `YesIsEarned`, `BridgeIsAlive` | `Shape`: where thread, answer, handle and bridge of one call stand together; `SlotFits`, what the table of slots promises |
| `PluginHostProofs`: `EachInstanceFreedOnce`, `InstanceStaysInUse` | `OwnersExact`: the owners at every program point of load, calls and handles; `Borrowed`: a call through a handle finds it held; `LoadBeforeDrain` |
| `PluginHostProofs`: `IdentityDies` | `Dispatches`: nonces are fresh, distinct, and live exactly while their call is served |
| `PluginHostProofs`: `RegistryStaysConsistent` | `PositionsApart` and `BindingsLead`: by position in the registry, so that an admission extends them by one |

Steps of one call, task or instance leave the others as they are; most proofs are
therefore a predicate of one of them, a lemma per action about what it does to
that one (`ReplyEffect`, `TimesOutEffect`, ...), and a lemma that lifts it (`ShapeOfOne`,
`OwningOfOne`). `PluginStateProofs` holds two specifications over the same
`state`, `LifecycleSpec` and the prober's `Spec`; neither proof uses the other.

Only model-checked, and why:

- every liveness property (`ImplementsContract` beyond its safety part, `StopEndsTask`,
  `HealthyRecovers`, `SickIsFlagged`, `PendingIsFannedOut`, `CancelEnds`, `CallsEnd`,
  `BoundedCallsEnd`, `ShutdownMovesOn`): it needs fairness and `ENABLED`, beyond this prover;
- `GlobMatchesMeaning`: what the greedy walk of `glob_match` computes needs induction over
  data. The proofs about records hold whatever `Accepts` returns.

## Plan

Done: all components of the inventory that are modelled, and the proofs above. Left:

1. The bridge's registry of subscriptions, composed with `CredentialCache`: which lock
   is held when a callback ends another subscription.
2. Action properties over what is now proved inductive: an owner that let go of an instance
   does not come back; a binding, once made, is not redirected.

## Not modelled

The encode arena, the per-profile cache of audit fields and argument
layout in the native loader; routing of HTTP paths and resource URIs; the bridge's
subscriptions, metric and span slots and late binding of the services. Packing,
unpacking and OCI transfer (I/O), docker credentials, wasm execution (the engine's
fuel and epochs; every call has an instance of its own), cryptography
(`credential_cache_cipher.rs`, `cluster_encryption.rs`), tenancy prefixes, metering
decorators, logging and sampling: stateless wrapping or I/O, without an order of
steps to get wrong.
