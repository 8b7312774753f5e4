# TLA+ models of the Istio Pilot config adapters

This directory holds TLA+ models of the two config adapters in `src/adapter/config/`.
They are checked with TLC.

- **Polling diff monitor** (`memory/monitor.go`). It lists a `ConfigStore` on every tick and diffs the listing against a cached snapshot. It hands Add, Update and Delete events to registered handlers.
- **Push watch adapter** (`ingress/controller.go`). A Kubernetes informer on Ingress objects pushes tasks onto a retry queue. A chain of handlers gates the tasks on the informer's sync, converts each Ingress into route rules and forwards them to registered consumers.

## Inventory

| Part | Source | State | Operations | Status |
|---|---|---|---|---|
| Snapshot diff | `monitor.go` 95-122, 134-136 | none (pure) | `normalize`, `compareToCache` | modelled: `ConfigDiff` |
| Polling monitor | `monitor.go` 37-132 | store, `configCachedRecord`, `handlers`, ticker, stop channel | `NewConfigsMonitor`, `AppendEventHandler`, `Start`, `run` (tick / stop), `UpdateConfigRecord`, `applyHandlers` | modelled: `ConfigsMonitor`, which refines `HandlerMirror` |
| Ingress controller | `controller.go` 39-213 | informer store, queue, delayed retries, consumers' views | informer Add/Update/Delete funcs, sync gate, `RegisterEventHandler`, `HasSynced`, `Run` and stop, `ConfigDescriptor`, `Get`, `List`, Post/Put/Delete | modelled: `IngressController` |
| Validation | `model/validation.go` | none (pure) | about 40 validators | modelled: `Validation` |
| Old monitor draft | `bin/push-docker` 78-171 | | | not modelled: does not compile and is superseded by `monitor.go` |
| Scripts, e2e test, RBAC yaml | `bin/push-docker` 1-77, `controller.go` 214-283, `unnamed/*` | | | not modelled: I/O, test harness, static data |

### How the parts interact

Both adapters produce the same `(model.Config, model.Event)` callbacks for the same kind of consumer. Each consumer keeps its own view of the configs.

- The monitor runs its own goroutine. Other goroutines write the store concurrently.
- In the controller, the informer goroutine pushes tasks. The queue goroutine runs them. When a task fails, the queue runs it again after a delay, at the tail of the queue.

### What is hard

- The diff's cursor backtracking.
- Stopping the monitor while a tick is buffered.
- A List failure part way through a tick.
- Tasks that reach the queue before the informer has synced are retried, so events of one object are reordered.
- Updates that remove derived rules.
- A watch that breaks and relists: an object deleted meanwhile comes back as a `DeletedFinalStateUnknown` tombstone, which the unchecked type assertion at `controller.go:112` cannot convert.
- Shutdown: `run()` never returns, so stopping depends on the ticker being stopped and the last tick draining.
- Validation that stops early or never looks: `ValidateParentAndDrain` returns early, and `Service.Validate` never checks the hostname's length.
- Range bounds: `ValidateDurationRange` accepts both bounds while its message says strictly between, and `ValidateCIDRBlock` must accept /32 and refuse /33.

`PROJECT.json` lists each of these as a hazard at its source line.

## Modules

- `ConfigDiff`: `Config` is abstracted to a key and a content value. The content stands for everything `reflect.DeepEqual` compares.
  - `Normalize` is the key sort.
  - `MergeWalk` is the loop of `compareToCache`, written as a RECURSIVE operator. Its cursor arguments show the `in--`/`io--` backtracking. The two trailing loops are the `Tagged` tails.
  - `ReferenceDiff` is the reference definition: the minimal per-key edit script in key order.
- `ConfigsMonitor` EXTENDS `ConfigDiff`. Each variable is a field of `configsMonitor`, except these:
  - `store` stands for the `ConfigStore`.
  - `seen` is each handler's view, built only from its events.
  - `tickReady` is the ticker channel's one-slot buffer.
  - `next` is the position in `UpdateConfigRecord`'s loop, where 0 means `run()` is in its select.
  - `listed` holds the types listed in the current tick.
  - `writes` is a bound on store writes.

  The actions are `AppendEventHandler`, `Start`, `TickerFires` (the time.Ticker), `RecvTick` and `RecvStop` (the two select cases), `ListOk(i)` and `ListFails(i)` (one loop iteration of `UpdateConfigRecord`), `CloseStop` and `StoreWrite`. `ListOk` is one atomic step: List, normalize, diff, the handlers, then the cache assignment. The monitor goroutine is the only one that reads or writes that state.
- `IngressController` has these variables:
  - `api` is the API server's objects.
  - `watch` is the informer's pending notifications.
  - `initPending` is the initial list that is not yet delivered, which drives `HasSynced`.
  - `istore` is the informer cache.
  - `queue` and `delayed` are `kube.Queue` and its pending retries.
  - `view` is the registered consumer's rules.
  - `pushed`, `applied` and `lastApplied` are bookkeeping for the properties.

  `running` and `stopped` follow `Run(stop)`. The actions are:
  - `Run`: the informer's initial list and watch start, along with the queue goroutine.
  - `Stop`: the stop channel closes, and the informer and queue goroutines return.
  - `ApiWrite`, `InformerDeliver` (the Add/Update/Delete funcs of lines 73-86, including the skip of identical updates), `QueueProcess` and `RetryFires`.

  `QueueProcess` runs the chain: the sync gate (`ChainApply`, lines 88-98), then the `RegisterEventHandler` step (lines 110-132). `Get` and `List` are operators over `istore`, and each checks the type first. `ConfigDescriptor`, `Post`, `Put` and `Delete` are operators too: the last three always return `errUnsupportedOp`.

  `kube.Queue`, `ChainHandler`, `shouldProcessIngress` and `convertIngress` are outside `src/`. They are modelled from the spec and marked `spec_modelled` in the map.

- `Validation` models the validators of `model/validation.go` as pure operators. Each one returns the set of errors it appends.
  - An error is a path of tags. The first tag names the field its message is about, and `multierror.Prefix` prepends a tag.
  - A string is its dot-separated segments. Each segment is its length, whether the DNS-label regex matches it, and what `strconv.Atoi` gives.
  - A duration counts half milliseconds, so an odd count is not a whole millisecond. `Nil` is a nil or unrepresentable proto Duration.
  - In a route rule, the match, timeout, retry and fault sub-messages are checked by their own validators, under the field's prefix.
  - Reference definitions state the spec's rules field by field: `MeshRules`, `RouteRules`, `DescriptorViolations`.

- `HandlerMirror` is the abstract specification of what a config store cache promises its handlers (spec sections 4.2 and 9).
  - Its state is the store, the handler lists and each handler's view.
  - `Sync(t)` moves every handler of type `t` at once to the store's configs of `t`.
  - A handler registers only while its type has told its handlers nothing.
  - `ConfigsMonitor` instantiates it with `views <- seen`. The run `monitor_safety` checks `ImplementsHandlerMirror == Mirror!Spec` as a PROPERTY: a `ListOk` step is a `Sync`, and every other step of the monitor is a stutter, a `Write` or a `Register`.
- **Watch failure** (`IngressController`):
  - `WatchBreaks` ends the watch with an error (an API server restart, or 410 Gone for an expired resource version), after which the reflector lists again. From then on, `ApiWrite` no longer notifies (`Notify`). A watch that merely times out is re-opened without a list and loses nothing, so it is not modelled.
  - `Relist` is the reflector's relist followed by `DeltaFIFO.Replace`. Each object in the API becomes an Add or an Update, depending on the informer cache. Each object the cache holds but the API no longer has becomes a Delete whose object is a tombstone (`ReplaceDelta`). The two groups come in any order. The model takes a relist only once the informer has handed on every earlier notification (`watch = <<>>`), a sub-case of the reflector: a `Replace` onto notifications still queued is left out.
  - `Panics` is the unchecked `obj.(*v1beta1.Ingress)` at line 112.
  - A tombstone task makes `QueueProcess` set `crashed`. Nothing recovers from the panic, so after a crash the informer and the queue take no step.
- **Validation** covers every validator of `validation.go`:
  - timeouts, retries, HTTP faults (delay, abort, throttle, terminate) and L4 faults;
  - match conditions: source FQDN, tags, L4 attributes with `ValidateIPv4Subnet`/`ValidateCIDRBlock`, and HTTP headers;
  - ingress rules, circuit breakers and destination policies;
  - `Service` and `ServiceInstance.Validate`;
  - `ValidateConfig`'s dispatch: a nil payload, then an undeclared type, then a payload that is not a proto, then a message mismatch, and only then the kind's validator.

  The reference definitions are `MatchRules`, `RouteRules` with its sub-message rules, `IngressRuleRules`, `PolicyRules`, `EnvelopeViolations`, `ServiceRules` and `InstanceRules`. The proto registry, `PortList.Get` and the oneof accessors are outside `src/`, so they are modelled from the spec.

The MC modules (`MCConfigsMonitor`, `MCIngressController`, `MCValidation`) give the constants as model values and small sets. `MCValidation` also instantiates `ConfigDiff` with keys 1..3, so the one run over pure operators checks the diff as well as the validators.

## Runs

| Run | Expect | What it shows |
|---|---|---|
| `monitor_safety` | pass | Every handler's replay of its events equals the cached snapshot, through failed Lists, concurrent writes and stop (TypeOK also checks that the cache is sorted). The monitor implements `HandlerMirror` |
| `monitor_liveness` | pass | Once writes stop, every handler eventually holds exactly the store's content. Once stop is closed, the ticker is eventually stopped and the last buffered tick drains (`StopQuiescesMonitor`), so the loop that never returns lists nothing more |
| `monitor_partial_failure` | violation | A List error on the first type ends the tick, so the second type is not listed. Spec section 4.2 says a failing kind is skipped and the other kinds go on |
| `monitor_dispatch_after_stop` | violation | A tick buffered before `ticker.Stop()` is received after stop and dispatches events (spec section 5). `run()` also never returns |
| `ingress_safety` | pass | `Get` and `List` agree on every rule of every type in every state: through writes before and after the sync, a broken watch, its relist and a stop. `TypeOK` also checks that the count-down of the initial population never goes below zero |
| `ingress_watch_failure` | violation | The watch breaks, an ingress is deleted, and the relist delivers a tombstone. The unchecked type assertion at `controller.go:112` panics and the process dies. Spec section 7 says watch failures are survived |
| `ingress_liveness` | pass | Every pushed task, including the ones gated before the sync, is eventually applied |
| `ingress_retry_reorder` | violation | The initial Add of an ingress is gated before the sync and waits out its retry delay. The Delete of the same ingress, which arrived later, is applied first, and the stale Add after it. The trace's ingresses carry no rules; with rules, the handler would keep the rules of a deleted ingress |
| `ingress_update_gap` | violation | An update that drops a rule leaves the rule at the consumer forever (the TODO at `controller.go:118`) |
| `validation` | pass | For all 729 pairs of snapshots over keys 1..3 and two contents, `compareToCache` equals the minimal edit script. Over 40,320 mesh configs, `ValidateProxyMeshConfig` never blames a valid field, and checks each duration against its own field's range. Over route rules with their timeout, retry, fault and match sub-messages, `ValidateRouteRule` names exactly the invalid fields, including weights, redirect conflicts and a throttle without a period. Over 1,333 registries, `ConfigDescriptor.Validate` reports every violation. `ValidateMatchCondition` names exactly the invalid fields, including the CIDR prefixes 1 and 32 (accepted) and 0 and 33 (refused; /0 as the code does, since the spec has no prefix rule). `ValidateConfig` reports exactly one envelope error, or the kind's errors. `Service` and `ServiceInstance.Validate` name exactly the invalid fields |
| `validation_mesh_aggregation` | violation | The inputs are the mesh configs with a nil drain duration, a 1ms parent duration and a refresh delay of exactly 1s. `ValidateParentAndDrain` returns before it checks the parent duration, so the parent (not whole seconds) goes unreported; spec sections 4.1 and 8 promise aggregation. The 1s refresh delay is accepted too, although `ValidateDurationRange`'s own message says the value must be strictly between 1s and 10m. The reference takes the message's strict reading: the spec gives no range |
| `validation_service_hostname` | violation | `Service.Validate` accepts a hostname of 256 characters made of valid labels. Spec section 4.1 bounds host fields at 255, and `ValidateFQDN` enforces that bound for every other host field. The passing run includes a hostname of exactly 255 characters |

Each property of a passing run has a mutant in `PROJECT.json`: a plausible bug in the mapped code that TLC catches.

### Bounds

- **Diff:** keys 1..3 and two contents. Every relative order of old and new keys that has up to three keys occurs, including a delete before an add, an add before a delete, and both tails.
- **Monitor:**
  - Two config types, so that a failure on the first type can skip the second.
  - Two keys and two contents.
  - Two handlers, with symmetry over contents and handlers. Symmetry is sound because no property names an individual handler or content.
  - At most 3 store writes. The liveness run allows 1 write, has one handler and has no symmetry. Every handler of a type is called with the same events, so one handler is enough for liveness.
- **Ingress:**
  - Two ingresses, two rule ids, one spec.
  - An Istio class and one other class, so that the class filter matters.
  - At most 2 API writes. The liveness run uses 3 writes with one rule and one class, to stay under five minutes.
  - `CanStop` is TRUE only in `ingress_safety`. The other runs ask what happens while the controller runs. A write after stop is not observed by the process, so `ApiWrite` is disabled after stop.
  - At most one broken watch and one relist (`MaxRelists`). The runs about the retry order, the update gap and liveness allow none, so their traces stay about their own question.
  - `ingress_safety` uses symmetry over ingress names and rule ids. No property of that run names an individual ingress or rule.

  The ingress runs set `CHECK_DEADLOCK FALSE`. Once every write is made and every task is applied, or once stop is closed, the controller only waits. A final state with nothing to do is the normal idle state of the informer and queue goroutines, not a deadlock.
- **Validation:** each run starts at every input of a set and stutters, because a validator is a pure function.
  - Mesh configs: the discovery address varies over seven forms (unset, an FQDN, an IPv4 address that is not an FQDN, a bad host, no colon, an unparsable port, port 0). The durations sit at and around every bound: nil, 0.5ms, 1ms, 1s, 5s, 45s, 11m, 2h. A refresh delay of 45s lies inside the refresh range and outside the connect-timeout range.
  - Route rules: every list of at most two destination weights from {-50, 0, 40, 60, 100, 150}, plus a bad host and a bad tag, combined with each redirect/rewrite/fault combination.
  - Registries: every registry of at most two kinds. Two is the smallest size with a duplicate.
  - Match conditions: subnets with 1 to 3 parts and the prefix lengths 0, 1, 32, 33 and a non-number. Headers include `uri` and a cookie header, each with an empty match and a set match.
  - Services: hostnames that are empty, valid, upper-case and exactly 255 characters long; ports that are named, unnamed and badly named; and instances whose port is declared or not.

### Fairness

- **Monitor:**
  - `Start` is called by its owner.
  - A running time.Ticker keeps ticking (WF).
  - `run()` is the only receiver of ticks (WF on `RecvTick`).
  - Go's select chooses uniformly among its ready cases. A closed stop channel is ready whenever `run()` is back in its select, so it is eventually chosen (SF on `RecvStop`).
  - A store outage is transient (spec section 7). Because each failure ends the tick, a List that is retried over and over must eventually succeed. That is strong fairness on each `ListOk(i)`.
- **Ingress:**
  - The program calls `Run` (WF). Nothing forces the owner to close stop.
  - The informer delivers pending notifications (WF).
  - The queue goroutine runs queued tasks (WF).
  - A retry timer fires (WF).

## Not modelled

1. Handlers registered after `Start` (the monitor) or after `Run` (the controller's chain). Either is a data race: on a Go map, or on the chain's slice. TLC cannot model a data race, and spec section 5 forbids late registration. The mutant `AppendEventHandler_AfterStart` shows that `HandlersAgreeWithCache` and `ImplementsHandlerMirror` would catch a late handler.
2. Composing the two adapters, for example a monitor that polls the ingress store. The repository never connects them: each one feeds its own consumers.
3. The informer's periodic resync (`options.ResyncPeriod`). It calls UpdateFunc with the cached object as both old and new, and the DeepEqual check at line 79 drops that call. So a resync never reaches the queue and changes nothing the model observes.
