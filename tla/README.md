# TLA+ models of arti components

The repository contains nine source files from arti, a Rust implementation of
Tor. Each comes from a different crate. This directory holds TLA+ models of the
stateful, concurrent parts of those files and the TLC configurations that check
them. `PROJECT.json` lists, for every definition, the source lines it models.

## Inventory

| Component | Source | State | Operations | Hard behaviour |
|---|---|---|---|---|
| Conflux client leg | `tor-proto/.../conflux/msghandler/client.rs` | `ConfluxState` (Unlinked / AwaitingLink(nonce) / Linked), `link_sent`, `init_rtt`, `last_seq_recv/sent` | `note_link_sent`, `handle_msg` → LINK / LINKED / LINKED_ACK / SWITCH handlers, `inc_last_seq_*`, `status`, `handshake_timeout` | adversarial cells from any hop; replayed or forged LINKED; non-monotonic wallclock (RTT fallback) |
| Circuit hop | `tor-proto/.../circuit/circhop.rs` | per hop: the `StreamMap` (Open / EndReceived / EndSent entries), congestion control, the round-robin order | `begin_stream`, `close_stream`, `handle_msg`, `deliver_msg_to_stream`, `add_ent_with_id`, `ending_msg_received`, `ready_streams_iterator`, `take_capacity_to_send` | half-closed streams; SENDME interception; a full sink or a dropped reader; congestion window; fairness of the round robin |
| HS descriptor publisher | `tor-hsservice/src/publish/reactor.rs` | `PublishStatus` watch, `last_uploaded`, per time period: the HsDir statuses, `last_successful`; reupload timers; config and authorized clients | `run_once` branches (upload results, rate-limit expiry, reupload timers, consensus, IPT, config, key-dirs, publish-status, PoW), `upload_all`, `upload_for_time_period`, `upload_descriptor_with_retries`, `handle_upload_results` | spawned upload tasks racing the reactor; results applied in batches and late; rate limit; revision counters from the wallclock; lost acknowledgements |
| Channel manager state | `tor-chanmgr/src/mgr/state.rs` | the channel table: Open and Building entries keyed by relay ids, `UniqPendingChanId` | `request_channel`, `remove_pending_channel`, `upgrade_pending_channel_to_open`, `reconfigure_general`, `expire_channels` | concurrent requests for a target; a stale handle; failure between removal and insertion; expiry edge at zero |
| Vanguard manager | `tor-guardmgr/src/vanguards.rs` | the L2/L3 vanguard sets, mode, persisted copy | `run_once` (netdir events vs the expiry sleep), `rotate_expired`, `update_vanguard_sets`, `flush_to_storage`, `reconfigure`, `select_vanguard` | timer vs event races; restart between an update and a flush |
| Reverse proxy | `tor-hsrproxy/src/proxy.rs` | the config and the shutdown channel; per request a task; per connection two copy tasks | `handle_requests`, `choose_action`, `run_action`, `forward_connection`, `copy_interactive` | flush on reader stall; close only on clean EOF |
| Dynamic time provider | `tor-rtcompat/src/dyn_time.rs` | none | forwarding wrappers | its wallclock is not monotonic (used by the conflux leg) |
| Dummy keystore | `tor-keymgr/src/dummy.rs` | none | every operation fails or is empty | none |
| `hsc` subcommand | `arti/src/subcommands/hsc.rs` | none of its own (the keystore is in arti-client and tor-keymgr) | CLI plumbing: key rotation, then writing the key out | a rotation that succeeds before the output fails |

### How the components interact

- **Conflux leg.** The tunnel reactor calls the leg's handler with every conflux cell and with the LINK send time. Any `Err` it returns tears the leg down. The reactor observes the leg only through `status()` and the `ConfluxHandshakeComplete` command.
- **Circuit hop.** The reactor drives `CircHop` through two paths:
  - Inbound: relay messages from the peer arrive via `handle_msg`.
  - Outbound: it takes one ready item per iteration from `ready_streams_iterator`.

  The local users share the `StreamMap` through a mutex: they queue messages, drop senders and read sinks.
- **Publisher.** The reactor task owns `Inner` behind a mutex and spawns one upload task per time period. Each upload task:
  - reads the IPT set through the IPT manager's shared view;
  - builds one descriptor per HsDir;
  - sends its batch of results back over an mpsc channel.

  The `publish_status` watch is both written and read by the reactor itself. It is one of the branches of `select_biased!`.

  The reactor also reports the service State on `status_tx`. `update_publish_status` sends Bootstrapping for every status except Idle. `upload_result_to_svc_status` sends the State derived from the upload results, but only after upload results or a consensus change. `upload_all` sends Broken when there are no usable clients.
- **Reverse proxy.** `handle_requests` spawns one task per stream request. For a forwarded request, `forward_connection` spawns two `copy_interactive` tasks, one per direction. Those tasks outlive the request task and are not stopped by `shutdown`.

### Properties each component needs

- **Conflux leg:**
  - Only the join point, with our nonce, can link the leg.
  - The handshake completes at most once.
  - The leg's status never goes backwards.
- **Circuit hop:**
  - At most one END is sent per stream, and none after the peer's END.
  - Windows and sinks stay within their bounds, and no SENDME reaches a sink.
  - No starvation.
- **Publisher:**
  - Every dirty period of an upload round gets a task.
  - A Clean HsDir holds our current descriptor.
  - No two different descriptors share one revision counter.
  - A scheduled upload eventually happens.
  - Once the reactor has settled, the reported service State matches the upload results.
- **Channel manager:**
  - At most one pending channel per target.
  - A handle removes only its own entry.
  - Upgrade failures do not lose channels.
- **Vanguards:**
  - The task never sleeps past an expiry.
  - The persisted sets match memory once the task has settled in full mode.
  - Expired vanguards are eventually rotated.
- **Reverse proxy:**
  - Shutdown wins over a busy request stream.
  - A copy task flushes before waiting on a stalled reader.
  - It closes the writer only after a clean EOF.

## Modules

**`ConfluxLeg`** is the abstract life cycle of a leg. It goes Unlinked → Pending → Linked, with a fatal `Abort`.

**`ConfluxClient`** models `ClientConfluxMsgHandler`.
- The state variables are the handler's fields.
- `ReceiveConfluxCell(hop)` is `handle_msg` with the source-hop check. It dispatches to the four cell handlers:
  - `HandleConfluxLinked(hop, n)` quantifies over nonces.
  - `HandleConfluxSwitch(k)` quantifies over sequence deltas.
- `Fail` is any `Err`, and it closes the leg. Every `Err` of the handler is an early return before any field is written, so `Fail` leaves the handler's fields alone.
- `ClockJump` sets the wallclock to any reading.
- `ImplementsConfluxLeg` checks refinement through `INSTANCE ConfluxLeg WITH status <- Status`.

**`CircHop`** models one or more hops. For each hop and stream id, `streams[h][id]` holds two things:
- the `StreamMap` entry: `kind`, `dropped`, the window `swin`;
- the local user's view: the sink, reader liveness, queued messages and EOF.

Its actions:
- `ServeHop(h)` is one item of `ready_streams_iterator`. A `Send` item ends in `take_capacity_to_send`; a `Close` item ends in `close_stream`.
- `HandleMsg(h, id, cmd, counts)` is `handle_msg` for a peer message on any id. Its cases are:
  - Open → `deliver_msg_to_stream`;
  - EndSent → absorbed;
  - absent → BEGIN accepted, anything else a protocol error.
- `CircuitSendme` and `GoodStreamSendme` are the peer's acknowledgements.

Two bookkeeping fields are not in the code and serve only the properties:
- `served` flips each time the scheduler takes the stream.
- `ends` and `peerEndFirst` count END cells per incarnation.

**`PublisherReactor`** models the reactor, its upload tasks and the HsDirs. Descriptors are abstracted to `[rev, ipt, cfg]`:
- `rev` is the revision counter, the wallclock second of the build;
- `ipt` is the IPT-set version read at the build;
- `cfg` is the config/clients version captured when the task is spawned.

Each `run_once` branch is one action, guarded by the priority of `select_biased!` where it matters (`StatusBranchSelectable`). The upload tasks are split into three actions:
- `BuildDescriptor`: a build per HsDir, or abort with NoIpts;
- `UploadDescriptor`: one upload with retries, where the HsDir may keep the descriptor whatever the acknowledgement says;
- `FinishUploadTask`: the batch is sent.

`UploadTaskStep` groups the three task actions for fairness.

The reported service State is two variables:
- `uploadRes[tp]` holds the `is_ok()` of each entry in the period's `upload_results`. `HandleUploadResults` sets it, and `HandleConsensusChange` keeps it only for periods still relevant (`TimePeriodContext::new`).
- `svcState` is the last State sent on `status_tx`. `OnionStatusOf` is the send in `update_publish_status`. `UploadResultState` is `upload_result_state`, where the first relevant period is the current one. `upload_all` sends Broken.

The publisher never reads either variable. The main run therefore uses `VIEW ReactorView` (in `MC_PublisherReactor`), which leaves them out, so they do not multiply its states. This is exact for every property that does not mention them.

The environment adds `IptManagerUpdate` and `TimePasses`. `TimePasses` moves the wallclock one second forward, or, when the constant `ClockCanJumpBack` is TRUE, sets it back to any earlier second (`WallclockAfter`). The rate limit (`recent`) counts in the reactor's monotonic clock, so a backwards jump leaves it alone.

**`ChanMgrState`** models `MgrState` of tor-chanmgr.
- `chans[u]` is the table entry a `UniqPendingChanId` or an open channel occupies: `NoEntry`, `Building` with its relay ids, or `Open` with its padding parameters, usability and idle time.
- `handles` are the `PendingChannelHandle`s held by builder tasks.
- Each `MgrState` method is one action, atomic as it runs under one lock acquisition:
  - `RequestChannel(t)` is `request_channel`: reuse an open channel, wait on a pending one, report a conflict, or add a pending entry and a handle;
  - `RemovePendingChannel(h)` is `remove_pending_channel`;
  - `UpgradePendingChannelToOpen(h, ...)` is `upgrade_pending_channel_to_open`. A failed `reparameterize` (a dead channel) removes the pending entry and inserts nothing;
  - `ReconfigureGeneral(cfg, dorm, nd)` is `reconfigure_general` with `parameterize` and `padding_parameters`, modelled by what they compute. `nd` is a record of the consensus parameters. `NetParamsExtract`, `PadGet` and `KistModeFromNetParameter` convert it as the code does: `nf_ito` is indexed by reducedness and then by low/high, and `kist_enabled` 0/1 becomes a KIST mode;
  - `ExpireChannels` is `expire_channels` with `ready_to_expire`.
- The channels themselves act through `ChannelClose`, `ChannelIdle` and `ChannelUsed`, and time through `Tick`.

**`VanguardMgr`** models the vanguard manager and its maintenance task.
- State:
  - `sets` is `Inner.vanguard_sets`, `mode` is `Inner.mode`, and `disk` is the state file.
  - `phase` says where the task is: at the top of `run_once`, waiting in `select_biased!`, or stopped after an `Err`.
  - `wake` is when the sleep future fires.
- The task's actions:
  - `RotateExpired` is `rotate_expired` and the sleep duration.
  - `TimelyNetdir` is the set of results `timely_netdir` may give: `Some` when the netdir is timely, otherwise `None` (NoInfo, NotEnoughInfo) or, when `DirCanErr` holds, an `Err` that ends the task. Which netdir states give which error is decided in tor-netdir, outside this repository, so both are allowed.
  - `NetdirBranch`, `ConfigBranch` and `SleepBranch` are the three branches, in the priority order of `select_biased!`.
  - `UpdateVanguardSets` and `FlushToStorage` are the `Inner` methods they call.
- The other actions:
  - `Reconfigure(m)` is `reconfigure`.
  - `Restart` is a process crash followed by `VanguardMgr::new`, which loads the file and drops expired vanguards.
  - `NewConsensus`, `DirLapse` and `Tick` are the environment.
- `VanguardSets` (set.rs) is not in the repository. Its operations are modelled from their names and from how `vanguards.rs` uses them:
  - `remove_expired` drops every vanguard whose expiry is at or before now;
  - `replenish_vanguards` fills L2 in lite and full mode, and L3 only in full mode, with listed relays not already in the set.

**`ReverseProxy`** models `OnionServiceReverseProxy`.
- `HandlerSelect` is one iteration of the loop in `handle_requests`. The shutdown receiver is polled first; then the next request is dispatched (`Dispatch`: `choose_action` under the config lock and the spawn of the request task), or the loop returns when the stream has ended.
- A request task holds one of `Slots`:
  - `RunAction` is `run_action`;
  - `ForwardConnection` is `forward_connection`. All of its outcomes end the task: a failed connect with its DONE rejection, a failed accept, or the two copy tasks spawned.
- `Reconfigure` and `Shutdown` are the user's calls. `NewRequest` and `StreamEnds` are the client side.

**`CopyInteractive`** models one `copy_interactive` task: one direction of a forwarded connection.
- `PollRead` is the `poll!` of the read. Data is written; a pending read makes the task flush before it waits.
- `AwaitRead` is the `read_future.await`.
- `FinishLoop` is the close (after a clean EOF) or the flush (after an error), returning `loop_result.or(flush_result)`.
- The reader's peer sends, ends or fails, or stays silent for ever. The writer may send buffered data on its own, and any I/O call may fail.

**`HsrProxy`** composes `ReverseProxy` with `CopyInteractive` through `INSTANCE`.
- `ForwardConnection(s)` extends the request task's `forward_connection` with its outcome. For the first connection whose connect and accept succeed, `spawned` records which copy tasks `runtime.spawn` started:
  - both;
  - none, when the first spawn fails;
  - only local-to-service, when the second spawn fails.

  Later forwards end their request task without being followed.
- `CopyStep` polls the local-to-service task (`L2S`) once it is spawned. `StreamsStep` is the local target writing and the onion stream sending, once the connection is accepted.
- The service-to-local task runs the same `copy_interactive` on the other, independent halves of the two streams, so only its spawn is recorded.

## Runs

| Run | Config | Expect | What it shows |
|---|---|---|---|
| `conflux_client` | `ConfluxClient.cfg` | pass (792 states) | Against arbitrary cells, nonces, SWITCH deltas and clock jumps: linked only via our nonce from the join point; at most one handshake completion; refines `ConfluxLeg`. |
| `circ_hop` | `CircHop.cfg` | pass (about 161k states) | With two streams, half-closing, a full sink and a dropped reader: no redundant END; the windows and sinks stay within bounds and hold no SENDME (`TypeOK`); every queued stream is eventually served. |
| `publisher` | `PublisherReactor.cfg` | pass (about 255k states in the view) | Across all interleavings of events, one config, key-dir or PoW event and the upload tasks: no revision-counter clash while the wallclock only moves forward (the rate limit works); a Clean HsDir holds a descriptor; under weak fairness of the reactor's own branches, an `UploadScheduled` status is always eventually served. |
| `publisher_clock_back` | `Publisher_ClockBackSameRevision.cfg` | violation | A wallclock set backwards re-issues a revision counter for a different descriptor. The rate limit runs on the monotonic clock and cannot prevent it (reactor.rs:1588). |
| `publisher_upload_all_early_return` | `Publisher_UploadAllServesEveryDirtyPeriod.cfg` | violation | `upload_all` skips a dirty time period after a clean one (reactor.rs:1389). |
| `publisher_stale_clean` | `Publisher_CleanHsDirIsUpToDate.cfg` | violation | A late result of an old upload marks an HsDir Clean after a config or IPT change, so the outdated descriptor stays (reactor.rs:922). |
| `publisher_settled_status` | `Publisher_SettledStatusIsCurrent.cfg` | violation | After the rate limit expires with nothing left to upload, the service keeps reporting Bootstrapping though its upload results give another State (reactor.rs:1166). |
| `chan_mgr_state` | `ChanMgrState.cfg` | pass (about 240k states) | Under concurrent requests, stale handles, failed upgrades, reconfiguration and expiry: pending entries and live handles correspond one to one; no pending build is redundant with another; every open channel uses the current padding parameters; `expire_channels` never returns a zero wake-up delay; an idle channel is eventually expired. |
| `vanguard_mgr` | `VanguardMgr.cfg` | pass (about 3.1M states) | With store errors, netdir lapses and errors, mode switches and restarts, two things hold. The task never sleeps past a vanguard's expiry. In full mode, a settled task has persisted exactly the sets in use, even after a switch from lite mode. |
| `vanguard_liveness` | `VanguardLiveness.cfg` | pass | Without failures, an expired vanguard is always eventually removed. |
| `vanguard_store_error` | `Vanguard_StoreErrorStopsRotation.cfg` | violation | One failed store of the state file ends the maintenance task, and expired vanguards then stay forever (vanguards.rs:519). |
| `hsr_proxy` | `HsrProxy.cfg` | pass | The request loop and the copy task of a forwarded connection run together, with every connect, accept, spawn and I/O failure. `handle_requests` returns after `shutdown` while a client keeps sending requests. The copy task never waits on the local target while data it read is unsent. Every chunk it reads is eventually sent unless the task returns, also after a shutdown or a failed second spawn. It closes the onion stream only after a clean EOF, with everything sent. |

### Findings

1. **`upload_all` returns early.**
   - In `upload_all`, `if hs_dirs.is_empty() { return Ok(()) }` exits the loop over time periods.
   - The documentation promises a task for each current time period, and `continue` is what would deliver it.
   - TLC's trace, in 11 states:
     1. The IPTs arrive and upload round 1 covers period 1.
     2. A consensus adds period 2, all Dirty.
     3. Period 1's result marks it Clean.
     4. The next `upload_all` stops at period 1, so period 2 gets nothing.
   - Period 2 is left without a descriptor until a reupload timer fires.
2. **Stale Clean.**
   - TLC's trace:
     1. An upload task is spawned with config version 0.
     2. The service config changes: everything goes Dirty and an upload is scheduled.
     3. The scheduled upload is rate-limited.
     4. The old task then succeeds, and `handle_upload_results` marks the HsDir Clean.
     5. When the rate limit expires, `upload_all` finds nothing Dirty.
   - The comment in `upload_for_time_period` (reactor.rs:1550) says an HsDir cannot be left with an outdated descriptor, and this trace contradicts it.

3. **A store error stops vanguard rotation.**
   - `flush_to_storage` propagates the error of `storage.store` with `?`.
   - `maintain_vanguard_sets` then logs "Vanguard manager crashed" and leaves its loop.
   - TLC's trace, in 5 states:
     1. A consensus arrives in full mode.
     2. `rotate_expired` replenishes the sets, and the store fails.
     3. One tick later the vanguards have expired, and nothing ever removes them.
   - The task's doc comment says it removes vanguards when they expire.
   - The netdir branch has the same effect through `netdir(Timely)?` (vanguards.rs:379). The other paths map a missing netdir to `None`.
4. **Stale comment (no run).** The comment on `Inner.vanguard_sets` says changes made in lite mode are not persisted after a switch to full mode. The code does persist them once the task handles the config change with a timely netdir, because `update_vanguard_sets` always flushes in full mode. `PersistedSetsMatch` checks that behaviour.

5. **Revision counters from a wallclock set back.**
   - The comment on `last_uploaded` (reactor.rs:405-411) says the rate limit stops the publisher from generating two different descriptors with the same revision counter.
   - `last_uploaded` is a monotonic `Instant`, but the counter comes from `runtime.wallclock()` (reactor.rs:1588).
   - TLC's trace, in 12 states:
     1. The IPTs arrive, and an upload stores a descriptor with counter 0 and config 0.
     2. The config changes while the next upload is rate-limited.
     3. The wallclock moves to 1, and is then set back to 0.
     4. The rate limit expires, and the new upload builds a descriptor with config 1 and counter 0 again.
   - The HsDir already holds counter 0 for a different descriptor, which is the clash the comment says cannot happen. The same clash happens whenever the clock is set back by more than the rate-limit period.

6. **The reported State stays Bootstrapping.**
   - `update_publish_status` sends Bootstrapping for UploadScheduled, AwaitingIpts and RateLimited, and nothing for Idle (reactor.rs:1166).
   - The State of the upload results is sent only after results (reactor.rs:747) or a consensus change (reactor.rs:946).
   - TLC's trace, in 13 states:
     1. The IPTs arrive, and an upload task for period 1 is spawned.
     2. A consensus with the same period schedules an upload, and the upload is rate-limited.
     3. The task's result arrives and the State becomes DegradedUnreachable.
     4. The rate limit expires. `expire_rate_limit` sets UploadScheduled, which sends Bootstrapping.
     5. `upload_all` finds every HsDir clean, and the reactor goes Idle.
   - Nothing is in flight, so Bootstrapping stays until a later upload or consensus. Yet every HsDir holds the current descriptor.
   - With two relevant periods, the same sequence hides a Running service behind Bootstrapping.
   - Only the reported status is wrong. The publisher's own decisions do not read it.

7. **Swallowed copy errors (no run).** `copy_interactive` returns `loop_result.or(flush_result)`. That is `Ok` whenever the loop ended cleanly, even if the close failed, and also when the loop failed but the flush succeeded. `forward_connection` discards the result (`.map(|_| ())`), so in this crate nothing depends on it. The model keeps the returned value, but no property is stated about it.

## Bounds

- **ConfluxClient:**
  - two hops and two nonces (ours and a forgery);
  - three wallclock readings, so the clock can go back;
  - SWITCH deltas 0..2 (0 is the rejected one).
- **CircHop:**
  - one hop with two streams, so the round robin and id reuse both happen;
  - every window and capacity is 1, so each limit is hit on its first use.
- **PublisherReactor:**
  - two time periods with one HsDir each;
  - the consensus may make period 1 or both relevant;
  - one wallclock tick, which is enough for two builds to share a revision counter and for the rate limit to expire (the clock-back run uses two ticks: the `now < MaxNow` guard needs room for the clock to go forward and come back);
  - one IPT change and one config change;
  - at most two tasks in flight;
  - one PoW seed update in the main run, and none in the violation runs. The PoW manager sends one when it rotates a period's seed. The PoW branch is the last one of `select_biased!`, so it cannot delay the other branches;
  - `MaxDirtyEvents = 1`: a run takes either one config (or key-dir) change or one PoW seed update, not both. Both kinds of event mark descriptors dirty and call `upload_all`, and each is explored against every interleaving of the other events and the tasks. Allowing both in one run doubles the state space (557k states), and with the liveness check and coverage that no longer finishes within five minutes.

  Both violations appear within these bounds. Larger bounds (2 ticks, 2 IPT changes) exceed 3M states.
- **ChanMgrState:**
  - two `UniqPendingChanId`s; two relays, one with two ids;
  - three targets, so subset, superset and conflicting requests all occur;
  - two netdirs whose padding parameters differ. One of them has low > high, which exercises the defaulting in `padding_parameters`;
  - time counts 90-second units. `max_unused_duration` (180..270 s) becomes 2 or 3 units, and idle time is capped at 3. The code draws from 180..270 s, which excludes 270 s. So 3 units (270 s) is one value wider than the code; that only adds behaviours, and 2 units alone would lose the channels that outlive a 180 s one.
- **HsrProxy:**
  - two ports and two configs that between them give every action, including a missing rule;
  - requests of either command on either port;
  - one request-task slot. No property relates two request tasks, and two slots with the copy task reach 1M states;
  - up to three chunks on the followed connection. This is enough for a write before a stall, a flush, and more data after it.
  - A slot is freed when its task finishes, and a request waits while the slot is busy. The task is weakly fair, so the slot always becomes free again.
- **VanguardMgr:**
  - three relays, and consensuses that list all of them or drop one;
  - an L2 target of 2 and an L3 target of 1, so replenishment and partial expiry both happen;
  - lifetimes of 1 or 2 ticks and a wallclock up to 2, so vanguards expire at different times while the task waits.
  - netdir errors other than NoInfo and NotEnoughInfo (`DirCanErr`) in the safety run only; the liveness runs exclude every failure but the one they study.
  - The liveness run uses an L2 target of 1 to keep the graph small. A target of 2 with wallclock 3 reaches 9M states.

## Fairness

- **CircHop:** weak fairness on `ServeHop`, `CircuitSendme` and `GoodStreamSendme`.
  - The reactor loops on `ready_streams_iterator` whenever an item is ready.
  - The peer's circuit SENDMEs are the acknowledgements the congestion window waits for, and a correct peer sends them.
- **ChanMgrState:** weak fairness on `ExpireChannels` and `Tick`. The channel manager's expiry task loops on `expire_channels`, sleeping for the duration it returns, and time advances.
- **VanguardMgr:** weak fairness on the task's steps together. The runtime polls the spawned task whenever one of its futures is ready. Restarts, reconfigurations and consensuses get no fairness.
- **HsrProxy:** weak fairness on the request loop, on each request task and on the copy task. They are spawned futures that the runtime polls whenever they are ready. The clients, the peers, the writer's own sending and the user's calls get no fairness.
- **PublisherReactor:** weak fairness on `HandleUploadResults`, `ExpireRateLimit`, `HandleIptChange`, `HandlePublishStatus`, `UploadTaskStep` and `TimePasses`. These branches are fed by the reactor itself, its spawned upload tasks and the IPT manager, and `select_biased!` takes a ready branch whenever the reactor is polled. Consensus, config, key-dir and PoW events come from outside and get no fairness: the property is that they cannot starve a scheduled upload.
- **ConfluxClient:** no fairness; only safety and refinement are checked. The handler reacts to cells and has no progress of its own to promise.

## Assumptions

- **Upload futures start at once.** An upload task builds its descriptors before the wallclock moves on. `buffer_unordered` starts every future at once, and `TimePasses` waits for every build.
- **Reupload timers may fire at any moment.** This over-approximates their 60-120 minute delay.
- **Fixed HsDir rings.** The rings of each time period are fixed, and `recompute_hs_dirs` is not modelled.
- **One config version.** Config and authorized clients together form one version, `cfgVer`.

## Not modelled

1. **XON/XOFF flow control.** A CircHop run whose hop has `UsesStreamSendme` FALSE passed when tried (about 42k states). It is not kept as a run: it would only recheck `NoRedundantEnd` and `QueuedStreamServed` on a path without stream windows.
2. **Vanguard selection.** `select_vanguard` only reads the sets and checks the mode and layer, and the `VanguardParams` from the consensus are constants here.

Out of scope:
- `dyn_time.rs` forwards to the runtime's clock and sleep and has no state. Its backwards-moving wallclock appears as an environment action in `ConfluxClient` and `PublisherReactor`.
- `dummy.rs` is a keystore whose every operation fails or returns nothing, so there is nothing to check.
- `hsc.rs` is argument parsing, prompting and file output. Its one state change, rotating a restricted-discovery key before writing it out, is done by the keystore of arti-client and tor-keymgr. That code is not in this repository, so the rotation cannot be translated from source (see the partial-failure hazard at hsc.rs:258).
- **The u64 overflow of `last_seq_recv`** (client.rs:290) needs about 2^32 SWITCH cells.
- **A failed second spawn in `forward_connection`** (proxy.rs:368). `HsrProxy` reaches it: the connection is left with only the local-to-service task, and that task still delivers what it reads. The code returns the spawn error to the request task, which only logs it. Neither the code nor its comments say what should happen to the first task, so no property states a requirement.
- **The reported service State outside the violation run.** `ReactorView` leaves it out of the main run. A pass run of its own would repeat the main run's state space, which is about 1.4M states without the view.
