# PrivateOnyxApp: TLA+ models, model checking and proofs

PrivateOnyxApp packages Onyx (a RAG chat application), SearXNG, a headless
browser, a VPN client, an egress proxy and local embedding servers, and patches
them to work together. This directory models the parts of the repository whose
correctness hangs on the order of events: threads, event loops, processes,
timers, crashes and restarts. Every definition is written from the source;
`PROJECT.json` maps each one to its lines.

Contents: 1 inventory, 2 modules and their correspondence to the code, 3 runs,
4 fairness, 5 proofs, 6 abstractions, 7 disagreements between code and
documents, 8 plan.

## 1. Inventory

### Modelled

**Search provider scheduling** (`searxng/patches/sitecustomize.py`,
`searxng/engines/_obscura.py`, `_x402_admission.py`, `x402exa.py`).
*State*: the provider registry of `_obscura.py` (active leases, reservations,
last start, capacity generation, all under `_CAPACITY_CONDITION`), SearXNG's
suspension times, `_ROUND_ROBIN_CURSOR`, and per search the attempted and timed-out
providers and the result container.
*Operations*: list the available providers of a tier, reserve by rotation, wait
for capacity or for a delay, recheck, dispatch an engine thread, await it with a
timeout, decide on another attempt; in the engine thread: lease, navigate (twice
for Bing), record the outcome, end the lease, signal.
*Interaction*: searches run on concurrent request threads, each attempt on an
engine thread that may outlive its search; they meet in the registry, the
suspension times and two condition variables (browser capacity and paid admission).
*Hard*: stale listings, wake-ups, late threads, reservations on every error path.
*Correct when*: a provider has one owner, nothing leaks, suspended providers are
not run, starts are spaced, every search returns, later tiers are a last resort.

**Retained browser session** (`_ProviderBrowserSession` in `_obscura.py`, with
`submit_search`, `resume_anubis_pow`, `abort_anubis_pow` of
`browser/obscura_client/private_onyx_obscura/client.py`).
*State*: the session object, its generation, the idle handle, the expiry task, the
connection, the pending continuation token. *Operations*: submit, resume, abort,
close, idle expiry. *Interaction*: the search engine threads above are its only
clients, one at a time thanks to the lease; the timer callback and the expiry task
run on the session's own event loop, between the client's awaits. *Hard*: a timer
that is due, late or already closing when the next submission comes; ambiguous
closes; challenges left unresolved. *Correct when*: one connection per provider, a
used session is touched by nobody else, an idle one is closed.

**Browser client** (`client.py`): `_RawCdp`, `fetch`, `_drain_body`,
`ObscuraSession`, and the form search. *State*: the websocket, the event buffer,
the id of the last command, the target and the body stream in the browser, whether
the retained connection may be used again; for a search the form, the field, the
loader of the result document. *Operations*: connect, send a command and read until
its answer, navigate, pass the event barrier, read the DOM or the body, clean up;
wait for the form, type, submit, recognise the document, poll for results.
*Interaction*: the browser answers, or does not, and sends events when it likes; the
page runs scripts between any two commands. *Hard*: cancellation in the middle of
the cleanup, late answers on a kept connection, events of an earlier document.
*Correct when*: what is read is the document asked for, a kept connection is clean,
a submitted query is the one given, every transaction ends.

**Embedding service lifecycle** (`embedserv/idle_embedding_proxy.py`).
*State*: child, starting, stopping, active count, last completion, shutdown flags,
connection slots. *Operations*: begin and end a request, start, probe and publish a
child, reap it when idle, shut down. *Interaction*: request threads, a reaper
thread and the main thread share one condition; the child is a process group that
may hang or crash. *Hard*: reaper against admission, shutdown during a cold start,
failed starts. *Correct when*: no child is stopped under a request, none is
orphaned, requests and shutdown end, an idle child is unloaded.

**Local embedding shim** (`onyx/local_embedding_shim.py`). *State*: request slots,
the upstream pool, metrics. *Operations*: accept, read, wait for an upstream slot,
ask, reorder the vectors, answer, count. *Interaction*: it stands between Onyx and
the service above. *Hard*: clients that leave at any point, answers out of order,
short or with repeated indices. *Correct when*: slots are neither lost nor
invented, a success gives every text its own vector, threads end.

**Myst health supervision** (`myst/myst-healthcheck.sh`). *State*: a lock directory
with a hard-linked owner file, an armed file and a first-failure file, all in the
container's writable layer. *Operations*: `reset` at start, `check` at every probe.
*Interaction*: the engine runs, overlaps and kills probes; PID 1 resets the files,
and exits on the SIGTERM a check sends; files outlive restarts. *Hard*: two probes
at once, a probe killed between two file operations, reclaiming a dead owner's
lock, whose record is read, judged and removed in three steps. *Correct when*: the
lock excludes, termination is asked for once and only after a grace period of failures
that follows a success.

**Egress proxy** (`egress/final_hop_proxy.py`). *State*: the policy, fixed at start;
per request the destination, its validated addresses and two connections.
*Operations*: admit the client, read a request, validate and resolve, choose direct,
SOCKS or HTTP upstream, connect, tunnel or forward, answer. *Interaction*: clients,
resolvers, upstream proxies and origins. *Hard*: every combination of route, VPN,
LAN and upstream with every class of host, failures on each side. *Correct when*:
only acceptable, validated addresses are dialled, names go to the right resolver
only, the client sees one status line.

**x402 payment exchange** (`searxng/engines/_x402_payment.py`, `x402exa.py`).
*State*: the terms of the last offer, kept between attempts; per attempt one
unsigned and one signed POST and the outcome. *Operations*: discover, sign, submit,
read the answer and its receipt, take or refuse a replacement offer, suspend.
*Interaction*: the engine thread of a search, the service, the settlement. *Hard*: a
payment whose answer is lost, late or contradicts itself. *Correct when*: an attempt
is charged once at most, the record never hides a charge, refused terms are not
signed again.

**Host process manager** (`embedserv/host_process_manager.py`). *State*: a record
file, an ownership token, the processes of the host. *Operations*: start, stop.
*Interaction*: commands may be killed between two steps, services exit by
themselves, pids are reused. *Correct when*: only own processes are signalled and
none that runs is lost.

**Shared data engine guard** (`podman/shared_data_engine.py` and the up, down and
adopt targets of the `Makefile`). *State*: an `O_EXCL` marker that names the engine
owning the database directories; containers that come back with their engine.
*Operations*: claim, release, adopt. *Interaction*: Docker and Podman on one host.
*Correct when*: a started stack holds the claim and two engines never write the
same files.

**Web UI reconnection** (`onyx/nginx/webui-reconnect.js` with
`.../api/webui_reconnect_status_patch.py`). *State*: one marker in the tab's
session storage, timers, at most one status request, observed streams, the token
of a committed reload. *Operations*: instrument a send, a resume and a stop, react
to stream ends, visibility, page, network and history events, poll the server's
status, reload. *Interaction*: the stock page, the tab's lifecycle and the server's
runs change under it at every turn. *Hard*: stale answers, suspended tabs, reloads
that fail, replays that break. *Correct when*: recovery work is never lost, the
page reloads only for the chat that is shown, and recovery ends.

**Mid-stream continuation** (`.../api/inference_continuation.py`). *State*: the text
generated so far, what was seen of tools and of a finish. *Operations*: pass a packet
on, classify a failure, notify, ask the provider to go on, give up, close. *Hard*: an
interruption at any packet, also of a continuation. *Correct when*: the consumer has
one generation without a lost or repeated part.

**Document freshness** (`.../background/document_freshness.py`). *State*: the
validators kept with a document's row. *Operations*: HEAD, look up, fetch, compare,
seed, placeholder, skip. *Interaction*: overlapping index attempts over one file
that changes. *Correct when*: a skipped file is the indexed one, placeholders are
never indexed, an edit is indexed in the end.

**Patch installation and network policy patches** (`sitecustomize.py` of the API
server and of the background, with the `install` functions of the patches).
*State*: what each upstream symbol is bound to, layer by layer, who imported it by
name before, what was imported too early. *Operations*: read a switch or a setting,
check upstream's shape, rebuild, wrap or set, refuse, skip. *Correct when*: a strict
service that serves has every enabled patch in force, and exit 78 is reserved for
drift, an invalid setting or a module loaded early: no choice of optional patches
causes it.

**Links in a streamed answer** (`_ChatFileMarkdownStream` and its emitter in
`.../api/python_artifacts.py`). *State*: the pending text, the open code span.
*Operations*: feed a delta, flush, rewrite the whole answer to save it and again when it
is loaded. *Interaction*: the model cuts its answer where it likes, and other packets
come between the deltas. *Hard*: a link, a code span or an escape cut in two. *Correct
when*: no text is lost and the reader sees one answer, streamed, saved or loaded.

**Page reads of open_url** (`.../api/obscura_crawler_patch.py`). *State*: per call a
deadline and `finalized`, the browser slots of all calls, the futures. *Operations*:
submit, wait for a slot, navigate, parse, collect, expire, cancel. *Interaction*: the
workers of several calls share the slots; threads cannot be stopped and outlive their
collection. *Hard*: a worker reported late, a page that is parsed for ever, a call that
ends between a worker's check and what it permits. *Correct when*: no slot is lost, what
is reported is true, no navigation or content is permitted afterwards.

**Beat watchdog** (`onyx/beat_liveness_watchdog.py`). *State*: the times of its start
and of a missing marker. *Operations*: look at the marker's age, restart Beat.
*Interaction*: Beat writes the marker, supervisord restarts either. *Hard*: a boot that
looks like a hang, a marker that is gone, a restart that fails. *Correct when*: only a
Beat that hangs is restarted, and one that hangs is.

**Data directories** (the initialize actions of `podman/startup_health.py`).
*State*: a directory, a temporary volume and container. *Operations*: stage, start, wait,
copy, remove; take what has the mark; refuse anything else. *Interaction*: any engine
command may fail and the command be killed. *Correct when*: what is called initialized
is complete, and no foreign data is written to.

### Modelled in part

| Component | Modelled | Left out |
|---|---|---|
| Search engine adapters | Bing's second page, the outcome of an attempt | parsing of result pages: pure |
| Obscura browser client | `CdpFetch`, `SearchDocument`, `ProviderSession` | URL and redirect policy checks, solving an Anubis challenge: pure |
| Shared data engine guard | claim, release, adopt of the stack targets | the VPN sign-up targets, the legacy marker |
| Startup health | preparation of the data directories | checks of the engine and the containers: they inspect once and compare |
| Beat watchdog, background entrypoint | the watchdog's loop | the configuration derived for supervisor: a check of text at start |
| Open URL and crawler patches | their installation and layers, the page reads of a call | the merge with indexed results, the tool's messages |
| Python tool artifacts | their installation, links in answers | file names, the recovery of mistyped IDs, the prompt's guidance |
| Chat behaviour patches | their installation | what they do to one message: no state of their own |

### Not modelled

| Component | Why |
|---|---|
| Myst client entrypoint, orders and sign-up | shell and CLI around an external daemon with remote state; order recovery is planned |
| Component tools and build (`sync_environment.py`, `wallet.py`, Makefile, compose files) | sequential tools and declarative files |
| Tor, Tailscale, Teep, document drop | rendered configuration and thin wrappers around services |

`PROJECT.json` lists each with its files, and under `hazards` what is hard to test
in the code, at its line, with the properties that would catch it. Two hazards have
no property: a probe killed between publishing "signaled" and the signal
(`myst-healthcheck.sh:305`) and a down command of the VPN sign-up that releases a
claim of the running stack (`Makefile:1654`).

## 2. Modules

| Module | Models |
|---|---|
| `SearchScheduling` | selection, admission and attempts of concurrent searches |
| `ProviderOwnership` | the abstract promise of admission (holder, running, blocked, tried) |
| `SearchHistory` | the same with history variables, for what relates a choice to an earlier one |
| `SearchScheduling_proofs` | the inductive invariant of admission, its consequences, and the choices |
| `MCSearchScheduling`, `MCSearchHistory` | instances of the two for TLC |
| `ProviderSession` | one provider's retained session |
| `CdpFetch` | one fetch after another over a CDP connection |
| `SearchDocument` | one form search on a provider's page |
| `MCBrowser`, `MCBrowser_proofs` | a search's turn and these three, for TLC; proofs about the three |
| `EmbedLifecycle`, `EmbedLifecycle_proofs` | the embedding proxy's lifecycle object, threads and children |
| `EmbeddingShim` | the shim's request threads and its upstream pool |
| `SharedDataInit` | preparation of a store's data directory |
| `BeatWatchdog` | the watchdog of Celery Beat |
| `MCServices`, `MCServices_proofs` | these four, for TLC; proofs about the last three |
| `SharedDataClaim` | the claim of three engines on the shared data |
| `HostProcess` | start and stop of one recorded host service |
| `MystHealth`, `MystHealth_proofs`, `MCMystHealth` | reset and check processes of the VPN container |
| `FinalHopProxy` | one request through the egress proxy, under any policy |
| `X402Payment` | paid attempts, their answers and their terms |
| `Patches`, `PatchInstall` | the patches and their order; the start of an Onyx service |
| `ChatFileMarkdown` | links to generated files in a streamed answer |
| `MCPlatform`, `MCPlatform_proofs` | these seven, for TLC; proofs about claim, host, egress and payment |
| `WebuiReconnect`, `MCWebuiReconnect` | the tab's companion script, its page and its server |
| `OpenUrlReads`, `OpenUrlReads_proofs` | the page reads of concurrent open_url calls |
| `MidstreamContinuation` | the generator that replaces `LitellmLLM.stream` |
| `DocumentFreshness` | crawls of one file by overlapping index attempts |
| `MCOnyx`, `MCOnyx_proofs` | these four, for TLC; proofs about the first and the last |

`MCBrowser`, `MCServices`, `MCPlatform` and `MCOnyx` put components into one run that
share no state. A variable `part`, chosen at the start, says which component takes
steps; the others keep one initial state, so that states add up instead of
multiplying, and what a property says of one part is what it says of that module
alone. They are not compositions: where components do interact, the one is in the
other's module as an environment (the shim is to the lifecycle a client that may leave,
a transaction is one step of the session). `MCPlatform` extends `Patches` as well, whose
tables TLC then evaluates once. Properties that are `Module!Property` of one module, or
of several, are conjunctions of those named in the modules.

**SearchScheduling.** Process `s` is the main thread of a search, process
`(s, p)` its engine thread on provider `p`. `active` and `reservation` are the
registry's sets, `cool` what is left of the start interval, `susp` of the
suspension, `cursor` is `_ROUND_ROBIN_CURSOR`; `s \in fresh` says that
`_CAPACITY_GENERATION` has not changed since `s` read it. `ListRegular` and
`ListLater` are the tier selection, `Reserve`, `PassOver` and `NothingToReserve`
the scan under `_ROUND_ROBIN_LOCK`, one name per step; `ComputeDelay`, `Block`,
`Wake` the wait for browser capacity; `PaidGranted`, `PaidSleep`, `PaidWake`,
`PaidUnavailable` the paid admission; `RecheckSuspended`, `RecheckPassed`,
`RequestsFail`, `Dispatch`, `DispatchFails` what happens under the reservation;
`owes[s]` is the browser provider whose reservation `s` has made or given back under
the provider's lock and not signalled yet, and `Announce` that signal, a critical
section of its own (in the engine thread `EndLease` and `Signal` are split likewise);
`Join`, `JoinTimeout`, `Decide` the rest of the loop. `Lease`, `Navigate`,
`NavigateAgain`, `CallApi`, `Deliver`, `Merge`, `Barren`, `Blocked`, `EndLease`,
`Signal` are the engine thread.

`ProviderOwnership` says what all this machinery is for: acquire, cancel, begin,
block, finish, lapse. `SearchScheduling` maps its reservations, leases and
thread steps to it (`Ownership == INSTANCE ... WITH`), and `KeepsOwnership` is
the refinement.

**ProviderSession.** An action runs between two awaits of one event loop. The
client is a sequential coroutine (`client` is what it waits for, `own` the object it
waits on); timers and expiry tasks are indexed by the generation they were
created for, as in the code, so that stale ones can fire.

**CdpFetch.** `at` is the await the client stands at, `wire` what the browser has sent
and the client has not read, `todo` the commands the browser has not answered, `tabs`
and `streams` what the browser holds. A cancellation can meet every await, those of
the `finally` blocks too.

**SearchDocument.** `search` (`at` in the module) is the step of `submit_search`, the
`field` what the page holds, `seen` the events received, loaders are numbers. Between two
commands the page may rewrite the field, replace the form or load documents.

**EmbedLifecycle.** An action is a critical section of the condition, or one step
outside it (launch, probe, signal, wait). `proc[c]` is the child process,
independent of what the proxy believes about it (`child`, `starting`,
`stopping`).

**EmbeddingShim.** `at[r]` is the step of the thread of request `r`, `slots` and `pool`
the two semaphores, `vectors[r]` the answer by position; the upstream may return every
list of that many items, one more or one fewer, with any indices.

**WebuiReconnect.** One action is a turn of the page's event loop. The functions
the turns call (`Cancel`, `ClearMatching`, `ScheduleRecovery`, `MarkForRecovery`,
`FinishResumeCleanly`, `ReloadForRecovery`, ...) are operators from the
companion's state, the record `tab`, to its next value, named as in the script. The
stock page (`Send`, `Resume`, `Stop`, `Navigate`), the browser (`Hide`,
`PageHide`, `PageShow`, `NewDocument`, ...), the network and the server's run
(`Accept`, `Lose`, `Advance`, `Finish`) are the other actions.

**MystHealth.** An action is one file-system operation on the lock, or the work on
the state files between two of them. `owner` is the content of the owner file,
`pc` the processes, `named[p]` the owner that `p` has read (`ReadOwner`) and judges in a
later step (`Wait`, `GiveUp`, `ClearEmpty`, `FindDead`), by when that owner may have gone; a process name stands for a PID with its start time. `calm`
is no variable of the code: it is the age of the last recorded success and lets
`SignalJustified` speak about the past.

**SharedDataClaim.** `at[e]` is the step of the one make command of engine `e`; an
action is one operation on the marker (`Inspect`, `Create`, `Write`, `ReadRelease`,
`Unlink`) or on the containers (`Start`, `Down`). `left` are the engines whose
containers exist, `up` those that run, so that a stopped engine may come back
(`EngineStarts`) with its writers.

**HostProcess.** `command` is the make command that runs, `record` the record file,
`proc[i]` what has pid `i`; `Appears` gives a free pid to anybody, `Killed` ends a
command anywhere.

**FinalHopProxy.** `policy` and `request` are chosen at the start, one of each kind the
code tells apart; `step` is where the handler stands, `asked` the resolvers that have
seen the name, `ips` the validated addresses, `trying` those left, `far` the class of
the address dialled.

**X402Payment.** `at` is the step of an attempt, `requirements` the kept terms, by
number, `refused` those the service turned down, `wire` a signed request on its way,
`charges` what was settled, `outcome` the record of the attempt.

**SharedDataInit.** `at` is the step of the command, `bind` what the directory holds (the
mark, the data, foreign files), `container` whether the command knows its temporary
container. `cp` copies in any order, except that `nodes` comes before its contents.

**BeatWatchdog.** `age` is that of the marker, `since` the watchdog's time since its
start or its last restart, both capped just above their thresholds; `excused` says that
something but a hang of Beat made the marker old. A unit of time is 100 seconds.

**OpenUrlReads.** `call[c]` is the step of a call, `at[w]` that of a worker, a pair of a
call and a URL; `left` and `limit` are the remaining times of calls and attempts,
`result[w]` is what the future holds and `report[w]` what the collection says of it.
A check and what it permits are two steps: `Permit` and `Navigate`, `Parsed` and
`Deliver`. A future is done (`Publish`) after its slot was given back.

**ChatFileMarkdown.** `scan` is the scanner: pending characters, open code span and the
pieces passed on; `Turn` is one turn of the loop of `feed`. A character is one of those
the scanner looks for, or any other.

**PatchInstall.** `Patches` lists what each patch does. `layers[f]` is the sequence of
callables bound to function `f`, `owner` and `alias` who has which version of a constant
or a loop, `Order` the sequence of patches of each service. `options` are the switches
of the optional patches, each chosen when the first operation that depends on it asks
for it (`ReadSwitch`). A deviation is an operation that does not find what it needs
(`Unmet`: upstream has another shape, or a setting it requires is invalid) or a module
imported early (`EarlyImport`).

**MidstreamContinuation.** `answer` and `reasoning` hold the positions of the generated
fragments, `emitted` the packets the consumer has had, `asked` what a continuation was
asked to go on from.

**DocumentFreshness.** `pc[c]` is the step of an index attempt, `head` what its HEAD
said, `scraped` (`doc` in the module) what it hands to indexing, `db` the row, `version`
the file as it is.

## 3. Runs

Times are with two workers; states are distinct states.

| Run | Instance | States | Checks |
|---|---|---|---|
| `SearchHistory` | 2 searches at a time: over 2 regular providers; over 2 tiers, one of them for the earlier only (first and second, first and third, second and third) | 3,297,627 (150 s) | `RotationMoves`, `LaterTierJustified` |
| `SearchSharing` | 2 searches, 2 regular and the last resort, of which they share one | 3,735,257 (110 s) | `AttemptsInOrder` |
| `SearchPaidTier` | 2 searches, 1 regular, the paid one, suspensions of 2 ticks | 504,480 (40 s) | `OneOwner`, `ReservationsKept`, `SuspendedNeverRuns`, `NoLostWakeup`, `StartsSpaced`, refinement `KeepsOwnership` |
| `SearchPaidWait` | as `SearchPaidTier`, suspensions of 1 tick | violation | `FreeBeforePaid` |
| `Browser` | turn: 2 searches, 1 regular, 1 paid; session: 3 objects, 3 attempts, idle 2; 2 fetches, 1 cancellation, 8 messages; 1 search, 2 loads, 1 edit; fairness | 297,954 (160 s) | `SessionSafe`, `FetchSound`, `ResultIsOfTheQuery`, `NeverReconnected`, `BrowsingEnds`, `SearchingProgresses` |
| `Services` | 3 requests, 2 children, 2 slots, a pool of 1, 2 texts; both stores, any directory; the watchdog's times in units of 100 s, 1 failure; fairness | 208,351 (135 s) | `ChildSafety`, `ShimSound`, `InitSound`, `OnlyHungRestarted`, `LaunchedAlone`, `ServicesProgress` |
| `Platform` | 3 engines; 2 pids, 3 tokens; every set of switches, 2 deviations from 5 of them; 3 probes, 2 kills, grace 2; every policy and request; 3 attempts, 3 offers; answers of 4 words | 1,453,743 (135 s) | `ClaimSound`, `HostSound`, `InstallSound`, `Exclusive`, `AskedOnce`, `SignalJustified`, `EgressSound`, `WaitsOnlyForPeers`, `PaymentSound`, `OneAnswer` |
| `MystLockReclaim` | 3 probes, no kill, no timing assumption | violation | `NoOverlap` |
| `Onyx` | 2 chats, 1 send, 1 poll of grace; 4 packets; 2 calls with 3 pages, 1 thread each, 1 slot; 2 crawls, 2 versions, 1 fault; fairness | 319,022 (215 s) | `PageSafe`, `ReloadsInOrder`, `RecoveryEnds`, `GenerationIsContinued`, `ReadsSound`, `NothingAfterwards`, `AnswersSettle`, `FreshnessSound`, `EditIsIndexed` |
| `WebuiCancelledReload` | 2 chats, a reload may leave the page | violation | `RecoveryNotLost` |
| `FreshnessOverlap` | 2 overlapping crawls, 2 versions, 1 fault | violation | `SkipIsSafe` |
| `SharedDataPartial` | both stores, any directory, kills anywhere | violation | `ReusedIsComplete` |

Why the bounds are enough:

* *Search runs.* Two searches produce every race on one provider, because its
  registry entry has one holder: a third search could only repeat the role of the
  second. Two providers make the cursor move and let one search hold what
  another scans. Each run has the providers its question needs. The start interval
  is one tick (two starts in the same interval are the interesting case), the
  suspension one tick, and two in `SearchPaidTier`, where it must outlast a wait.
  Each search runs once; an engine thread that outlives it stays in the model.
* *History variables.* `LaterTierJustified` and `RotationMoves` relate a step to
  an earlier one: which suspension ran out since the listing, what the last turn took
  and the scan passed over. `SearchHistory` records that in `lapsed` and `turn` beside
  the unchanged specification: `RecordLapses` and `RecordTurn` restrict no step. Of the
  seven searches of the run two take steps in a behaviour (`pair`), which asks the one
  question or the other: two over the regular providers, or for each two tiers a search
  that may spill over and one that competes with it for the earlier tier. Two names are
  the fewest between which a cursor can stand still; longer rounds, and a search that may
  use all three tiers, are covered by the proofs.
* *Session.* Three attempts are: one that leaves a session behind, one that meets
  its timer, one that meets what the second left. With an idle time of two ticks a
  timer can be pending, due, and late.
* *Fetch.* The second fetch meets what the first left on its connection, which is
  what the retention can get wrong; one cancellation meets every await. Eight
  messages are more than one fetch needs.
* *Search document.* One edit by the page between any two commands, and two loads:
  the result document and one that replaces it or comes too early.
* *Data directories.* Two files: the mark and the rest, which is all the code tells
  apart. Commands and kills are unbounded.
* *Beat.* The times of the code to scale (check 3, stale and grace 12); the marker comes
  every 4 and within 6 of a start, which are the longest times that Beat keeps.
* *Page reads.* One call has two pages for its one thread, so that one page may never
  start, and a second call wants the same slot. The budget of 2 leaves one tick for an
  attempt and one of headroom.
* *Links.* Four words make a link with one more character before, inside or after it;
  a word is a character or the end of a link. Answers of five words passed too.
* *Embedding.* Three requests let one start a child, one wait and one arrive during
  the stop, and two slots let the third be kept out; two children let a new one
  start while the old one ends. Three children passed too. A pool of one makes a
  request wait for the upstream; two texts can be swapped, repeated or missing.
* *Claim.* Three engines are two of one family and one of the other, which is all the
  code tells apart. Commands are unbounded.
* *Host.* Two pids make reuse and a second process possible, three tokens a service, its
  replacement and another one.
* *Health.* Three processes are a dead owner, a claimant and one that overlaps it.
  A kill leaves each intermediate state of the files; restarts are unbounded.
* *Egress.* Policies and requests are enumerated completely by class; three classes of
  address and sets of them are all that validation distinguishes.
* *Payment.* Three attempts: terms are learnt, refused, replaced.
* *Patches.* A strict start on the pinned upstream with valid settings is run with each
  of the 2^12 sets of switches. Up to two deviations are explored from the five sets of
  `MCBases`: the defaults of the code and those of the compose file, every optional
  patch, and all but one of the two patches whose rebuilds others build on. With one
  deviation an error path is entered: it ends a strict start, so that only an early
  import can come before it there. A lenient start may meet a second one, of another
  kind (drift, setting, early import), after it; lenient starts have these five sets as
  well, and what is claimed of them is that they are never stopped.
* *Web UI.* Two chats are needed to be elsewhere when an answer arrives. One send
  reaches every phase; the safety properties were checked with two sends as well
  (8.65 million states), which adds newer markers of the same chat.
* *Stream.* Four packets and any number of breaks between them: an attempt that
  generated nothing, one broken twice, one that ends in a tool call.
* *Freshness.* Two attempts and one edit are a seed that overtakes or is overtaken.

Every run but two checks for deadlock. Where a system may come to rest its
specification says so by an explicit step (`Finished`, `PairFinished`, `Rest`, `Spent`,
`Over`). `Onyx` and `FreshnessOverlap` do not: a settled stream, a tab without work and a
file that no longer changes really stop.

For each property of a passing run `PROJECT.json` names a mutant: a changed
definition, as a plausible slip in that code would change it, under which TLC
finds the property violated. They sit beside the definitions they alter.

## 4. Fairness

* *Search*: every main thread and every engine thread that can step does, and the
  clock runs. Threads are scheduled by the system; the browser transaction and the
  API exchange carry deadlines of their own, so an attempt ends.
* *Session*: the event loop runs what is ready, and closes carry timeouts.
* *Fetch, search document*: the client's coroutine runs, and its deadlines fire: a
  deadline is a step of the client that may be taken at any await. The browser
  owes nothing.
* *Embedding*: request, reaper and main threads run, and the clock; a signalled child
  exits, since the code sends SIGKILL after a grace period. A child that hangs
  in its startup may hang for ever: the startup loop has no deadline, and
  `LifecycleProgresses`, a part of `ServicesProgress`, excludes that case by name. The shim's threads run; each
  wait has a timeout, and so has the socket of a client that does not read.
* *Data directories*: the engine answers every command in the end, and the wait for the
  container has a deadline. Nothing says when the container gets ready.
* *Beat*: time passes, the watchdog and a Beat that runs keep up with it. Hangs,
  crashes and failures of `supervisorctl` have no fairness; the failures are bounded.
* *Page reads*: threads run, time passes, an attempt ends by its limit (the client
  enforces it). Parsing has no limit in the code and no fairness here.
* *Web UI*: timers fire, promises settle, a committed reload happens, runs end.
  Server failures are transient (strong fairness of `ServerAnswers`): the server
  may fail any number of times. The user's actions have no fairness; `RecoveryEnds`
  speaks of a tab that finally stays with its chat.
* *Stream*: the handler runs, and the provider completes or breaks in the end, since
  its reads have a timeout.
* *Freshness*: crawls are scheduled again and again (the connector's refresh), and take
  their steps; faults are bounded. `EditIsIndexed` speaks of attempts one by one.
* *Myst, claim, host, payment, egress*: no liveness is claimed. The engine may kill every
  probe, the user every command; a peer of the proxy may be silent for ever.
  `WaitsOnlyForPeers` says at which steps only: everywhere else the handler's own step
  is enabled, which is a state predicate and needs no fairness.

## 5. Proofs

TLC decides the properties on the instances above; TLAPS proves the following for
all values of the constants under the named assumptions in the modules. Each
invariant that had to be found was checked by TLC on the instance of its run before
it was proved.

**`SearchScheduling_proofs`** (any set of searches, any tiers, order, eligibility,
interval and suspension). `AdmissionInv` is inductive:

* `OneOwner` alone is not: a lease could be given to a thread whose reservation
  has gone. `LeaseNeverRejected` says that a created thread still has it;
* that in turn needs that only the search or its own thread can release a token
  (`ReservationHeld`, with the former `ReservationsKept`), and that what a search
  picked is reserved for it, untried, and passed the recheck (`PicksAreOwned`);
* `SuspendedNeverRuns` follows since a suspension is recorded only inside the
  lease of its provider, which nobody has while another one is reserved.

There is one lemma per kind of step (looking, taking, releasing, dispatching,
awaiting, leasing, working, ending, time). On top of it:

* `Paced`: a reserved provider, and one whose lease has not started anything, is off
  its interval, because the interval is set by a start alone and starts happen in the
  lease. Hence `StartsSpaced`;
* `Waits`: a search that sleeps without a timer and whose view of the generation is
  current listed a provider that is reserved or active still, or about to be signalled
  by whoever freed it, so that its wake-up is yet to come. `Tells` is what a step must do
  to keep that: a provider leaves this state only by a signal, which outdates the
  generation of those that may wait for it. The window between freeing and signalling
  needs one more part: a search owes one signal at most, since it owes only where it goes
  on with that signal. Hence `NoLostWakeup`;
* `AttemptsInOrder`: a search dispatches a provider once, and what came of it is written
  down inside the lease;
* `KeepsOwnership`: each step of the scheduler is an action of `ProviderOwnership`
  (`TakeAcquires`, `ReleaseCancels`, `LeaseBegins`, `BlockedBlocks`, `EndFinishes`,
  `TickLapses`) or leaves its state alone (`Invisible`);
* `TierInv`, over `SearchHistory`: while a search chooses, every provider of a tier before
  the one it listed is suspended, or its suspension lapsed since (`Excused`). An excuse
  lasts as long as the choice (`ExcuseLasts`), a choice starts with `ListRegular`
  (`StartsChoosing`) and changes its tier in `ListLater` alone (`GoesOnChoosing`). Hence
  `LaterTierJustified`;
* `ScanInv` and `TurnInv`: one scan at a time; the cursor stands behind the provider
  taken last, and of the names it was taken from, those the scan under way has left
  behind were passed over. The places of a set of names are the numbers below its
  cardinality, each with one name (`IndexIs`, `EveryPlaceNamed`: an injection between
  finite sets of one size is onto), so that a scan finds the same provider again only
  after a whole round (`WholeRound`), which visits every other name (`RoundVisits`).
  Hence `RotationMoves`.

Theorems: `Admission` (the invariant), `TypeCorrect`, `OwnerUnique`,
`ReservationsSound`, `SuspensionRespected`, `StartsAreSpaced`, `AttemptsKeepOrder`,
`OwnershipRefined`, `WakeupsKept`, `LaterTiersJustified`, `RotationMovesOn`.

**`MCBrowser_proofs`** proves about the session, and about the fetch and the search as
instances of `MCBrowser`.

* `FetchInv` (any number of fetches, cancellations and pieces of a body). The queues of
  a connection are in order: commands are numbered as they are handled, and replies
  come in that order (`InOrder`). Until it cleans up, a fetch has one command
  outstanding, the awaited one (`OneOutstanding`), and nothing comes from a fetch
  before it begins (`OfEarlierFetches`). The page's load begins with the only navigation
  (`NavigatesOnce`), and when it is asked for the stop of `about:blank` is behind, since
  it precedes the reply to the last command of the setup (`BlankIsPast`): so the
  barrier waits for the page's own stop. What the browser holds is known to the client,
  or the connection was given up (`HoldsOwn`), and a kept one has nothing on it
  (`CleanBefore`). The one exception is stated: a cancellation of `Target.closeTarget`
  (`escaped`).
* `SearchInv` (queries of any length, any number of documents and edits): one
  submission (`SubmittedOnce`); the document taken for the result responded after it
  and later arrived in full, in the frame or replaced since (`LoaderArrives`); the
  frame does not go back (`FrameAdvances`), so the HTML is never of an earlier document
  (`HtmlIsLater`).
* `SessionInv` (any number of sessions and attempts, any idle time). `SessionSafe` does
  not say who is responsible for a connection. `Timers` and `Owners` do: the only armed
  timer is that of the current handle; at most one expiry runs, and only while the
  client waits; the task the client awaits is the one the field refers to, or it is
  done; a connection that is open or closing is that of the current session, or in the
  hands of the client, or of one expiry; and a session that somebody closes for good is
  nobody's.

Theorems: `FetchReadsItsPage` (`FetchSound`), `SearchReturnsItsDocument`
(`ResultIsOfTheQuery`), `SessionInvariant`, `RetainedSessionIsSafe` (`SessionSafe`),
`ClosedStaysClosed` (`NeverReconnected`).

**`EmbedLifecycle_proofs`** (any finite set of requests, any children, slots and idle
time). `LifecycleInv` has the two counters (`Counts`: `active` is the number of
forwarding threads, slots and threads inside make up `Slots`) and who has which child
(`Records`): one starter, one stopper, a launched child is known to its thread alone
until it is published (`OwnChild`), what is in use was never signalled
(`Unsignalled`), the main thread stops last (`MainLast`), nothing is orphaned
(`NoOrphan`). Theorems: `Lifecycle`, `ChildIsSafe` (`ChildSafety`), `LaunchesAlone`
(`LaunchedAlone`).

**`MCServices_proofs`** proves about the instances of `MCServices`; a step of the
services is a step of one part and leaves the others alone.

* `ShimInv` (any requests, pools and texts): a thread's verdict fits its step, and
  nothing is counted before the answer, unless its client left a success.
* `InitInv`: a preparation that is ok when it comes to its `finally` clause has copied
  everything, and what it then cannot remove makes it fail.
* `BeatInv` (any times such that the marker of a Beat that works is never stale,
  `LimitsAssumption`, which the constants of the code satisfy): a Beat that neither
  hangs nor is excused keeps the age of its marker, or the time since its start, within
  its own times.

Theorems: `ServicesShimSound`, `ServicesInitSound`, `OnlyHungBeatsRestart`.

**`MystHealth_proofs`** (any number of processes, any grace period, any number of
kills). `HealthInv` is the conjunction of

* `LockInv`: who is inside the lock is its recorded owner and the directory
  exists; whoever is about to remove a record removes that of a dead process.
  The second part is what the code's lock needs and does not enforce; it holds
  under `PromptReclaim`, and so do the theorems that rest on it (section 6);
* `FilesInv`: what a step inside the lock has read from the files still holds;
* `AskedOnce`;
* `AgesInv`: the recorded failure is younger than the last recorded success, and
  both age alike. Hence an expired failure means that `calm` reached the grace.

Theorems: `HealthTypes` (without `PromptReclaim`), `HealthInvariant`,
`LockExclusive`, `TerminationAskedOnce`, `TerminationJustified`.

**`MCPlatform_proofs`** proves about the instances of `MCPlatform`; a step of the
platform is a step of one part and leaves the others alone (`PartsStep`).

* `ClaimInv` (the three engines of the code; interruptions and commands are unbounded).
  `ClaimSound` speaks of started stacks only; this adds what holds on the way: a command
  between `Create` and `Write` owns the empty marker (`WriteOwnsEmpty`, which is the
  `O_EXCL` of `claim`), one that is about to start its stack holds the claim
  (`StartHolds`), one that is about to remove the marker has no containers left
  (`ReleaseIsDown`), and an adoption runs alone (`AdoptsAlone`).
* `HostInv` (any pids, any number of launches): what a command holds at each step, that a
  record names a launch, and that a service is unrecorded only while its launch is being
  recorded (`RecordedOrInHand`).
* `EgressInv` (any policy and request): what the handler's step says about the request
  (`SettledBySteps`), that validation returns acceptable addresses only and nothing else
  is dialled, and that no status line precedes the relaying.
* `PaymentInv` (any number of attempts and offers): what an attempt knows of its own
  submission (`Submission`: before it, nothing is on the wire or charged; while paying,
  the outcome is unknown), and that a new offer was never refused (`Terms`).

Theorems: `PlatformClaimSound`, `PlatformHostSound`, `PlatformEgressSound`,
`PlatformPaymentSound`.

**`OpenUrlReads_proofs`** (any calls, each with any finite set of pages, any threads,
slots and times). `IInv` adds to `AttemptsFit` what a running worker relies on: a worker
begins after its call has submitted it (`Running`), only an attempt has a limit
(`Limited`), a collection that has its results leaves nothing that may go on, because the
call is finalized or the worker done (`Closed`), and what was reported belongs to a
worker that has ended (`Reports`). Nothing is assumed of the time between a check and its
use: `NothingAfterwards` says that the permissions end with the collection. `Slotted` is inductive under it: each way into
`Holding` takes a permit, each way out gives it back. Theorems: `ReadsSoundAlways`,
`NothingAfterwardsAlways`.

**`MCOnyx_proofs`** extends it and proves about the instances of `MCOnyx`.

* `FreshnessInv` (any finite set of attempts, any number of edits and faults).
  `FreshnessSound` says that the one attempt that runs skips only what is indexed. That
  needs: nothing known of the file is ahead of it (`NeverAhead`); validators are never
  newer than the content they come with, since the HEAD precedes the GET
  (`ValidatorsFirst`); a row's hash is that of its content (`RowHashed`); and an attempt
  that is alone seeds the row it compared (`SeedsTheCompared`). The last part is what
  overlapping attempts lose.
* `WebuiInv` (any number of chats, sends and polls of grace). `PageSafe` is inductive
  with two additions: what the companion waits for, and a reload it committed, belong to
  the marker it has (`WorkIsMarked`), and an owner has its open body (`OwnerIsOpen`).
  `ReloadsInOrder` needs three more. A suspended marker is never asked the question of
  an ended stream (`SuspensionOutlivesEof`): its "completed" would clear the marker
  without a reload. That in turn rests on `OfflineIsCalm`, since `online` sets `hidden`
  without cancelling anything. And the marker knows of a replay that failed
  (`ReplayRemembered`). The operators of the script each have a lemma on what they keep
  (`CancelFits`, `MarkFits`, `JudgeFits`, ...), which the lemmas on the turns cite;
  `OnlyAnswersReload` then says that no turn but an answer's commits a reload or touches
  the marker of a page being replaced, and `AnswerReloads` what an answer may do.
  Both theorems have the hypothesis `~Cancelled`. Otherwise the code breaks them: a page
  that outlives its reload arms nothing (`WebuiCancelledReload`), and forgets a replay
  that failed while the reload was under way.

* `ContinuationInv` (any number of packets). `GenerationIsContinued` has five parts, each
  said with positions and sets of fragments rather than with a filtered sequence, whose
  value for every length would be an induction. The additions are what they need of each
  other: all that was emitted is on record, as text, as a tool call or as a finish
  (`EmittedIsRecorded`), fragments are numbered in the order of their packets, and what
  an attempt was asked is a prefix of what is recorded since (`AttemptExtends`).

Theorems: `OnyxFreshnessSound`, `OnyxPageSafe`, `OnyxReloadsInOrder`,
`OnyxGenerationIsContinued`.

*Assumptions.* Bounds are natural numbers, positive where the code's are; a finite set
where something is counted (requests, crawls, workers); `NONE` is none of the values it
stands beside; tiers do not overlap. They are stated in the component's module, or, for
a component that is proved as an instance, in the module of the instances, and TLC
evaluates them in every run.

*Model-checked only*:

* all liveness, and `WaitsOnlyForPeers`, which says `ENABLED`;
* `OneAnswer`, which compares what a fold makes of sequences of any length: that is
  induction over data;
* `InstallSound`, which is about the one list of patches of this repository: the chain is
  run, and TLC runs it with every set of switches and from the deviations of section 3. A proof would repeat that run
  operation by operation, and `SelectSeq`, by which a rebuild drops wrappers, has no
  facts in the provers' library.

## 6. Abstractions and assumptions

* *Search*: the scan's lock is held until the reservation that ends it is signalled; that
  the cursor moves with the reservation and not after the signal is seen by nobody, since
  only a scan reads it. The list of a tier and `NextReadyDelay` are each read at one
  instant; results are reduced to "has a main result"; a search's parameters to the
  set of providers that admit it. SearXNG itself (threads, `resume()` after a
  success, the container) is modelled from its use.
* *Session*: providers without Anubis have a subset of the behaviours. `close()`
  is called by tests only; it is modelled as a client like the others.
* *Fetch and search document*: time is abstract, a deadline may pass at any await. URL
  and redirect checks and the solution of an Anubis challenge are left out.
  `KeptConnectionIsClean` excepts a cancellation of `Target.closeTarget` itself
  (`escaped`): the `finally` that awaits it is left with the target open.
* *Embedding*: HTTP details are absent. On macOS `killpg` on a zombie raises, so
  the reaper thread may die; `LifecycleProgresses` says so. In the shim, prefixes and
  model names are left out. A success whose client has left is counted a second time, as
  an error of the upstream, and `CountedOnce` says so.
* *Data directories*: one command at a time; a kill takes what the command runs along, so
  that its temporary volume may stay behind under a name nobody uses again. What the
  health check of the container says is a choice.
* *Beat*: time is counted in units of 100 seconds; the wall clock is not set back. A
  marker counts as valid or absent.
* *Page reads*: `finish()` may come between a check of `permits_navigation` and its use
  (the guard at `client.py:1190` and the command at 1205; the check at
  `obscura_crawler_patch.py:236`, `251` or `266` and the future's value), and in the model
  it does: a worker then starts the one navigation or returns the one content that was
  permitted before. An attempt's clock starts with its limit; what a page contains is content
  or a failure. Robots, redirects and the tool's own messages are left out.
* *Links*: the only destination that names a generated file is `t`; names, IDs and origins
  are left out. `OneAnswer` excepts an answer of which some chunk ends inside an escape
  (`cutEscape`): `feed` asks of the pending text only whether a character is escaped
  (`python_artifacts.py:183` and `213`), so that `\![](t)`, cut after its backslash, is
  rewritten in the stream and kept in the saved answer, although
  `docs/onyx_patch_info.md:672-674` promises that chunk boundaries do not matter.
  `CutsUnseen` without that exception fails on this answer.
* *Web UI*: storage failures, the notices and the manual fallback are absent; the
  minimum recovery interval and all delays are arbitrary, since a timer fires at
  some time after it was armed; the grace of a reservation is a number of polls.
  The server's three reads in `reconnect_status` are one. The stock page resumes a
  run at most once per visit.
* *Stream*: the reasoning fields a partial assistant message carries are left out.
* *Freshness*: a version of the file stands for its content, its Last-Modified and its
  Content-Length, so that an edit changes all of them. The row, the pipeline's gates and
  its writes are upstream's, and modelled by how the patch uses them. `FreshnessSound`
  holds of attempts that run alone; `FreshnessOverlap` shows what two do.
* *Patches*: the texts of rebuilt functions and prompts are left out; what each
  operation requires, replaces and binds is kept. A malformed number that the code
  ignores and a flag it does not know count as off; a setting it refuses is a deviation.
  Two deviations from a set of switches outside `MCBases` are not explored.
* *Myst*: setup-only and no-VPN modes run the readiness script alone and touch no
  state. Malformed and unsafe files end a check without a change, and are not
  modelled; nor are TERM and HUP sent to a check itself (the engine kills), nor a
  probe before the reset is done: probes come every five seconds at the start, a
  reset finds no living owner and waits one second at most.
  `PromptReclaim = TRUE` is a timing assumption: between the reading of a record whose
  owner is then found dead (line 110) and its removal (line 143) nobody publishes
  another one. In the model `FindDead` finds the record it read, or none, and `Link`
  waits for a removal under way. The script enforces neither. With `FALSE` both are
  dropped, and the lock does not exclude (`MystLockReclaim`).
* *Claim*: one command per engine at a time, and an adoption runs alone, as the error
  message that asks for it says. An engine whose claim was adopted away while its
  containers were left is excepted (`adopted`). Containers started outside the Makefile
  are not modelled.
* *Host*: `ps` tells the truth; a process is its token; checking the token and killing are
  one step. A service launched by a command that is killed before it writes the record
  is excepted (`strays`).
* *Egress*: reading and parsing a message is its outcome; requests share no state.
* *Payment*: the service does not lie about a settlement; it may say too little, too
  late, or nothing. Checking an offer against the policy is a choice.

## 7. Where code and documents disagree

* `SearchPaidWait`: a search that sleeps in the paid admission is granted the paid
  provider although a free provider has become eligible again meanwhile; the wait
  has no deadline and looks at the paid provider only.
* `WebuiCancelledReload`: after a committed reload that does not replace the
  document, the in-memory owner of a resumed body that has ended still counts as
  the owner of the completion, and the persisted recovery work is not resumed.
* `MystLockReclaim`: a claimant that found a recorded owner dead may remove the record
  that another one has published since, and both are inside the lock, although the plan
  promises reclaim "without overlapping ownership". No process has to be killed for it.
* `FreshnessOverlap`: the seeding transaction of one index attempt stamps the newest
  validators on the older content that another attempt has written in between, and every
  later crawl skips the file.
* `SharedDataPartial`: a copy into the data directory that stops after the mark leaves a
  partial store there, which the next start takes for an initialized one.

`PROJECT.json` quotes the documents and gives the lines.

## 8. Plan

Done first, because it is the program's own core and the most concurrent:
scheduling, session, embedding, Web UI, health supervision; then what the stack
stands on and what the wrapper adds to Onyx. What is left, in this order:

1. `VpnOrders` and the sign-up targets, with `SharedDataClaim`: recovery of an order
   against remote state, and a claim that two kinds of stack share.
2. `SearchBrowser`: `SearchScheduling` composed with one `ProviderSession` per
   provider. The session assumes one client at a time; the lease provides it.
3. Staging and publication of Python artifacts, and the merge of read pages with indexed
   ones.

Every safety property of the runs that the provers can state is proved (section 5). Bounds of the new runs stay small: two actors that race,
one crash or lost message of each kind, one resource fewer than there are claimants.
