# A TLA+ model of spawn

spawn keeps terminal windows alive on a user's own machines and shows them in a browser or an app.
A daemon, `spawnd`, runs on each host and starts one worker process per window. A FastAPI server
holds the rows (Postgres) and the leases (Redis) and carries control and signalling; terminal bytes
go over WebRTC between the device and the daemon. This directory models the protocols between those
parts: who speaks for a host, which peers have a binding, and which shells run.

Sources are under `src/`: `server/spawn_server` (Python), `daemon/src` (Rust), `web`, `mobile` and
`desktop` (clients).

## Inventory

| Part | State | Operations | What is hard about it |
| --- | --- | --- | --- |
| Host ownership (`ws/daemon.py`, `redis.py`, `ws/host_signal.py`) | generation counter, reservation and owner in the host row; pending and active lease in Redis; the broker's route per process | register, activate, reconcile, heartbeat, frame, reclaim, tear down | two stores without a common transaction; commits whose answer is lost; leases that lapse; a process that dies |
| Binding table (`ws/broker.py`) | live bindings, tombstones, deadlines | register, rebind, resume, orphan, expire, mark, prune | one budget for live and dead identities; ids chosen by browsers and used again |
| Host signalling (`ws/daemon.py`, `ws/host.py`, `rtc.rs`, `rtc_pair.rs`) | daemon sockets, signal pump, relays, the daemon's peers and held statuses | offer, restart, close, status, resume, reconnect | handlers that await between read and write; a goodbye that outlives its peer |
| Session lifecycle (`routes/sessions.py`, `routes/workspaces.py`, `ws/daemon.py`, `run.rs`, `sessions.rs`, `worker_backend.rs`) | the window's row, its route, the control socket, the daemon's registry, the worker | create, restart, move, archive, restore, delete; started, exit; adopt, launch, kill | kills are sent once and may be lost; a delayed kill meets a new shell; daemon, worker and socket fail apart from one another |
| Session-scope signalling (`ws/browser.py`) | the same table | attach, offer, close | as above, with the session's own routing |
| Owner dispatch (`ws/owner_dispatch.py`) | waiting requests | ask, answer | an answer of a connection that has been superseded |
| Display ownership (`session_ctl.rs`) | viewers, owner, device lease, lock per session | register, unregister, claim, resize | the lock is evicted while somebody may wait for it |
| Upload (`upload.rs`) | entries with a lifecycle, completed results | start, write, commit, cancel, clean up | cancel against commit; a clean-up that fails and is tried again |
| Self-update (`update.rs`, `install.rs`) | release pointer, probation marker | apply, probation, registered, revert | a crash between any two steps; deadline against registration |
| Device trust (`creds.rs`, `endorsement_chain.rs`, `signed_signal.rs`, `routes/trust_bundle.py`, `routes/device_pairing.py`) | pins, endorsements, pairings | endorse, revoke, pair | chains with revoked links; set-once columns under concurrent requests |
| Alerts (`ws/alerts.py`, `push.py`) | one quiet timer per session | touch, cancel, fire | a timer that has fired while it is replaced |
| Grid (`grid.py`) | a layout | place, move, resize, remove | tiles never overlap |
| Rate limits, accounts, install, host files, clients | | | request by request, no protocol between parties |

`PROJECT.json` lists every part with its status, the source lines of every definition (`map`) and
the hazards, each at the line where it bites.

## Modules

**`HostOwnership`** has one action per database or Redis call of a connection's handler, so that
any other connection may run between two of them. `row` is the host's row, `active` and `pending`
the two Redis keys, `accepted` the broker of each server process, `pc` where each handler is. The
Redis scripts are operators (`Newer`, `IsCurrent`, `Promote`, `Without`). Faults are chosen with
`Mishaps`: a commit succeeds and its answer is lost (`lost`), an activation is given up on
(`abandon`), a handler is interrupted (`drop`), its clean-up fails (`cleanup`), a process dies
(`crash`). Leases lapse `MaxLapses` times. Generations are not abstracted: they are compared, and
the counter has its limit. `reigned` is history that no guard reads: the owners committed to the row
so far.

**`BindingTable`** is the broker's table and the promise it makes: every method runs under the
broker's lock and is one step, with any caller and any arguments. `past` holds the deadlines that
have gone by, so no clock is needed. It serves on its own and as the abstract specification of the
next module.

**`RtcSignalling`** extends it with the actors that call those methods: the daemon's sockets and
their pumps, the browsers' relays, the daemon's peers and deferred statuses. A handler is split
where it awaits. `ImplementsTable` is `TableSpec` as a property: the composed system moves the table
only by the broker's methods (the state is shared, so the refinement mapping is the identity).
Whether a daemon socket still owns its host is `HostOwnership`'s matter; here such a check may fail
at any time (`fence`).

**`SessionLifecycle`** is one window on several hosts. A request commits its row and then works off
the steps it left (`todo`): find the connection, attach, send the launch; send the kill, detach.
`link[h]` is the control socket, the server's side of it and the frames in both directions;
`host[h]` the daemon (registry entry, the frame being handled, delayed kills) and the worker.
Requests are numbered and workers and frames carry the number they came from, which the program does
not do; the numbers only serve to say which shell a kill was meant for. A request's kill has that
request's number and a mark if another request was made before it was sent (`overtaken`); a kill
decided on by a registration has the number of the last request at the decision. Where the code
compares registry generations the model compares the numbers of the entries. `wanted` is history
that no guard reads: the host the last request wants the shell on, or none, or that a
`session.started` undid its stop. The names of the mishaps are explained at the constant. Three of
them separate what the code is good for from what it is not: `rush` lets a request start before the
one before it is through, `late` lets the socket drop while a launch waits for it, and `deaf` lets
the delivery of a signal fail, in which case a kill turns to KILL at once and, that failing too, the
worker runs on.

`MC*` modules give the constants their model values. A definition marked *Slip* is a plausible bug
in the one that follows it; `mutants` in `PROJECT.json` names the property that each one breaks.

## Runs

| Run | Instance | Result |
| --- | --- | --- |
| `host_faults` | two connections, one process, two generations and any counter to begin with, a lapse, all faults | the safety properties of ownership hold |
| `host_live` | two connections on two processes, lost answers, crashes, a lapse | ownership converges |
| `bindings_budget` | two ids, two generations, two channels, three identities, small caps | the table keeps its budget, caps and tombstones |
| `rtc_reuse` | one id offered twice on one socket, an ICE restart, a revocation, full channel, failing database and fence | a goodbye ends only its own binding |
| `rtc_reconnect` | two sockets, two relays, early offers | no close of a kept peer, nothing stranded, the table is implemented |
| `rtc_live` | two sockets, one relay, full channel | no binding outlives its peer for good |
| `rtc_revocation` | one socket, one revocation | **violated**: peers closed by a revocation keep their bindings |
| `lifecycle_signals` | one host, three requests, two sockets, all mishaps | no kill reaches a shell launched after it was decided on, overtaken ones excepted |
| `lifecycle_stops` | two hosts, two requests, two sockets each, drops and daemon crashes | shells stop where the row and the last request do not want them; rows tell the truth while no socket was lost |
| `lifecycle_exits` | one host, one request, two sockets | **violated**: an exit after a reconnect is not reported |
| `lifecycle_archived` | one host, create and archive, two sockets, drops | **violated**: the shell of an archived window runs for good |
| `lifecycle_crashed` | one host, restart, a worker crash | **violated**: the restart gives up on a crashed worker's socket |

### What the properties say

- Ownership. `OneConnectionPerGeneration`: a generation names one connection, wherever it is found.
  `ReservationIsNewest`: activating a reservation can only raise the owner's generation, although
  the activation does not compare them. `LeaseFollowsCommit`: whoever has the active lease or is
  routed was committed to the row before, with that generation; Redis and the brokers never run ahead
  of the database. `OwnerIsRouted`: the owner's process routes to it. `WritesInGenerationOrder`:
  once a successor has written, nothing of its predecessor is. `CleanupSparesOthers`: a late
  `finally` takes nothing from the successor. `RefusedOnlyByNewer`: with the leases in place, only
  a newer reservation or an exhausted counter turns a registration away. `OwnershipConverges`: in
  the end each connection is gone, or is the owner in all three records.
- Bindings. `RetirementAlwaysFits`: the branch that has no room for a tombstone is dead code.
  `RetiredIdentitiesStayDead`, `CapsHold`, `LeavesATombstone`: see the module.
- Signalling. `GoodbyesAreTrue`, `ClosesOnlyTheForgotten`, `NoneStranded`, `BindingsAreBacked`: what
  the server frees or closes is what the daemon has given up, and the other way round.
- Lifecycle. `SignalsFindTheirWorker`: a kill a registration decided on never ends a shell that a
  later request launched, a request's own kill only if it was overtaken before it was sent, and a
  delayed KILL only one that had its TERM; the lifecycle lock, the order of frames on a socket and
  the registry's generations are all needed for it. `UnwantedWorkersStop`: kills are lost with their
  sockets, but a registration sends them again, so that in the end the shell of a window that has a
  row runs only where the row says and the last request wants it. It says nothing of a window
  without a row, which a registration leaves alone by design (`proto/README.md:521`), nor of a stop
  that a late `session.started` has undone: that one is `ArchivedWindowsStop`, which fails.
  `RowsTellTheTruth`: with its complement
  `ExitsAreReported`, which fails as soon as a host has reconnected.

### Bounds

Two connections are the least with a successor; the counter starts anywhere up to its limit, so that
it also runs out on the second connection or the first. In the table two ids against a budget of three make live and dead identities compete. Two
sockets are a reconnection, and two relays a device that moves. Three requests are the least in
which a window is stopped and launched again behind a kill; two hosts the least for a move.
`rtc_reuse` has a second nonce and one socket, `rtc_reconnect` two sockets and one nonce: with both,
a relay of the model may resume a binding its own device has closed, which no browser does. So a
goodbye of one socket is not met by a second use of its id on another.
`lifecycle_stops` is without `deaf`, since a worker that cannot be signalled runs on, without `rush`
and `late`, with which kills go astray (see below), and for its size without the other requests. One
host with three requests, all but moves, drops and crashes was run once and agrees (46 thousand
states).

Deadlock is not checked in the runs that exhaust their sockets, requests or generations: with none
left the system rightly stops. The table never does, and its run checks it.

### Fairness

A handler that has begun goes on (an asyncio or tokio task that can run is run). Daemons send
heartbeats on a timer, and reconnect in a loop. Timers fire. In `HostOwnership` a heartbeat and the
notice of a closed socket have strong fairness, since other frames interleave with them for as long
as they arrive, and the timer does not starve. A shell is only sure to end when it is sent KILL.
Nothing is assumed of users, devices, relays or the network, and no fault is fair.

## Findings

Each is a run that TLC refutes, with the line it contradicts in `PROJECT.json`.

1. `rtc_revocation`: `invalidate_trust_and_close_all` (`rtc.rs:2991`) closes every host peer without
   a terminal status, so the server keeps their bindings, under the caps, for the connected TTL.
2. `lifecycle_exits`: the exit forwarder (`run.rs:6883`) holds the channel of the connection that
   launched or adopted the shell. After a reconnect that channel is closed: the exit is lost and the
   row says `running` for good.
3. `lifecycle_archived`: `session.started` (`ws/daemon.py:2524`) writes `running` over the `killed` an
   archive has committed. If the archive's kill is lost with its socket, the next registration finds
   a running row and sends nothing: the shell of an archived window runs for good, against
   `routes/workspaces.py:465`. If the kill arrives, its exit looks like a crash and pages the owner,
   against `proto/README.md:849`.
4. `lifecycle_crashed`: `session.restart` (`run.rs:6646`) takes the socket path a crashed worker
   left behind for a live worker and gives up; the launch that would clear it is never reached.

Seen while modelling, and left without a run:

- `ws/daemon.py:537`: an activation commits the row and then promotes the lease, as the comment there
  says. `ws/daemon.py:923` ("Promotion has won Redis's CAS but its database commit is not yet
  visible"), `redis.py:612` ("after a failed database commit") and `docs/TRUST_PHASE2.md:196` describe
  the opposite order, which `LeaseFollowsCommit` excludes; the branches those comments explain are
  never needed for the reason they give.
- `routes/workspaces.py:497`, and likewise a move (`routes/sessions.py:500`): a kill is sent after the commit and takes
  no lifecycle lock, so a request made in between may have its launch sent before it, and the kill
  ends the new shell. `ws/broker.py:60` speaks of the lock as ordering "what starts and stops workers
  on this socket".
- `run.rs:6699`: a kill that cannot be delivered is answered with `kill_failed`, which the server
  logs; the worker runs on until the next registration.
- `broker.py:583`: reclaiming a lease reads the row and then writes Redis. A connection whose
  successor served and left in between gets the active lease back, against `docs/TRUST.md:177`; its
  writes are still refused by the row.
- `broker.py:942`: a `connected` is dropped when the record was replaced during the await before it.
- `ws/daemon.py:1516`: the close of an expired binding carries no binding generation, and the daemon
  ignores it (`rtc.rs:637`).
- `broker.py:336`: bindings a register frame reports are not kept while they are still attached to
  the socket before, against the comment at `rtc.rs:1027`.
- `rtc.rs:1039`: a held goodbye of a peer offered between accept and `registered` is dropped.
- `routes/sessions.py:533`: a kill follows a route that may name a dead connection of the same host,
  after a launch attached late.
- `ws/daemon.py:2347`: a registration routes what its first read found; a window moved meanwhile is
  routed to its old host until the next launch or exit.
- A launch cut short by its socket (`run.rs:1128`) leaves a worker that is in no registry until a
  kill or a new daemon process adopts it.

## Proofs

`HostOwnershipProofs` proves `TypeOK`, `ReservationIsNewest`, `LeaseFollowsCommit` and
`WritesInGenerationOrder` for any connections, processes, bounds and mishaps, from the assumptions
named in `HostOwnership`. None of them is inductive: a handler acts on what it learnt before.
`IInv` adds `Fence`: no handler holds a generation the counter has not given out, what one may still
publish, restore or accept (its own value past the commit, its predecessor's until then) is in
`reigned`, and so is the row's owner. A lemma for each shape of step (only the
handler moves; Redis is given a committed owner or nobody; the row loses a reservation or its owner)
covers most actions; the others have a lemma of their own. `WritesInGenerationOrder` needs the last
part, that a write's generation never exceeds the row's.

`BindingTableProofs` proves all five properties of the table for any ids, budget and caps. The
methods are functions of a table, so the invariant is a predicate on tables: `Sound(t)` (typed, dead
identities dead, live and dead within the budget, caps kept), and `Follows(t, u)` says what a method
may do to a table. Each helper has a lemma that it keeps a sound table sound and that the result
follows; the methods compose them. The budget is what makes the other branch of retirement
unreachable, so `Retirable(t, S) = S` in a sound table, and the choice inside it never matters.

Only model-checked: `OneConnectionPerGeneration`, `OwnerIsRouted`, `RefusedOnlyByNewer`,
`CleanupSparesOthers`, everything of `RtcSignalling` and `SessionLifecycle`, the refinement, and all
liveness, which is out of the prover's reach.

## Not modelled

The parts without a module in the inventory; the contents of signalling messages and the signatures
over them; the ICE and DTLS state machines; terminal emulation and scrollback; several windows of a
host at once, whose only coupling is the daemon's one-frame-at-a-time loop; several server processes
in signalling, where pub/sub stands between a relay and the pump as a queue.

## Plan

1. Model further, in this order: `SessionDisplay` (display ownership and the eviction of its lock),
   `UploadHub` (entry lifecycle, admission, retry of clean-up), `SelfUpdate` (marker and pointer
   with crashes), `DevicePairing` (set-once commit and reveal), `QuietWatch`, session-scope
   signalling on `BindingTable`, `OwnerDispatch` on `HostOwnership`, `Endorsements` and `Grid` as
   operators checked against reference definitions over bounded inputs.
2. Compose: `HostOwnership` under `SessionLifecycle`, in place of the single connection per host,
   with the lifecycle's writes guarded by the fence.
3. Abstract specifications: a window as an automaton (wanted or not, running or not) that
   `SessionLifecycle` implements; an upload as a file that appears once or not at all.
4. Prove: `SignalsFindTheirWorker` for any hosts and requests, by an invariant that orders the
   frames of a socket (everything before a kill comes from requests no later than it), ties the
   sweep's decision to the lock, and lets each launch number be in one place only;
   `OneConnectionPerGeneration`, `OwnerIsRouted` and `CleanupSparesOthers`; `ImplementsTable` by the
   lemmas of `BindingTableProofs`.
