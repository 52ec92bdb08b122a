--------------------------- MODULE SessionLifecycle ---------------------------
(***************************************************************************)
(* The life of one window: the row the server keeps for it, the requests   *)
(* that launch, move, archive, restore and delete it (routes/sessions.py,  *)
(* routes/workspaces.py), the control socket and registration of each host *)
(* (ws/daemon.py, ws/broker.py), the daemon's session registry and its     *)
(* lifecycle handlers (daemon/src/run.rs, sessions.rs), and the worker     *)
(* process that holds the shell (worker_backend.rs, sessiond/worker.rs).   *)
(*                                                                         *)
(* Requests that change the row are numbered.  A worker and every frame    *)
(* about it carry the number of the launch it came from; a request's kill  *)
(* carries the number of that request, a kill that registration decides on *)
(* the number of the last request at that moment.  The program has no such *)
(* numbers, and no guard below reads one that it does not also find in the *)
(* registry's generations.                                                 *)
(***************************************************************************)
EXTENDS Naturals, Sequences, FiniteSets

CONSTANTS
    Hosts,
    MaxRequests,  \* bound: requests that change the row
    MaxConns,     \* bound: control sockets a host opens
    Requests,     \* the requests made, beside the one that creates the window
    Mishaps       \* which of these happen: a socket drops ("drop"), in the
                  \* middle of a launch too ("cancel"), or while a launch waits
                  \* to use it ("late"); the daemon dies ("crash"); a launch
                  \* fails ("fail"); a worker crashes ("lost"), or outlives a
                  \* restart's wait ("stuck"); registration waits too long for
                  \* its lock or cannot read the rows ("slow"); a request
                  \* overtakes the one before it ("rush"); a signal cannot be
                  \* delivered to a worker ("deaf")

ASSUME LifecycleAssumption ==
    /\ {"nowhere", "undone"} \cap Hosts = {}
    /\ MaxRequests \in Nat
    /\ MaxConns \in Nat
    /\ Requests \subseteq {"restart", "move", "archive", "unarchive", "delete"}
    /\ Mishaps \subseteq {"drop", "cancel", "late", "crash", "fail", "lost", "stuck",
                          "slow", "rush", "deaf"}

VARIABLES
    row,       \* the window's row
    archived,  \* its workspace is archived
    wanted,    \* history: the host the last request wants its shell on, "nowhere",
               \* or "undone": session.started has written over its stop
    clock,     \* the number of requests made
    todo,      \* request -> what is left of it after its commit
    route,     \* _daemon_by_session: the connection the window is routed to
    link,      \* host -> its control socket, the server's side and the frames
    host       \* host -> the daemon and the worker

vars == <<row, archived, wanted, clock, todo, route, link, host>>

Request == 1..MaxRequests

NoRow    == [host |-> "nowhere", status |-> "absent"]
NoRoute  == [host |-> "nowhere", conn |-> 0]
NoWorker == [e |-> 0, st |-> "gone", told |-> "no"]
NoEntry  == [e |-> 0, via |-> 0, ended |-> FALSE, sig |-> FALSE]
AtRest   == [step |-> "idle", e |-> 0]

\* st: how far the socket is; the daemon is discovering (opening) or has sent
\* register (new), the server has read the rows (read), made the connection
\* routable, decided what to stop (sweeping), sent registered (served).
\* lock: lifecycle_lock; live: existing_sessions names the window; adopt,
\* known: valid_existing, known_existing; stop: the decision, 0 for none.
Broken(id) ==
    [id |-> id, st |-> "down", lock |-> "free", live |-> FALSE, adopt |-> FALSE,
     known |-> FALSE, stop |-> 0, up |-> <<>>, down |-> <<>>]

\* The registry entry and its exit forwarder (via: the connection whose channel
\* it holds; ended: it has the worker's exit), the frame being handled, whether
\* discovery was claimed, the delayed KILLs under way.
Fresh ==
    [worker |-> NoWorker, entry |-> NoEntry, busy |-> AtRest, found |-> FALSE,
     later |-> {}]

Init ==
    /\ row = NoRow
    /\ archived = FALSE
    /\ wanted = "nowhere"
    /\ clock = 0
    /\ todo = [n \in Request |-> <<>>]
    /\ route = NoRoute
    /\ link = [h \in Hosts |-> Broken(0)]
    /\ host = [h \in Hosts |-> Fresh]

Online(h)   == link[h].st \in {"read", "routable", "sweeping", "served"}
Routable(h) == link[h].st \in {"routable", "sweeping", "served"}

\* get_daemon_for_host, 0 when there is none.
DaemonFor(h) == IF Routable(h) THEN link[h].id ELSE 0

Current(h, c) == Routable(h) /\ link[h].id = c

Step(op, h, kind, c) == [op |-> op, host |-> h, kind |-> kind, conn |-> c]

-----------------------------------------------------------------------------
(* Requests: the commit, and then, step by step, what it left to do. *)

\* What is left to do, and the host the shell is now wanted on.
Commit(steps, h) ==
    /\ clock < MaxRequests
    /\ "rush" \in Mishaps \/ \A n \in Request : todo[n] = <<>>
    /\ clock' = clock + 1
    /\ todo' = [todo EXCEPT ![clock + 1] = steps]
    /\ wanted' = h
    /\ UNCHANGED <<route, link, host>>

KillSteps(h)         == <<Step("kill", h, "kill", 0), Step("detach", h, "kill", 0)>>
LaunchSteps(h, kind) == <<Step("find", h, kind, 0)>>

\* create_session, create_workspace.  The window's id is new: once.
CreateSession(h) ==
    /\ clock = 0
    /\ row' = [host |-> h, status |-> "starting"]
    /\ Commit(LaunchSteps(h, "create"), h)
    /\ UNCHANGED archived

RestartSession ==
    /\ "restart" \in Requests
    /\ row # NoRow
    /\ Routable(row.host)
    /\ row' = [row EXCEPT !.status = "starting"]
    /\ Commit(LaunchSteps(row.host, "restart"), row.host)
    /\ UNCHANGED archived

\* The row is rebound before the host the window left is sent its kill.
MoveSession(h) ==
    /\ "move" \in Requests
    /\ row # NoRow /\ row.host # h
    /\ Routable(h)
    /\ row' = [host |-> h, status |-> "starting"]
    /\ Commit(KillSteps(row.host) \o LaunchSteps(h, "restart"), h)
    /\ UNCHANGED archived

ArchiveWorkspace ==
    /\ "archive" \in Requests
    /\ row # NoRow /\ ~archived
    /\ row' = [row EXCEPT !.status = "killed"]
    /\ archived' = TRUE
    /\ Commit(KillSteps(row.host), "nowhere")

\* A window whose host is offline stays stopped.
UnarchiveWorkspace ==
    /\ "unarchive" \in Requests
    /\ row # NoRow /\ archived
    /\ archived' = FALSE
    /\ IF Online(row.host)
         THEN /\ row' = [row EXCEPT !.status = "starting"]
              /\ Commit(LaunchSteps(row.host, "restart"), row.host)
         ELSE Commit(<<>>, wanted) /\ UNCHANGED row

\* delete_session, delete_workspace.
DeleteSession ==
    /\ "delete" \in Requests
    /\ row # NoRow
    /\ row' = NoRow
    /\ Commit(KillSteps(row.host), "nowhere")
    /\ UNCHANGED archived

\* Request n comes to its step op; that step becomes s; it is past that step.
At(n, op) == todo[n] # <<>> /\ Head(todo[n]).op = op

Becomes(n, s) == [todo EXCEPT ![n] = <<s>> \o Tail(@)]
Past(n)       == [todo EXCEPT ![n] = Tail(@)]

\* A frame of request e, or decided on after it; overtaken, if another request
\* was made before it was sent.
Order(kind, e, overtaken) == [kind |-> kind, e |-> e, overtaken |-> overtaken]

\* A frame handed to connection c of h: lost, if that is no longer the socket.
Handed(h, c, f) ==
    IF Current(h, c) THEN [link EXCEPT ![h].down = Append(@, f)] ELSE link

\* dispatch_session_launch takes the connection it finds...
FindDaemon(n) ==
    /\ At(n, "find")
    /\ LET s == Head(todo[n])
           c == DaemonFor(s.host)
       IN  todo' = IF c = 0 THEN Past(n)
                            ELSE Becomes(n, Step("attach", s.host, s.kind, c))
    /\ UNCHANGED <<row, archived, wanted, clock, route, link, host>>

\* Slip: the launch does not wait for the connection's lifecycle lock.
AttachAtOnce(n) ==
    /\ At(n, "attach")
    /\ LET s == Head(todo[n])
       IN  /\ todo' = Becomes(n, Step("send", s.host, s.kind, s.conn))
           /\ route' = [host |-> s.host, conn |-> s.conn]
    /\ UNCHANGED <<row, archived, wanted, clock, link, host>>

\* ...waits for its lifecycle lock, and routes the window to it.
AttachSession(n) ==
    /\ At(n, "attach")
    /\ LET s == Head(todo[n])
       IN  /\ todo' = Becomes(n, Step("send", s.host, s.kind, s.conn))
           /\ route' = [host |-> s.host, conn |-> s.conn]
           /\ Current(s.host, s.conn) => link[s.host].lock = "free"
           /\ link' = IF Current(s.host, s.conn)
                        THEN [link EXCEPT ![s.host].lock = "launch"]
                        ELSE link
    /\ UNCHANGED <<row, archived, wanted, clock, host>>

SendLaunch(n) ==
    /\ At(n, "send")
    /\ LET s == Head(todo[n])
           l == Handed(s.host, s.conn, Order(s.kind, n, FALSE))
       IN  /\ todo' = Past(n)
           /\ link' = IF Current(s.host, s.conn)
                        THEN [l EXCEPT ![s.host].lock = "free"]
                        ELSE l
    /\ UNCHANGED <<row, archived, wanted, clock, route, host>>

\* send_session_kill: to the connection the window is routed to if that is the
\* host's, otherwise to the host's.  It takes no lock.
SendSessionKill(n) ==
    /\ At(n, "kill")
    /\ LET h == Head(todo[n]).host
           c == IF route.host = h THEN route.conn ELSE DaemonFor(h)
       IN  link' = Handed(h, c, Order("kill", n, clock # n))
    /\ todo' = Past(n)
    /\ UNCHANGED <<row, archived, wanted, clock, route, host>>

\* detach_session_from_host.
DetachFromHost(n) ==
    /\ At(n, "detach")
    /\ route' = IF route.host = Head(todo[n]).host THEN NoRoute ELSE route
    /\ todo' = Past(n)
    /\ UNCHANGED <<row, archived, wanted, clock, link, host>>

-----------------------------------------------------------------------------
(* The server: registration, and the daemon's session frames. *)

\* A frame before `register` is refused.
RefuseEarlyFrame(h) ==
    /\ link[h].st = "new"
    /\ link[h].up # <<>> /\ Head(link[h].up).kind # "register"
    /\ link' = [link EXCEPT ![h].up = Tail(@)]
    /\ UNCHANGED <<row, archived, wanted, clock, todo, route, host>>

\* _sort_existing_sessions, the first read: what to adopt, what is known.
ReadRows(h) ==
    /\ link[h].st = "new"
    /\ link[h].up # <<>> /\ Head(link[h].up).kind = "register"
    /\ LET live == Head(link[h].up).live
       IN  link' = [link EXCEPT ![h].up = Tail(@),
                                ![h].st = "read",
                                ![h].live = live,
                                ![h].adopt = live /\ row.host = h,
                                ![h].known = live /\ row # NoRow]
    /\ UNCHANGED <<row, archived, wanted, clock, todo, route, host>>

\* accept_daemon_owner, attach_session_to_daemon for each adopted session.
AcceptDaemon(h) ==
    /\ link[h].st = "read"
    /\ link' = [link EXCEPT ![h].st = "routable"]
    /\ route' = IF link[h].adopt THEN [host |-> h, conn |-> link[h].id] ELSE route
    /\ UNCHANGED <<row, archived, wanted, clock, todo, host>>

\* Slip: only a window that was stopped is looked for, not one that moved.
OnlyStopped(h) == row.host = h /\ row.status = "killed"

\* A reported worker to stop: its row says stopped, names another host, or has
\* gone since the first read.
LeftRunning(h) ==
    \/ row.host = h /\ row.status = "killed"
    \/ row # NoRow /\ row.host # h
    \/ row = NoRow /\ link[h].known

\* _decide_workers_to_stop, under the lifecycle lock if anything was reported.
DecideWorkersToStop(h) ==
    /\ link[h].st = "routable"
    /\ \/ /\ link[h].live
          /\ link[h].lock = "free"
          /\ \E stop \in IF "slow" \in Mishaps THEN {TRUE, FALSE} ELSE {TRUE} :
               link' = [link EXCEPT ![h].st = "sweeping",
                                    ![h].lock = "sweep",
                                    ![h].stop = IF stop /\ LeftRunning(h)
                                                  THEN clock ELSE 0]
       \/ /\ link[h].live => "slow" \in Mishaps
          /\ link' = [link EXCEPT ![h].st = "sweeping"]
    /\ UNCHANGED <<row, archived, wanted, clock, todo, route, host>>

\* `registered`, then the kills: _stop_workers_left_running.
SendRegistered(h) ==
    /\ link[h].st = "sweeping"
    /\ LET l == link[h]
       IN  link' = [link EXCEPT
             ![h].st = "served",
             ![h].lock = IF l.lock = "sweep" THEN "free" ELSE l.lock,
             ![h].stop = 0,
             ![h].down = IF l.stop = 0 THEN l.down
                         ELSE Append(l.down, Order("kill", l.stop, FALSE))]
    /\ UNCHANGED <<row, archived, wanted, clock, todo, route, host>>

\* The receive loop comes to a frame of this kind.
Receives(h, kind) ==
    link[h].st = "served" /\ link[h].up # <<>> /\ Head(link[h].up).kind = kind

\* Slip: the frame is believed whichever host the row names.
StartedAnywhere(h) ==
    /\ Receives(h, "started")
    /\ link' = [link EXCEPT ![h].up = Tail(@)]
    /\ row' = [row EXCEPT !.status = "running"]
    /\ wanted' = IF wanted = "nowhere" THEN "undone" ELSE wanted
    /\ route' = [host |-> h, conn |-> link[h].id]
    /\ UNCHANGED <<archived, clock, todo, host>>

\* session.started
SessionStarted(h) ==
    /\ Receives(h, "started")
    /\ link' = [link EXCEPT ![h].up = Tail(@)]
    /\ row' = IF row.host = h THEN [row EXCEPT !.status = "running"] ELSE row
    /\ wanted' = IF row.host = h /\ wanted = "nowhere" THEN "undone" ELSE wanted
    /\ route' = IF row.host = h THEN [host |-> h, conn |-> link[h].id] ELSE route
    /\ UNCHANGED <<archived, clock, todo, host>>

\* The daemon's socket ends: the handler in progress is dropped with it, the
\* registry, its exit forwarders and the delayed KILLs live on.
Cut(h) ==
    /\ link' = [link EXCEPT ![h] = Broken(@.id)]
    /\ host' = [host EXCEPT ![h].busy = AtRest]

\* session.exit of a window bound to this host.  It is closed, if it turns out
\* to be routed to another connection.
SessionExit(h) ==
    /\ Receives(h, "exit")
    /\ row.host = h
    /\ row' = [row EXCEPT !.status =
                 IF Head(link[h].up).sig \/ row.status = "killed"
                   THEN "killed" ELSE "exited"]
    /\ IF route \in {NoRoute, [host |-> h, conn |-> link[h].id]}
         THEN /\ link' = [link EXCEPT ![h].up = Tail(@)]
              /\ route' = NoRoute
              /\ UNCHANGED host
         ELSE Cut(h) /\ UNCHANGED route
    /\ UNCHANGED <<archived, wanted, clock, todo>>

\* session.exit of a window that has moved on, or is gone.
SessionExitElsewhere(h) ==
    /\ Receives(h, "exit")
    /\ row.host # h
    /\ link' = [link EXCEPT ![h].up = Tail(@)]
    /\ route' = IF route = [host |-> h, conn |-> link[h].id] THEN NoRoute ELSE route
    /\ UNCHANGED <<row, archived, wanted, clock, todo, host>>

-----------------------------------------------------------------------------
(* The daemon. *)

Connected(h) == link[h].st # "down"

\* A frame the daemon puts on its socket, if it has one.
Says(h, f) == [link EXCEPT ![h].up = Append(@, f)]

Started(e)     == [kind |-> "started", e |-> e, sig |-> FALSE]
Exited(e, sig) == [kind |-> "exit", e |-> e, sig |-> sig]

Entry(d, c, ended) == [e |-> d.worker.e, via |-> c, ended |-> ended, sig |-> FALSE]

\* adopt_worker_session, for a session not in the registry.  A worker whose shell
\* has ended hands its exit over and leaves; what a crashed one left is removed.
Adopting(d, c) ==
    IF d.entry # NoEntry THEN d
    ELSE CASE d.worker.st = "running" ->
                [d EXCEPT !.entry = Entry(d, c, FALSE)]
           [] d.worker.st = "lingering" ->
                [d EXCEPT !.entry = Entry(d, c, TRUE), !.worker.st = "leaving"]
           [] d.worker.st = "stale" -> [d EXCEPT !.worker = NoWorker]
           [] OTHER -> d

\* A new control socket; the process's first one discovers the workers.
Connect(h) ==
    /\ link[h].st = "down"
    /\ link[h].id < MaxConns
    /\ link' = [link EXCEPT ![h] = [Broken(@.id + 1) EXCEPT !.st = "opening"]]
    /\ LET d == IF host[h].found THEN host[h] ELSE Adopting(host[h], link[h].id + 1)
       IN  host' = [host EXCEPT ![h] = [d EXCEPT !.found = TRUE]]
    /\ UNCHANGED <<row, archived, wanted, clock, todo, route>>

SendRegister(h) ==
    /\ link[h].st = "opening"
    /\ link' = [link EXCEPT
          ![h].st = "new",
          ![h].up = Append(@, [kind |-> "register", live |-> host[h].entry # NoEntry])]
    /\ UNCHANGED <<row, archived, wanted, clock, todo, route, host>>

\* The dispatch loop, which handles one frame at a time, comes to this one.
Handles(h, kind) ==
    /\ link[h].down # <<>> /\ Head(link[h].down).kind = kind
    /\ host[h].busy = AtRest

Running(d) == d.worker.st = "running"

\* The registered worker, if its shell still runs, gets a signal.
Signalled(d, signal) ==
    IF Running(d) /\ d.entry.e = d.worker.e
      THEN [d EXCEPT !.worker.told = IF @ = "kill" THEN @ ELSE signal] ELSE d

\* A signal is acknowledged by its worker, or it cannot be delivered.
Delivered == IF "deaf" \in Mishaps THEN BOOLEAN ELSE {TRUE}

\* handle_session_create
HandleCreate(h) ==
    /\ Handles(h, "create")
    /\ link' = [link EXCEPT ![h].down = Tail(@)]
    /\ host' = [host EXCEPT ![h].busy =
                  [step |-> "launching", e |-> Head(link[h].down).e]]
    /\ UNCHANGED <<row, archived, wanted, clock, todo, route>>

\* handle_session_restart, holding the transition lock: TERM...
HandleRestart(h) ==
    /\ Handles(h, "restart")
    /\ link' = [link EXCEPT ![h].down = Tail(@)]
    /\ \E delivered \in Delivered :
         host' = [host EXCEPT ![h] =
                    [(IF delivered THEN Signalled(@, "term") ELSE @) EXCEPT !.busy =
                       [step |-> "ending", e |-> Head(link[h].down).e]]]
    /\ UNCHANGED <<row, archived, wanted, clock, todo, route>>

\* ...KILL, when that did not help or could not be delivered...
EscalateRestart(h) ==
    /\ host[h].busy.step = "ending"
    /\ Signalled(host[h], "kill") # host[h]
    /\ host' = [host EXCEPT ![h] = Signalled(@, "kill")]
    /\ UNCHANGED <<row, archived, wanted, clock, todo, route, link>>

\* ...and, once the old worker's socket is gone, the launch.  With no entry in
\* the registry nothing is waited for; a socket still there is given up on, its
\* worker slow to go or out of reach of the KILL too.
EndOldWorker(h) ==
    /\ host[h].busy.step = "ending"
    /\ \/ host[h].entry = NoEntry
       \/ host[h].worker = NoWorker
       \/ /\ "stuck" \in Mishaps \/ host[h].worker.st = "stale"
          /\ Signalled(host[h], "kill") = host[h]
       \/ "deaf" \in Mishaps
    /\ IF host[h].worker = NoWorker
         THEN /\ host' = [host EXCEPT ![h].entry = NoEntry,
                                      ![h].busy.step = "launching"]
              /\ UNCHANGED link
         ELSE /\ host' = [host EXCEPT ![h].entry = NoEntry, ![h].busy = AtRest]
              /\ link' = Says(h, Exited(host[h].busy.e, TRUE))
    /\ UNCHANGED <<row, archived, wanted, clock, todo, route>>

\* worker_backend::launch, refused while another worker holds the endpoint.
LaunchWorker(h) ==
    /\ host[h].busy.step = "launching"
    /\ host[h].worker.st \in {"gone", "stale"}
    /\ host' = [host EXCEPT
          ![h].worker = [e |-> host[h].busy.e, st |-> "running", told |-> "no"],
          ![h].busy.step = "registering"]
    /\ UNCHANGED <<row, archived, wanted, clock, todo, route, link>>

LaunchFails(h) ==
    /\ host[h].busy.step = "launching"
    /\ host[h].worker.st \notin {"gone", "stale"} \/ "fail" \in Mishaps
    /\ host' = [host EXCEPT ![h].busy = AtRest]
    /\ link' = Says(h, Exited(host[h].busy.e, TRUE))
    /\ UNCHANGED <<row, archived, wanted, clock, todo, route>>

\* Slip: an exit that came before the entry is not noticed.
RegisterAsAlive(h) ==
    /\ host[h].busy.step = "registering"
    /\ LET d == host[h]
       IN  /\ host' = [host EXCEPT
                 ![h].entry = [e |-> d.busy.e, via |-> link[h].id, ended |-> FALSE,
                               sig |-> FALSE],
                 ![h].busy = AtRest]
           /\ link' = Says(h, Started(d.busy.e))
    /\ UNCHANGED <<row, archived, wanted, clock, todo, route>>

\* register_attached: the entry replaces any other.
RegisterAttached(h) ==
    /\ host[h].busy.step = "registering"
    /\ LET d == host[h]
       IN  /\ host' = [host EXCEPT
                 ![h].entry = [e |-> d.busy.e, via |-> link[h].id,
                               ended |-> ~Running(d), sig |-> d.worker.st = "stale"],
                 ![h].busy = AtRest]
           /\ link' = Says(h, Started(d.busy.e))
    /\ UNCHANGED <<row, archived, wanted, clock, todo, route>>

\* handle_session_kill: a worker not in the registry is adopted first.  A TERM
\* delivered leaves a KILL for later, fenced to the entry's generation; one that
\* is not is followed by a KILL at once, and if that fails too the worker runs on
\* (kill_failed, which the server only logs).
HandleKill(h) ==
    /\ Handles(h, "kill")
    /\ LET d == Adopting(host[h], link[h].id)
           reachable == Running(d) /\ d.entry.e = d.worker.e
           l == IF d.entry # host[h].entry THEN Says(h, Started(d.entry.e)) ELSE link
       IN  /\ \E term, kill \in Delivered :
                host' = [host EXCEPT ![h] =
                  CASE term -> [Signalled(d, "term") EXCEPT
                                  !.later = IF reachable THEN @ \cup {d.entry.e} ELSE @]
                    [] ~term /\ kill -> Signalled(d, "kill")
                    [] ~term /\ ~kill -> d]
           /\ link' = [l EXCEPT ![h].down = Tail(@)]
    /\ UNCHANGED <<row, archived, wanted, clock, todo, route>>

\* shutdown_if_current: the delayed KILL, if its generation is still current.
KillLater(h) ==
    /\ host[h].busy.step # "ending"
    /\ \E e \in host[h].later, delivered \in Delivered :
         host' = [host EXCEPT ![h] =
                    [(IF delivered /\ @.entry.e = e THEN Signalled(@, "kill") ELSE @)
                       EXCEPT !.later = @ \ {e}]]
    /\ UNCHANGED <<row, archived, wanted, clock, todo, route, link>>

\* spawn_exit_forwarder waits for the transition lock, takes the entry out and
\* reports on the channel it was given.  That channel may be closed by now.
ForwardExit(h) ==
    /\ host[h].entry.ended
    /\ host[h].busy.step # "ending"
    /\ LET x == host[h].entry
       IN  link' = IF Connected(h) /\ x.via = link[h].id
                     THEN Says(h, Exited(x.e, x.sig)) ELSE link
    /\ host' = [host EXCEPT ![h].entry = NoEntry]
    /\ UNCHANGED <<row, archived, wanted, clock, todo, route>>

-----------------------------------------------------------------------------
(* The worker, and what goes wrong. *)

\* The shell ends, by itself or because it was told to.  A supervisor that is
\* attached gets the exit at once and the worker leaves; otherwise it lingers.
ShellEnds(h) ==
    /\ Running(host[h])
    /\ LET d == host[h]
           registered == d.entry.e = d.worker.e
       IN  host' = [host EXCEPT
             ![h].worker.st = IF registered \/ d.busy.step = "registering"
                                THEN "leaving" ELSE "lingering",
             ![h].entry = IF registered THEN [d.entry EXCEPT !.ended = TRUE] ELSE d.entry]
    /\ UNCHANGED <<row, archived, wanted, clock, todo, route, link>>

\* The worker process dies and its shell with it.  Its endpoint stays behind, and
\* a supervisor that is attached makes of it an exit, worker_lost.
WorkerCrashes(h) ==
    /\ "lost" \in Mishaps
    /\ Running(host[h])
    /\ LET d == host[h]
       IN  host' = [host EXCEPT
             ![h].worker.st = "stale",
             ![h].entry = IF d.entry.e = d.worker.e
                            THEN [d.entry EXCEPT !.ended = TRUE, !.sig = TRUE]
                            ELSE d.entry]
    /\ UNCHANGED <<row, archived, wanted, clock, todo, route, link>>

\* Its endpoint goes, after the exit was delivered or 60 s without a supervisor.
WorkerGone(h) ==
    /\ host[h].worker.st \in {"leaving", "lingering"}
    /\ host' = [host EXCEPT ![h].worker = NoWorker]
    /\ UNCHANGED <<row, archived, wanted, clock, todo, route, link>>

\* The server drops the connection's routes as the socket ends.
Unrouted(h) ==
    route' = IF route = [host |-> h, conn |-> link[h].id] THEN NoRoute ELSE route

\* A daemon that loses its socket connects again.
MayBreak(h) ==
    /\ Connected(h)
    /\ link[h].id < MaxConns
    /\ host[h].busy = AtRest \/ "cancel" \in Mishaps
    /\ \/ "late" \in Mishaps
       \/ \A n \in Request : At(n, "attach") => Head(todo[n]).host # h

SocketDrops(h) ==
    /\ "drop" \in Mishaps
    /\ MayBreak(h)
    /\ Cut(h)
    /\ Unrouted(h)
    /\ UNCHANGED <<row, archived, wanted, clock, todo>>

\* spawnd dies: what it knew of its workers goes, the workers stay.
DaemonDies(h) ==
    /\ "crash" \in Mishaps
    /\ MayBreak(h)
    /\ link' = [link EXCEPT ![h] = Broken(@.id)]
    /\ host' = [host EXCEPT ![h] = [Fresh EXCEPT !.worker = host[h].worker]]
    /\ Unrouted(h)
    /\ UNCHANGED <<row, archived, wanted, clock, todo>>

RequestStep(n) ==
    \/ FindDaemon(n) \/ AttachSession(n) \/ SendLaunch(n)
    \/ SendSessionKill(n) \/ DetachFromHost(n)

ServerStep(h) ==
    \/ RefuseEarlyFrame(h) \/ ReadRows(h) \/ AcceptDaemon(h)
    \/ DecideWorkersToStop(h) \/ SendRegistered(h)
    \/ SessionStarted(h) \/ SessionExit(h) \/ SessionExitElsewhere(h)

DaemonStep(h) ==
    \/ SendRegister(h)
    \/ HandleCreate(h) \/ HandleRestart(h) \/ EndOldWorker(h)
    \/ LaunchWorker(h) \/ LaunchFails(h) \/ RegisterAttached(h)
    \/ HandleKill(h)

Ask ==
    \/ \E h \in Hosts : CreateSession(h) \/ MoveSession(h)
    \/ RestartSession \/ ArchiveWorkspace \/ UnarchiveWorkspace \/ DeleteSession

Next ==
    \/ Ask
    \/ \E n \in Request : RequestStep(n)
    \/ \E h \in Hosts :
         \/ ServerStep(h) \/ DaemonStep(h)
         \/ Connect(h) \/ EscalateRestart(h) \/ KillLater(h) \/ ForwardExit(h)
         \/ ShellEnds(h) \/ WorkerCrashes(h) \/ WorkerGone(h)
         \/ SocketDrops(h) \/ DaemonDies(h)

Spec == Init /\ [][Next]_vars

\* The server's and the daemon's tasks run on, and so do the daemon's timers
\* and its reconnect loop; a shell ends when it is sent KILL, and only then is
\* it sure to; a worker that has handed over its exit leaves.
KilledShellEnds(h) == host[h].worker.told = "kill" /\ ShellEnds(h)

Fairness ==
    /\ \A n \in Request : WF_vars(RequestStep(n))
    /\ \A h \in Hosts :
         /\ WF_vars(ServerStep(h))
         /\ WF_vars(DaemonStep(h))
         /\ WF_vars(Connect(h))
         /\ WF_vars(EscalateRestart(h))
         /\ WF_vars(KillLater(h))
         /\ WF_vars(ForwardExit(h))
         /\ WF_vars(KilledShellEnds(h))
         /\ WF_vars(WorkerGone(h))

FairSpec == Spec /\ Fairness

-----------------------------------------------------------------------------
(* Properties. *)

Number == 0..MaxRequests
Told   == {"no", "term", "kill"}
ConnId == 0..MaxConns

LinkType ==
    [id: ConnId, lock: {"free", "launch", "sweep"}, stop: Number,
     st: {"down", "opening", "new", "read", "routable", "sweeping", "served"},
     live: BOOLEAN, adopt: BOOLEAN, known: BOOLEAN,
     up: Seq([kind: {"register"}, live: BOOLEAN]
             \cup [kind: {"started", "exit"}, e: Number, sig: BOOLEAN]),
     down: Seq([kind: {"create", "restart", "kill"}, e: Number, overtaken: BOOLEAN])]

HostType ==
    [worker: [e: Number, st: {"gone", "running", "lingering", "leaving", "stale"},
              told: Told],
     entry: [e: Number, via: ConnId, ended: BOOLEAN, sig: BOOLEAN],
     busy: [step: {"idle", "ending", "launching", "registering"}, e: Number],
     found: BOOLEAN, later: SUBSET Number]

\* Type correctness of the rows, sockets, registries and workers modelled here.
LifecycleTypeOK ==
    /\ row \in {NoRow} \cup
               [host: Hosts, status: {"starting", "running", "exited", "killed"}]
    /\ archived \in BOOLEAN
    /\ wanted \in Hosts \cup {"nowhere", "undone"}
    /\ clock \in Number
    /\ todo \in [Request -> Seq([op: {"find", "attach", "send", "kill", "detach"},
                                 host: Hosts, kind: {"create", "restart", "kill"},
                                 conn: ConnId])]
    /\ route \in {NoRoute} \cup [host: Hosts, conn: ConnId]
    /\ link \in [Hosts -> LinkType]
    /\ host \in [Hosts -> HostType]

\* A signal is meant for the worker it reaches.  A kill that registration decided
\* on (_decide_workers_to_stop) never ends a shell launched by a later request,
\* whatever was restarted, restored or moved back meanwhile; nor does a request's
\* own kill (send_session_kill), unless a later request was made before the kill
\* was sent; and a delayed KILL (shutdown_if_current) reaches only a shell that had
\* its TERM.  A restart alone ends whatever shell it finds.
SignalsFindTheirWorker ==
    [][\A h \in Hosts :
         LET w == host[h].worker
             f == Head(link[h].down)
         IN  (w.e = host'[h].worker.e /\ w.told = "no" /\ host'[h].worker.told # "no")
             => \/ host'[h].busy.step = "ending"
                \/ link'[h].down # link[h].down /\ (f.e >= w.e \/ f.overtaken)]_vars

\* A worker nobody wants stops: in the end the shell of a window that has a row
\* runs on a host only if the row says so and the last request wants it there,
\* however kills were lost with their sockets, because registration sends them
\* again (_stop_workers_left_running).  It has nothing to send for a window
\* without a row, nor when a late session.started has written over the stop, which
\* ArchivedWindowsStop is about.
UnwantedWorkersStop ==
    <>[](row # NoRow =>
           \A h \in Hosts :
             Running(host[h]) =>
               row.host = h /\ row.status # "killed" /\ wanted \in {h, "undone"})

\* An archived window costs the host nothing: once its workspace is archived, and
\* nobody restarts it there, its shell does not run for good.  session.started
\* writes "running" over the "killed" of the archive, and if the kill was lost with
\* its socket the next registration leaves the shell alone.
ArchivedWindowsStop ==
    <>[](archived /\ wanted \notin Hosts => \A h \in Hosts : ~Running(host[h]))

\* The row comes to tell the truth: while each host is on the first control
\* socket it opened, and once requests stop, the row says "running" if and only
\* if the window's shell runs on the host it names.
RowsTellTheTruth ==
    <>[]((row # NoRow /\ \A h \in Hosts : link[h].id <= 1)
           => (row.status = "running" <=> Running(host[row.host])))

\* An exit is reported however often the host reconnects: a row does not say
\* "running" for good when the window's shell has ended.  The exit forwarder
\* reports on the channel of the connection that launched or adopted the shell.
ExitsAreReported ==
    <>[](row.status = "running" => Running(host[row.host]))

\* A crashed worker does not stand in the way: session.restart gives up on the
\* launch only while a worker process still holds the window's endpoint.
CrashedWorkersAreReplaced ==
    [][\A h \in Hosts :
         (/\ host[h].busy.step = "ending" /\ host'[h].busy = AtRest
          /\ Len(link'[h].up) > Len(link[h].up))
         => host[h].worker.st # "stale"]_vars

=============================================================================
