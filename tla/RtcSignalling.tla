---------------------------- MODULE RtcSignalling ----------------------------
(***************************************************************************)
(* Signalling for a host's device connections, end to end: the daemon's    *)
(* control sockets and their signal pumps (ws/daemon.py), the browsers'    *)
(* relays (ws/host.py), the broker's table of bindings (BindingTable) and  *)
(* the daemon's peers and held statuses (daemon/src/rtc.rs, rtc_pair.rs).  *)
(* One host, one server process; who owns the host is HostOwnership's      *)
(* matter, and here an ownership check may fail at any time.               *)
(*                                                                         *)
(* A handler is split into steps where it awaits, so what it read before   *)
(* may be stale when it acts.  Timers are not stored: one that acts only if *)
(* its deadline and its binding still stand is enabled exactly then.       *)
(***************************************************************************)
EXTENDS BindingTable, Sequences, SequencesExt

CONSTANTS
    MaxRestarts,     \* bound: ICE restarts asked for
    MaxRevocations,  \* bound: device revocations the daemon learns of
    Mishaps          \* which of these happen: an ownership check fails
                     \* ("fence"), the database fails ("database"), the daemon's
                     \* outgoing channel is full ("full"), an offer is sent on
                     \* a socket before its `registered` ("early")

\* Nonces are numbered in the order of the offers they were made for, daemon
\* sockets in the order they were opened (their owner generations).
ASSUME SignallingAssumption ==
    /\ Nonce = 1..Cardinality(Nonce)
    /\ Gen = 1..Cardinality(Gen)
    /\ MaxRestarts \in Nat
    /\ MaxRevocations \in Nat
    /\ Mishaps \subseteq {"fence", "database", "full", "early"}

VARIABLES
    sock,     \* Gen -> the server's side of a daemon socket, and what it carries
    relay,    \* Channel -> a browser's relay: the bindings it holds
    daemon,   \* the daemon: its connection, its peers, its held statuses
    spent     \* how much of each bound is used

vars == <<table, sock, relay, daemon, spent>>

\* Stages of a daemon socket on the server: after `gone` it is out of the
\* broker.  The receive loop is in Looping, the signal pump runs in Pumping.
Looping     == {"accepted", "registered", "reconciling"}
Pumping     == Looping \cup {"ended", "revoking", "leaving"}
InBroker    == Pumping \cup {"parting"}
Stage       == InBroker \cup {"idle", "claiming", "gone"}

\* superseded_by_newer, superseded_close_started; keep: preserve_rtc; offered:
\* the register frame's live_bindings; todo, unknown: what is left to revoke;
\* hand: the status being routed; pump: the signal being processed; sig: the
\* host channel's signals for this socket; up and down: frames under way.
Closed ==
    [st |-> "gone", super |-> FALSE, shut |-> FALSE, keep |-> FALSE,
     offered |-> {}, todo |-> {}, unknown |-> {}, hand |-> {}, pump |-> {},
     sig |-> <<>>, up |-> <<>>, down |-> <<>>]

Idle == [Closed EXCEPT !.st = "idle"]

Frame(kind, s, n, g) == [kind |-> kind, sid |-> s, nonce |-> n, gen |-> g]

RegisteredFrame == [kind |-> "registered"]

Status(s, n, what) == [sid |-> s, nonce |-> n, status |-> what]

Terminal(f) == f.status \in {"failed", "unavailable"}

\* The socket every ownership check finds: accepted, and no newer one was.
Owner(g) ==
    /\ sock[g].st \in InBroker
    /\ \A h \in Gen : h > g => sock[h].st \in {"idle", "claiming"}

\* A frame for the daemon is lost once the daemon has left the socket.
Sent(k, g, f) ==
    IF daemon.conn = g THEN [k EXCEPT ![g].down = Append(@, f)] ELSE k

-----------------------------------------------------------------------------
(* The server: registration and reconciliation. *)

\* accept_daemon_owner: the predecessor, if it is still in the broker, is told
\* to close, unless a close of it is already under way.
Accept(g) ==
    /\ sock[g].st = "claiming"
    /\ \A h \in Gen : h > g => sock[h].st \in {"idle", "claiming"}
    /\ sock' = [h \in Gen |->
                  IF h = g THEN [sock[g] EXCEPT !.st = "accepted"]
                  ELSE IF Owner(h) /\ ~sock[h].shut
                         THEN [sock[h] EXCEPT !.super = TRUE, !.shut = TRUE]
                         ELSE sock[h]]
    /\ UNCHANGED <<table, relay, daemon, spent>>

\* A claim overtaken by a newer one, or one whose socket died first.
Refuse(g) ==
    /\ sock[g].st = "claiming"
    /\ \/ \E h \in Gen : h > g /\ sock[h].st \notin {"idle", "claiming"}
       \/ daemon.conn # g
    /\ sock' = [sock EXCEPT ![g] = Closed]
    /\ UNCHANGED <<table, relay, daemon, spent>>

SendRegistered(g) ==
    /\ sock[g].st = "accepted"
    /\ sock' = Sent([sock EXCEPT ![g].st = "registered"], g, RegisteredFrame)
    /\ UNCHANGED <<table, relay, daemon, spent>>

\* Slip: what was rebound is not taken off the list.
UnknownIfReported(t, offered) == offered

UnknownTo(t, offered) == offered \ IdentitiesOf(t, Rebindable(t, offered))

\* _reconcile_live_bindings: the broker's decision, then one message a step.
ReconcileBindings(g) ==
    /\ sock[g].st = "registered"
    /\ LET lost == Awaiting(table) \ Rebindable(table, sock[g].offered)
       IN  /\ table' = Rebound(table, g, sock[g].offered)
           /\ sock' = [sock EXCEPT
                 ![g].st = "reconciling",
                 ![g].offered = {},
                 ![g].todo = {[sid |-> s, b |-> table.live[s]] : s \in lost},
                 ![g].unknown = UnknownTo(table, sock[g].offered)]
    /\ UNCHANGED <<relay, daemon, spent>>

RevokeAbsent(g) ==
    /\ sock[g].st = "reconciling"
    /\ \E x \in sock[g].todo :
         /\ table' = RetiredIf(table, x.sid, OnSameRoute(table, x.sid, x.b))
         /\ sock' = Sent([sock EXCEPT ![g].todo = @ \ {x}], g,
                         Frame("close", x.sid, x.b.nonce, x.b.gen))
    /\ UNCHANGED <<relay, daemon, spent>>

CloseUnknown(g) ==
    /\ sock[g].st = "reconciling"
    /\ sock[g].todo = {}
    /\ \E i \in sock[g].unknown :
         sock' = Sent([sock EXCEPT ![g].unknown = @ \ {i}], g,
                      Frame("close", i[1], i[3], i[2]))
    /\ UNCHANGED <<table, relay, daemon, spent>>

\* With nothing left to reconcile, the receive loop reads on.
Serving(g) ==
    sock[g].st = "reconciling" /\ sock[g].todo = {} /\ sock[g].unknown = {}

-----------------------------------------------------------------------------
(* The server: the daemon's statuses.  The handler looks the binding up, awaits *)
(* the routing of the status to the browser, then acts on what it read.         *)

\* Slip: a status is matched by its signalling id alone.
SpokenForById(t, g, f) == OnDaemon(t, g) \cap {f.sid}

SpokenFor(t, g, f) ==
    {s \in OnDaemon(t, g) \cap {f.sid} : t.live[s].nonce = f.nonce}

Hear(g) ==
    /\ Serving(g)
    /\ sock[g].hand = {} /\ sock[g].up # <<>>
    /\ LET f == Head(sock[g].up)
           t == Pruned(table)
       IN  /\ table' = t
           /\ sock' = [sock EXCEPT
                 ![g].up = Tail(@),
                 ![g].hand = {[f |-> f, b |-> t.live[s]] : s \in SpokenFor(t, g, f)}]
    /\ UNCHANGED <<relay, daemon, spent>>

\* A `connected` marks the record that was read; a goodbye frees the binding
\* whoever its browser is by then; a `failed` only one not known as connected.
AfterRouting(f, b) ==
    IF f.status = "connected"
      THEN IF SameRecord(table, f.sid, b) THEN Marked(table, f.sid) ELSE table
      ELSE RetiredIf(table, f.sid,
                     /\ ~(f.status = "failed" /\ b.connected)
                     /\ SameBinding(table, f.sid, b))

Route(g) ==
    \E h \in sock[g].hand :
      /\ table' = AfterRouting(h.f, h.b)
      /\ sock' = [sock EXCEPT ![g].hand = {}]
      /\ UNCHANGED <<relay, daemon, spent>>

\* The routing finds the socket no owner: the loop ends.
RouteFails(g) ==
    /\ "fence" \in Mishaps
    /\ sock[g].hand # {}
    /\ sock' = [sock EXCEPT ![g].hand = {}, ![g].shut = TRUE, ![g].st = "ended"]
    /\ UNCHANGED <<table, relay, daemon, spent>>

-----------------------------------------------------------------------------
(* The server: the signal pump, one signal at a time.                           *)

NextSignal(g) ==
    /\ sock[g].st \in Pumping
    /\ sock[g].pump = {} /\ sock[g].sig # <<>>

Dequeued(g) == [sock EXCEPT ![g].sig = Tail(@)]

\* The binding a signal names on this socket, through its own relay.
Named(t, g, f) ==
    {s \in OnDaemon(t, g) \cap {f.sid} :
       t.live[s].chan = f.chan /\ t.live[s].nonce = f.nonce}

PumpOffer(g) ==
    /\ NextSignal(g) /\ Owner(g)
    /\ sock[g].st = "accepted" => "early" \in Mishaps
    /\ LET f == Head(sock[g].sig)
           t == Pruned(table)
           new == Registrable(t, f.sid, f.nonce, g, f.chan, "host")
       IN  /\ f.kind = "offer"
           /\ table' = Registered(t, f.sid, f.nonce, g, f.chan, "host")
           /\ sock' = [Dequeued(g) EXCEPT ![g].pump = IF new THEN {f} ELSE {}]
    /\ UNCHANGED <<relay, daemon, spent>>

PumpRestart(g) ==
    /\ NextSignal(g) /\ Owner(g)
    /\ LET f == Head(sock[g].sig)
           t == Pruned(table)
           named == {s \in Named(t, g, f) : t.live[s].gen = f.gen}
       IN  /\ f.kind = "restart"
           /\ table' = t
           /\ sock' = IF named = {} THEN Dequeued(g)
                      ELSE Sent(Dequeued(g), g,
                                Frame("restart", f.sid, f.nonce, f.gen))
    /\ UNCHANGED <<relay, daemon, spent>>

PumpClose(g) ==
    /\ NextSignal(g) /\ Owner(g)
    /\ LET f == Head(sock[g].sig)
           t == Pruned(table)
       IN  /\ f.kind = "close"
           /\ table' = t
           /\ sock' = [Dequeued(g) EXCEPT
                         ![g].pump = IF Named(t, g, f) = {} THEN {} ELSE {f}]
    /\ UNCHANGED <<relay, daemon, spent>>

\* A signal for a socket that is no longer the accepted one, or one that met a
\* database failure, is dropped.
PumpDrop(g) ==
    /\ NextSignal(g)
    /\ Owner(g) => "database" \in Mishaps
    /\ sock' = Dequeued(g)
    /\ UNCHANGED <<table, relay, daemon, spent>>

ThroughRoute(f) ==
    f.sid \in DOMAIN table.live
      /\ table.live[f.sid].chan = f.chan /\ table.live[f.sid].nonce = f.nonce

\* Still the owner after the await: the frame goes out; a close frees first.
PumpSend(g) ==
    \E f \in sock[g].pump :
      /\ table' = RetiredIf(table, f.sid, f.kind = "close" /\ ThroughRoute(f))
      /\ sock' = Sent([sock EXCEPT ![g].pump = {}], g,
                      Frame(f.kind, f.sid, f.nonce, f.gen))
      /\ UNCHANGED <<relay, daemon, spent>>

\* No longer the owner: a new binding is taken back, and the socket closed.  The
\* pump ends; here it may still take signals that come before the loop sees it.
PumpFail(g) ==
    \E f \in sock[g].pump :
      /\ "fence" \in Mishaps
      /\ table' = RetiredIf(table, f.sid, f.kind = "offer" /\ ThroughRoute(f))
      /\ sock' = [sock EXCEPT ![g].pump = {}, ![g].sig = <<>>, ![g].shut = TRUE]
      /\ UNCHANGED <<relay, daemon, spent>>

-----------------------------------------------------------------------------
(* The server: a socket ends.                                                   *)

\* Any ownership check, in any task of the socket, may find the fence broken.
CloseForConsistency(g) ==
    /\ "fence" \in Mishaps
    /\ sock[g].st \in Looping /\ ~sock[g].shut
    /\ sock' = [sock EXCEPT ![g].shut = TRUE]
    /\ UNCHANGED <<table, relay, daemon, spent>>

\* preserve_rtc, for a daemon that keeps its peers across reconnects.
Preserves(g) == sock[g].st # "accepted" /\ ~sock[g].super

\* The receive loop sees its socket closed, by either side; `finally` begins:
\* the bindings are orphaned, or listed to be revoked.
Finally(g) ==
    /\ \/ sock[g].st = "ended"
       \/ /\ sock[g].st \in Looping /\ sock[g].hand = {}
          /\ daemon.conn # g \/ sock[g].shut
    /\ LET t == IF Preserves(g) THEN DaemonOrphaned(table, g) ELSE Pruned(table)
           left == IF Preserves(g) THEN {} ELSE OnDaemon(t, g)
       IN  /\ table' = t
           /\ sock' = [sock EXCEPT
                 ![g].st = IF Preserves(g) THEN "leaving" ELSE "revoking",
                 ![g].keep = Preserves(g),
                 ![g].offered = {}, ![g].unknown = {}, ![g].up = <<>>,
                 ![g].todo = {[sid |-> s, b |-> t.live[s]] : s \in left}]
    /\ UNCHANGED <<relay, daemon, spent>>

\* _revoke_host_rtc_sessions: its rtc.close names no generation.
Revoke(g) ==
    /\ sock[g].st = "revoking"
    /\ \E x \in sock[g].todo :
         /\ table' = RetiredIf(table, x.sid, OnSameRoute(table, x.sid, x.b))
         /\ sock' = Sent([sock EXCEPT ![g].todo = @ \ {x}], g,
                         Frame("close", x.sid, x.b.nonce, 0))
    /\ UNCHANGED <<relay, daemon, spent>>

\* The expiry tasks are cancelled, then the pump, which finishes its signal.
CancelTasks(g) ==
    /\ sock[g].st \in {"revoking", "leaving"} /\ sock[g].todo = {}
    /\ sock' = [sock EXCEPT ![g].st = "parting"]
    /\ UNCHANGED <<table, relay, daemon, spent>>

Leave(g) ==
    /\ sock[g].st = "parting" /\ sock[g].pump = {}
    /\ table' = IF sock[g].keep THEN table ELSE Retired(table, OnDaemon(table, g))
    /\ sock' = [sock EXCEPT ![g] = Closed]
    /\ UNCHANGED <<relay, daemon, spent>>

\* _expire_host_rtc_binding: only the record its registration left.  Its
\* rtc.close names no generation.
Expire(g, s) ==
    /\ sock[g].st \in Pumping
    /\ s \in Expired(table)
    /\ LET b == table.live[s]
       IN  /\ b = NewBinding(b.nonce, g, b.chan, "host")
           /\ table' = Retired(table, {s})
           /\ sock' = Sent(sock, g, Frame("close", s, b.nonce, 0))
    /\ UNCHANGED <<relay, daemon, spent>>

\* The tasks that end a grace.  After a browser's, an rtc.close is published to
\* the socket that speaks for the binding, if that is still the owner.
OrphanTimer(s, side) ==
    /\ s \in DOMAIN table.live
    /\ OrphanExpirable(table, s, Identity(s, table.live[s]), side)
    /\ table' = Retired(table, {s})
    /\ LET b == table.live[s]
       IN  sock' = IF side = "browser" /\ Owner(b.daemon)
                     THEN [sock EXCEPT ![b.daemon].sig =
                             Append(@, [kind |-> "close", sid |-> s, nonce |-> b.nonce,
                                        gen |-> b.gen, chan |-> b.chan])]
                     ELSE sock
    /\ UNCHANGED <<relay, daemon, spent>>

\* Time passes; what is modelled here takes less than RTC_CONNECTED_SESSION_TTL,
\* a day, so a connected binding's own deadline does not come.
Deadlines(s, d) ==
    /\ DeadlinePasses(s, d)
    /\ d = "ttl" => ~table.live[s].connected
    /\ UNCHANGED <<sock, relay, daemon, spent>>

\* Other hosts' traffic and the cleanup loop prune the table.
OtherTraffic ==
    /\ Expired(table) # {}
    /\ Lookup
    /\ UNCHANGED <<sock, relay, daemon, spent>>

-----------------------------------------------------------------------------
(* A browser's relay: one socket of a device, named by its channel.             *)

Signal(kind, r, s, h) ==
    [kind |-> kind, sid |-> s, nonce |-> h.nonce, gen |-> h.gen, chan |-> r]

\* publish_if_host_owner: nothing is published to a socket that lost the host.
Published(h, f) ==
    IF Owner(h.active) THEN [sock EXCEPT ![h.active].sig = Append(@, f)] ELSE sock

Held(r, s, h) == [relay EXCEPT ![r].held =
                    [x \in DOMAIN @ \cup {s} |-> IF x = s THEN h ELSE @[x]]]

Unheld(r, s) == [relay EXCEPT ![r].held = [x \in DOMAIN @ \ {s} |-> @[x]]]

RelayOffer(r, s, g) ==
    /\ relay[r].open /\ s \notin DOMAIN relay[r].held
    /\ spent.offers < Cardinality(Nonce)
    /\ Owner(g)
    /\ LET h == [nonce |-> spent.offers + 1, gen |-> g, active |-> g]
       IN  /\ relay' = Held(r, s, h)
           /\ sock' = Published(h, Signal("offer", r, s, h))
    /\ spent' = [spent EXCEPT !.offers = @ + 1]
    /\ UNCHANGED <<table, daemon>>

RelayRestart(r, s) ==
    /\ relay[r].open /\ s \in DOMAIN relay[r].held
    /\ spent.restarts < MaxRestarts
    /\ Owner(relay[r].held[s].active)
    /\ LET h == relay[r].held[s] IN sock' = Published(h, Signal("restart", r, s, h))
    /\ spent' = [spent EXCEPT !.restarts = @ + 1]
    /\ UNCHANGED <<table, relay, daemon>>

RelayClose(r, s) ==
    /\ relay[r].open /\ s \in DOMAIN relay[r].held
    /\ LET h == relay[r].held[s] IN sock' = Published(h, Signal("close", r, s, h))
    /\ relay' = Unheld(r, s)
    /\ UNCHANGED <<table, daemon, spent>>

\* Slip: a binding moves to whoever names it, its browser gone or not.
ResumesAnyway(t, s) == s \in DOMAIN t.live

Resumes(t, s) == s \in DOMAIN t.live /\ Resumable(t, s, Identity(s, t.live[s]))

\* The device comes back on another socket and names the binding it had.
RelayResume(r, s) ==
    /\ relay[r].open
    /\ LET t == Pruned(table)
       IN  /\ Resumes(t, s)
           /\ table' = Resumed(t, s, r)
           /\ relay' = Held(r, s, [nonce |-> t.live[s].nonce, gen |-> t.live[s].gen,
                                   active |-> t.live[s].daemon])
    /\ UNCHANGED <<sock, daemon, spent>>

\* A `rebound` dispatched by a newer owner moves the relay to it.
RelayRebound(r, s) ==
    /\ s \in DOMAIN relay[r].held /\ s \in DOMAIN table.live
    /\ LET h == relay[r].held[s]
           b == table.live[s]
       IN  /\ b.chan = r /\ b.nonce = h.nonce /\ b.daemon > h.active
           /\ relay' = Held(r, s, [h EXCEPT !.active = b.daemon])
    /\ UNCHANGED <<table, sock, daemon, spent>>

\* A terminal status, its own TTL or a failed publication ends it here.
RelayForget(r, s) ==
    /\ relay[r].open /\ s \in DOMAIN relay[r].held
    /\ relay' = Unheld(r, s)
    /\ UNCHANGED <<table, sock, daemon, spent>>

RelayLeave(r) ==
    /\ relay[r].open
    /\ relay' = [relay EXCEPT ![r].open = FALSE]
    /\ UNCHANGED <<table, sock, daemon, spent>>

\* `finally`, one remembered binding at a time.
RelayOrphan(r, s) ==
    /\ ~relay[r].open /\ s \in DOMAIN relay[r].held
    /\ LET t == Pruned(table)
       IN  table' = IF s \in DOMAIN t.live /\ t.live[s].chan = r
                      THEN BrowserOrphaned(t, r, t.live[s].nonce)
                      ELSE t
    /\ relay' = Unheld(r, s)
    /\ UNCHANGED <<sock, daemon, spent>>

-----------------------------------------------------------------------------
(* The daemon.  `room` says whether the outgoing channel takes a frame now.     *)

Room == IF "full" \in Mishaps THEN BOOLEAN ELSE {TRUE}

\* DeferredStatuses.hold: a live status and a goodbye have a slot each.
Hold(D, f) ==
    {x \in D : x.sid # f.sid \/ Terminal(x) # Terminal(f)} \cup {f}

\* flush_pending: of one id, the live status goes first.
InOrder(D) == SetToSortSeq(D, LAMBDA x, y : ~Terminal(x) /\ Terminal(y))

Superseded(D, f) ==
    {x \in D : x.sid = f.sid /\ (Terminal(f) \/ ~Terminal(x))}

\* send_or_defer_status, from a daemon state d: the state after, what is sent.
Deferring(d, f, room) ==
    IF d.acked /\ room
      THEN [d |-> [d EXCEPT !.deferred = {}],
            q |-> <<f>> \o InOrder(d.deferred \ Superseded(d.deferred, f))]
      ELSE [d |-> [d EXCEPT !.deferred = Hold(@, f)], q |-> <<>>]

ForgetLive(D, s) == {x \in D : x.sid # s \/ Terminal(x)}

Said(k, g, q) == IF g \in Gen THEN [k EXCEPT ![g].up = @ \o q] ELSE k

\* `register` carries the bindings of the peers there are; the server may read
\* it as soon as it is sent.
Connect(g) ==
    /\ daemon.conn = 0 /\ sock[g].st = "idle"
    /\ \A h \in Gen : h < g => sock[h].st # "idle"
    /\ daemon' = [daemon EXCEPT !.conn = g, !.reported = DOMAIN daemon.peers]
    /\ sock' = [sock EXCEPT
          ![g].st = "claiming",
          ![g].offered = {<<s, daemon.peers[s].gen, daemon.peers[s].nonce>> :
                            s \in DOMAIN daemon.peers}]
    /\ UNCHANGED <<table, relay, spent>>

\* clear_ws_sender; frames not yet read are lost.
Disconnect ==
    /\ daemon.conn # 0
    /\ daemon' = [daemon EXCEPT !.conn = 0, !.acked = FALSE, !.announcing = {}]
    /\ sock' = [sock EXCEPT ![daemon.conn].down = <<>>]
    /\ UNCHANGED <<table, relay, spent>>

Read(kind) ==
    /\ daemon.conn # 0 /\ daemon.announcing = {}
    /\ sock[daemon.conn].down # <<>>
    /\ Head(sock[daemon.conn].down).kind = kind

Incoming == Head(sock[daemon.conn].down)

Taken == [sock EXCEPT ![daemon.conn].down = Tail(@)]

Without(peers, s) == [x \in DOMAIN peers \ {s} |-> peers[x]]

\* Slip: goodbyes held for bindings the register frame named are dropped too.
ReplayNone(d) == {}

\* reannounce_live_statuses, first pass: the goodbyes still worth saying.
Replay(d) == {x \in d.deferred : Terminal(x) /\ x.sid \in d.reported}

\* Second pass, one peer a step, over the peers connected by then.
HearRegistered ==
    /\ Read("registered")
    /\ \E room \in Room :
         /\ daemon' = [daemon EXCEPT
               !.acked = TRUE, !.known = TRUE,
               !.deferred = IF room THEN {} ELSE Replay(daemon),
               !.announcing = {Status(s, daemon.peers[s].nonce, "connected") :
                                 s \in {x \in DOMAIN daemon.peers : daemon.peers[x].up}}]
         /\ sock' = Said(Taken, daemon.conn,
                         IF room THEN InOrder(Replay(daemon)) ELSE <<>>)
    /\ UNCHANGED <<table, relay, spent>>

Announce(f) ==
    /\ f \in daemon.announcing
    /\ \E room \in Room, said \in BOOLEAN :
         LET still == f.sid \in DOMAIN daemon.peers /\ daemon.peers[f.sid].nonce = f.nonce
             d == [daemon EXCEPT !.announcing = @ \ {f}]
             after == IF said THEN Deferring(d, f, room) ELSE [d |-> d, q |-> <<>>]
         IN  /\ still => said
             /\ daemon' = after.d
             /\ sock' = Said(sock, daemon.conn, after.q)
    /\ UNCHANGED <<table, relay, spent>>

\* An offer is admitted, or refused (its id is in use, a cap is met), or passed
\* over without a word: it does not verify, or the daemon never registered yet.
ReadOffer ==
    /\ Read("offer")
    /\ LET f == Incoming
           refused == Status(f.sid, f.nonce, "failed")
       IN  \/ /\ daemon.known /\ f.sid \notin DOMAIN daemon.peers
              /\ daemon' = [daemon EXCEPT
                    !.deferred = {x \in @ : x.sid # f.sid},
                    !.peers = [x \in DOMAIN @ \cup {f.sid} |->
                                 IF x = f.sid
                                   THEN [nonce |-> f.nonce, gen |-> f.gen, up |-> FALSE]
                                   ELSE @[x]]]
              /\ sock' = Taken
           \/ /\ daemon.known
              /\ sock' = Said(Taken, daemon.conn, <<refused>>)
              /\ UNCHANGED daemon
           \/ sock' = Taken /\ UNCHANGED daemon
    /\ UNCHANGED <<table, relay, spent>>

SamePeer(f) ==
    /\ f.sid \in DOMAIN daemon.peers
    /\ daemon.peers[f.sid].nonce = f.nonce
    /\ daemon.peers[f.sid].gen = f.gen

\* restart_pair: answered only for the very pair it names, and not always then.
ReadRestart ==
    /\ Read("restart")
    /\ \E ok \in BOOLEAN :
         /\ ok => SamePeer(Incoming)
         /\ sock' = Said(Taken, daemon.conn,
                         IF ok THEN <<>>
                         ELSE <<Status(Incoming.sid, Incoming.nonce, "failed")>>)
    /\ UNCHANGED <<table, relay, daemon, spent>>

\* close_host compares whole bindings, generation included; nothing is said.
ReadClose ==
    /\ Read("close")
    /\ sock' = Taken
    /\ daemon' = IF SamePeer(Incoming)
                   THEN [daemon EXCEPT !.peers = Without(@, Incoming.sid),
                                       !.deferred = ForgetLive(@, Incoming.sid)]
                   ELSE daemon
    /\ UNCHANGED <<table, relay, spent>>

\* HostConnectedSignal.publish: sent if there is room, never held.
PeerConnects(s) ==
    /\ s \in DOMAIN daemon.peers /\ ~daemon.peers[s].up
    /\ daemon' = [daemon EXCEPT !.peers[s].up = TRUE]
    /\ \E room \in Room :
         sock' = Said(sock, daemon.conn,
                      IF room THEN <<Status(s, daemon.peers[s].nonce, "connected")>>
                      ELSE <<>>)
    /\ UNCHANGED <<table, relay, spent>>

\* Slip: a status the server's list of terminal ones does not have.
GoodbyeInOtherWords(s, n) == Status(s, n, "disconnected")

Goodbye(s, n) == Status(s, n, "unavailable")

\* The reaper's retire_host_if_same, and take_device_pair when the device's next
\* connection takes its place.
PeerEnds(s) ==
    /\ s \in DOMAIN daemon.peers
    /\ \E room \in Room :
         LET d == [daemon EXCEPT !.peers = Without(@, s),
                                 !.deferred = ForgetLive(@, s)]
             after == Deferring(d, Goodbye(s, daemon.peers[s].nonce), room)
         IN  /\ daemon' = after.d
             /\ sock' = Said(sock, daemon.conn, after.q)
    /\ UNCHANGED <<table, relay, spent>>

\* The heartbeat's flush_deferred_statuses, with room for all of it.
Flush ==
    /\ daemon.acked /\ daemon.deferred # {}
    /\ daemon' = [daemon EXCEPT !.deferred = {}]
    /\ sock' = Said(sock, daemon.conn, InOrder(daemon.deferred))
    /\ UNCHANGED <<table, relay, spent>>

\* invalidate_trust_and_close_all, on news of a revoked device: every peer is
\* closed, and nothing is said of any.
LearnRevocation ==
    /\ daemon.acked /\ spent.revocations < MaxRevocations
    /\ DOMAIN daemon.peers # {}
    /\ daemon' = [daemon EXCEPT !.peers = <<>>,
                                !.deferred = {x \in @ : Terminal(x)}]
    /\ spent' = [spent EXCEPT !.revocations = @ + 1]
    /\ UNCHANGED <<table, sock, relay>>

-----------------------------------------------------------------------------
(* The whole.                                                                   *)

Init ==
    /\ TableInit
    /\ sock = [g \in Gen |-> Idle]
    /\ relay = [r \in Channel |-> [open |-> TRUE, held |-> <<>>]]
    /\ daemon = [conn |-> 0, acked |-> FALSE, known |-> FALSE, reported |-> {},
                 announcing |-> {}, peers |-> <<>>, deferred |-> {}]
    /\ spent = [offers |-> 0, restarts |-> 0, revocations |-> 0]

Registration(g) ==
    \/ Accept(g) \/ Refuse(g) \/ SendRegistered(g) \/ ReconcileBindings(g)
    \/ RevokeAbsent(g) \/ CloseUnknown(g)

Listening(g) == Hear(g) \/ Route(g)

Relaying(g) == PumpOffer(g) \/ PumpRestart(g) \/ PumpClose(g) \/ PumpSend(g)

Ending(g) == Finally(g) \/ Revoke(g) \/ CancelTasks(g) \/ Leave(g)

Breaking(g) ==
    RouteFails(g) \/ PumpDrop(g) \/ PumpFail(g) \/ CloseForConsistency(g)

Reading == HearRegistered \/ ReadOffer \/ ReadRestart \/ ReadClose

Next ==
    \/ \E g \in Gen : \/ Registration(g) \/ Listening(g) \/ Relaying(g)
                      \/ Ending(g) \/ Breaking(g) \/ Connect(g)
    \/ \E g \in Gen, s \in Sid : Expire(g, s)
    \/ \E s \in Sid, side \in Side : OrphanTimer(s, side)
    \/ \E s \in Sid, d \in Side \cup {"ttl"} : Deadlines(s, d)
    \/ OtherTraffic
    \/ \E r \in Channel, s \in Sid, g \in Gen : RelayOffer(r, s, g)
    \/ \E r \in Channel, s \in Sid :
         \/ RelayRestart(r, s) \/ RelayClose(r, s) \/ RelayResume(r, s)
         \/ RelayRebound(r, s) \/ RelayForget(r, s) \/ RelayOrphan(r, s)
    \/ \E r \in Channel : RelayLeave(r)
    \/ Disconnect \/ Reading \/ Flush \/ LearnRevocation
    \/ \E f \in daemon.announcing : Announce(f)
    \/ \E s \in Sid : PeerConnects(s) \/ PeerEnds(s)

Spec == Init /\ [][Next]_vars

-----------------------------------------------------------------------------
(* Fairness.  Handlers and tasks of a live server run on; clocks reach their    *)
(* deadlines; the daemon reads its socket, beats its heart, and in the end       *)
(* notices a socket the server closed.  Nothing makes a device, a relay or the   *)
(* network act.                                                                  *)

NoticeClose ==
    /\ daemon.conn # 0
    /\ sock[daemon.conn].shut \/ sock[daemon.conn].st = "gone"
    /\ Disconnect

Fairness ==
    /\ \A g \in Gen :
         /\ WF_vars(Registration(g)) /\ WF_vars(Listening(g))
         /\ WF_vars(Relaying(g) \/ PumpDrop(g)) /\ WF_vars(Ending(g))
    /\ \A s \in Sid, side \in Side : WF_vars(OrphanTimer(s, side))
    /\ \A s \in Sid, d \in Side \cup {"ttl"} : WF_vars(Deadlines(s, d))
    /\ \A r \in Channel, s \in Sid : WF_vars(RelayOrphan(r, s))
    /\ WF_vars(Reading) /\ WF_vars(\E f \in daemon.announcing : Announce(f))
    /\ WF_vars(Flush) /\ WF_vars(NoticeClose)

FairSpec == Spec /\ Fairness

-----------------------------------------------------------------------------
(* Properties.                                                                  *)

StatusOf == [sid : Sid, nonce : Nonce, status : {"connected", "unavailable", "failed"}]

SignalOf == [kind : {"offer", "restart", "close"}, sid : Sid, nonce : Nonce,
             gen : Gen, chan : Channel]

FrameOf == {RegisteredFrame} \cup
    [kind : {"offer", "restart", "close"}, sid : Sid, nonce : Nonce, gen : Gen \cup {0}]

\* Every socket, relay and peer is in a state its code knows.
SignallingTypeOK ==
    /\ TypeOK
    /\ \A g \in Gen :
         LET k == sock[g]
         IN  /\ k.st \in Stage
             /\ {k.super, k.shut, k.keep} \subseteq BOOLEAN
             /\ k.offered \cup k.unknown \subseteq Sid \X Gen \X Nonce
             /\ \A x \in k.todo : x.sid \in Sid /\ x.b \in Binding
             /\ \A h \in k.hand : h.f \in StatusOf /\ h.b \in Binding
             /\ k.pump \subseteq SignalOf
             /\ ToSet(k.sig) \subseteq SignalOf
             /\ ToSet(k.up) \subseteq StatusOf
             /\ ToSet(k.down) \subseteq FrameOf
    /\ \A r \in Channel :
         /\ relay[r].open \in BOOLEAN
         /\ \A s \in DOMAIN relay[r].held :
              s \in Sid /\ relay[r].held[s] \in [nonce : Nonce, gen : Gen, active : Gen]
    /\ daemon.conn \in Gen \cup {0}
    /\ daemon.acked \in BOOLEAN /\ daemon.known \in BOOLEAN
    /\ daemon.reported \subseteq Sid
    /\ daemon.announcing \cup daemon.deferred \subseteq StatusOf
    /\ \A s \in DOMAIN daemon.peers :
         s \in Sid /\ daemon.peers[s] \in [nonce : Nonce, gen : Gen, up : BOOLEAN]

\* The server never has the daemon close a peer whose binding it still keeps on
\* that socket: every rtc.close under way - the reconciliation's, the expiry's,
\* the relay's - names a binding that is gone, or is another socket's.
ClosesOnlyTheForgotten ==
    \A g \in Gen : \A f \in ToSet(sock[g].down) :
      f.kind = "close" =>
        ~ \E s \in DOMAIN table.live \cap {f.sid} :
            table.live[s].nonce = f.nonce /\ table.live[s].daemon = g

\* A binding the daemon has called connected is never left on a socket that is
\* out of the broker without a grace that will end it: `finally` orphans every
\* binding the pump, a resume or a rebind may have put there.
NoneStranded ==
    \A s \in DOMAIN table.live :
      LET b == table.live[s]
      IN  b.connected /\ sock[b.daemon].st = "gone" => "daemon" \in b.away

\* A goodbye ends only the binding of the peer that said it: when the server
\* frees a binding on an `unavailable`, the daemon has no peer of that binding,
\* whatever was reused, resumed or rebound since the goodbye was sent.
GoodbyesAreTrue ==
    [][\A g \in Gen : \A h \in sock[g].hand :
         LET s == h.f.sid
         IN  /\ h.f.status = "unavailable" /\ sock'[g].hand = {}
             /\ s \in DOMAIN table.live /\ s \notin DOMAIN table'.live
             => ~ \E p \in DOMAIN daemon.peers \cap {s} :
                    daemon.peers[p].nonce = table.live[s].nonce]_vars

\* The server's table of bindings, whatever the sockets, relays and the daemon
\* do, moves only by the broker's methods.
ImplementsTable == TableSpec

\* A binding does not outlive its peer for good: again and again it is gone, or
\* past the deadline every reader honours, or the daemon has the peer it is for.
\* Otherwise it holds its place under the host's and the device's caps until
\* the connected TTL, a day.
BindingsAreBacked ==
    \A s \in Sid :
      []<>(\/ s \notin DOMAIN table.live
           \/ <<s, "ttl">> \in table.past
           \/ /\ s \in DOMAIN daemon.peers
              /\ daemon.peers[s].nonce = table.live[s].nonce)

=============================================================================
