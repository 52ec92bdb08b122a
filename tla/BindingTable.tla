---------------------------- MODULE BindingTable ----------------------------
(***************************************************************************)
(* The broker's table of WebRTC signalling bindings (ws/broker.py): which  *)
(* browser socket and which daemon socket a peer's signalling goes to.     *)
(* Every method below runs under `self._lock`, so each is one step.  One   *)
(* host and one account stand for all: the caps count nothing else.        *)
(*                                                                         *)
(* A binding's identity - signalling id, owning daemon generation, nonce - *)
(* is never reused: it leaves the table through a tombstone, and tombstones*)
(* and live bindings share one budget of identities.                       *)
(***************************************************************************)
EXTENDS Naturals, FiniteSets

CONSTANTS
    Sid,            \* signalling session ids, chosen by browsers
    Nonce,          \* binding nonces
    Gen,            \* daemon sockets of the host, named by owner generation
    Channel,        \* browser signalling sockets, named by response channel
    MaxIdentities,  \* MAX_RTC_BINDING_IDENTITIES
    Cap             \* the caps of host_signal.py, by name

Scope == {"host", "session"}

\* The two ends of a binding's signalling; either may be away in its grace.
Side == {"daemon", "browser"}

CapName == {"host", "daemon", "browser", "user", "view"}

ASSUME TableAssumption ==
    /\ IsFiniteSet(Sid)
    /\ Gen \subseteq Nat
    /\ MaxIdentities \in Nat
    /\ Cap \in [CapName -> Nat]

VARIABLE table

\* RtcSessionBinding.  `gen` is the daemon socket the binding was made on,
\* `daemon` the one that speaks for it now; `away` the orphaned sides.
Binding ==
    [nonce : Nonce, gen : Gen, daemon : Gen, chan : Channel, scope : Scope,
     away : SUBSET Side, connected : BOOLEAN]

\* Which deadlines have passed, per signalling id: the binding's own TTL and
\* the grace of each orphaned side.
Deadline == Sid \X (Side \cup {"ttl"})

\* Slip: the parts in another order than the tombstones' readers expect.
IdentitySwapped(s, b) == <<s, b.nonce, b.gen>>

Identity(s, b) == <<s, b.gen, b.nonce>>

IdentitiesOf(t, S) == {Identity(s, t.live[s]) : s \in S}

-----------------------------------------------------------------------------
(* Retirement. *)

Fits(t, S) == Cardinality(t.retired \cup IdentitiesOf(t, S)) <= MaxIdentities

\* The bindings of S that can be given a tombstone: all of them, unless the
\* tombstones are at their limit.
Retirable(t, S) ==
    IF Fits(t, S)
      THEN S
      ELSE CHOOSE R \in SUBSET S :
             Fits(t, R) /\ \A s \in S \ R : ~Fits(t, R \cup {s})

Removed(t, R) ==
    [live    |-> [s \in DOMAIN t.live \ R |-> t.live[s]],
     retired |-> t.retired \cup IdentitiesOf(t, R),
     past    |-> {d \in t.past : d[1] \notin R}]

\* Slip: the bindings are popped and their identities not recorded.
PoppedWithoutTombstone(t, S) ==
    [Removed(t, S) EXCEPT !.retired = t.retired]

Retired(t, S) == Removed(t, Retirable(t, S))

Expired(t) == {s \in DOMAIN t.live : <<s, "ttl">> \in t.past}

Pruned(t) == Retired(t, Expired(t))

-----------------------------------------------------------------------------
(* Registration, and what it is refused for. *)

Scoped(t, k) == {s \in DOMAIN t.live : t.live[s].scope = k}

\* Slip: an offer is counted against its own socket's bindings only.
UnderSocketCaps(t, g, c, k) ==
    LET mine == {s \in Scoped(t, k) : t.live[s].chan = c}
    IN  Cardinality(mine) < (IF k = "host" THEN Cap["browser"] ELSE Cap["view"])

UnderCaps(t, g, c, k) ==
    LET mine == Scoped(t, k)
        Through(chan) == {s \in mine : t.live[s].chan = chan}
        On(gen) == {s \in mine : t.live[s].daemon = gen}
    IN  CASE k = "host" ->
               /\ Cardinality(mine) < Cap["host"]
               /\ Cardinality(On(g)) < Cap["daemon"]
               /\ Cardinality(Through(c)) < Cap["browser"]
          [] k = "session" ->
               /\ Cardinality(mine) < Cap["user"]
               /\ Cardinality(Through(c)) < Cap["view"]

\* Slip: the tombstones are left out of the budget.
RoomForLiveOnly(t) == Cardinality(DOMAIN t.live) < MaxIdentities

RoomToRegister(t) ==
    Cardinality(DOMAIN t.live) + Cardinality(t.retired) < MaxIdentities

\* Slip: a retired identity is taken as new.
RegistrableUnlessLive(t, s, n, g, c, k) ==
    /\ RoomToRegister(t)
    /\ s \notin DOMAIN t.live
    /\ UnderCaps(t, g, c, k)

Registrable(t, s, n, g, c, k) ==
    /\ <<s, g, n>> \notin t.retired
    /\ RoomToRegister(t)
    /\ s \notin DOMAIN t.live
    /\ UnderCaps(t, g, c, k)

NewBinding(n, g, c, k) ==
    [nonce |-> n, gen |-> g, daemon |-> g, chan |-> c, scope |-> k,
     away |-> {}, connected |-> FALSE]

Stored(t, s, b) ==
    [live    |-> [x \in DOMAIN t.live \cup {s} |-> IF x = s THEN b ELSE t.live[x]],
     retired |-> t.retired,
     past    |-> t.past]

Registered(t, s, n, g, c, k) ==
    IF Registrable(t, s, n, g, c, k)
      THEN Stored(t, s, NewBinding(n, g, c, k))
      ELSE t

-----------------------------------------------------------------------------
(* Losing and regaining a side. *)

\* The bindings of S updated by b -> F[s]; deadlines D are open again.
Renewed(t, S, F, D) ==
    [live    |-> [s \in DOMAIN t.live |-> IF s \in S THEN F[s] ELSE t.live[s]],
     retired |-> t.retired,
     past    |-> t.past \ D]

Orphaned(t, S, side) ==
    Renewed(t, S,
            [s \in S |-> [t.live[s] EXCEPT !.away = @ \cup {side}]],
            S \X {side})

OnDaemon(t, g) == {s \in DOMAIN t.live : t.live[s].daemon = g}

\* `binding.browser is conn`: a route is one socket's, made for one nonce.
OnRoute(t, c, n) ==
    {s \in DOMAIN t.live : t.live[s].chan = c /\ t.live[s].nonce = n}

\* Slip: a binding whose browser is already away is passed over.
DaemonOrphanedIfPresent(t, g) ==
    Orphaned(t, {s \in OnDaemon(t, g) : t.live[s].away = {}}, "daemon")

DaemonOrphaned(t, g) == Orphaned(t, OnDaemon(t, g), "daemon")

BrowserOrphaned(t, c, n) == Orphaned(t, OnRoute(t, c, n), "browser")

Awaiting(t) == {s \in DOMAIN t.live : "daemon" \in t.live[s].away}

\* reconcile_daemon_live_bindings: which orphans the daemon's report keeps.
Rebindable(t, offered) ==
    {s \in Awaiting(t) : /\ <<s, "daemon">> \notin t.past
                         /\ Identity(s, t.live[s]) \in offered}

Rebound(t, g, offered) ==
    LET S == Rebindable(t, offered)
    IN  Renewed(t, S,
                [s \in S |-> [t.live[s] EXCEPT !.daemon = g,
                                               !.away = @ \ {"daemon"}]],
                {})

Resumable(t, s, i) ==
    /\ s \in DOMAIN t.live
    /\ "browser" \in t.live[s].away
    /\ <<s, "browser">> \notin t.past
    /\ Identity(s, t.live[s]) = i

Resumed(t, s, c) ==
    Renewed(t, {s},
            [x \in {s} |-> [t.live[x] EXCEPT !.chan = c,
                                             !.away = @ \ {"browser"}]],
            {})

OrphanExpirable(t, s, i, side) ==
    /\ s \in DOMAIN t.live
    /\ Identity(s, t.live[s]) = i
    /\ side \in t.live[s].away
    /\ <<s, side>> \in t.past

\* mark_rtc_session_connected and expire_rtc_session act only on the very
\* record their caller read: every update makes a new one.
SameRecord(t, s, b) == s \in DOMAIN t.live /\ t.live[s] = b

Marked(t, s) ==
    Renewed(t, {s}, [x \in {s} |-> [t.live[x] EXCEPT !.connected = TRUE]],
            {<<s, "ttl">>})

\* unregister_rtc_binding: the same binding, whoever its browser is now.
SameBinding(t, s, b) ==
    /\ s \in DOMAIN t.live
    /\ t.live[s].daemon = b.daemon
    /\ Identity(s, t.live[s]) = Identity(s, b)

OnSameRoute(t, s, b) ==
    /\ s \in DOMAIN t.live
    /\ t.live[s].chan = b.chan
    /\ t.live[s].nonce = b.nonce

RetiredIf(t, s, held) == IF held THEN Retired(t, {s}) ELSE t

-----------------------------------------------------------------------------
(* The methods.  Callers, arguments and the clock are arbitrary here. *)

TypeOK ==
    /\ table.retired \subseteq Sid \X Gen \X Nonce
    /\ table.past \subseteq Deadline
    /\ DOMAIN table.live \subseteq Sid
    /\ \A s \in DOMAIN table.live : table.live[s] \in Binding

TableInit == table = [live |-> <<>>, retired |-> {}, past |-> {}]

Register(s, n, g, c, k) == table' = Registered(Pruned(table), s, n, g, c, k)

\* rtc_session_for and every other read: what has expired goes first.
Lookup == table' = Pruned(table)

Unregister(s) == table' = RetiredIf(table, s, s \in DOMAIN table.live)

UnregisterRoute(c, n) == table' = Retired(table, OnRoute(table, c, n))

DropDaemon(g, kinds) ==
    table' = Retired(table, {s \in OnDaemon(table, g) :
                               table.live[s].scope \in kinds})

OrphanDaemon(g) == table' = DaemonOrphaned(table, g)

\* Callers look their binding up first: t is the table, or what the lookup's
\* pruning left of it.
OrphanBrowser(t, c, n) == table' = BrowserOrphaned(t, c, n)

Reconcile(g, offered) == table' = Rebound(table, g, offered)

Resume(t, s, c) ==
    /\ \E i \in IdentitiesOf(t, DOMAIN t.live) : Resumable(t, s, i)
    /\ table' = Resumed(t, s, c)

ExpireOrphan(s, side) ==
    /\ \E i \in IdentitiesOf(table, DOMAIN table.live) :
         OrphanExpirable(table, s, i, side)
    /\ table' = Retired(table, {s})

MarkConnected(s) == s \in DOMAIN table.live /\ table' = Marked(table, s)

\* The cleanup loop, and what any call's pruning does to old tombstones.
CleanUp(old) == table' = Pruned([table EXCEPT !.retired = @ \ old])

Shutdown == table' = [live |-> <<>>, retired |-> {}, past |-> {}]

\* A deadline the binding really has goes by.
DeadlinePasses(s, d) ==
    /\ s \in DOMAIN table.live
    /\ d = "ttl" \/ d \in table.live[s].away
    /\ table' = [table EXCEPT !.past = @ \cup {<<s, d>>}]

TableNext ==
    \/ \E s \in Sid, n \in Nonce, g \in Gen, c \in Channel, k \in Scope :
         Register(s, n, g, c, k)
    \/ Lookup
    \/ \E s \in Sid : Unregister(s) \/ MarkConnected(s)
    \/ \E c \in Channel, n \in Nonce : UnregisterRoute(c, n)
    \/ \E t \in {table, Pruned(table)}, c \in Channel, n \in Nonce :
         OrphanBrowser(t, c, n)
    \/ \E g \in Gen : OrphanDaemon(g)
    \/ \E g \in Gen, kinds \in {Scope, {"session"}} : DropDaemon(g, kinds)
    \/ \E g \in Gen, S \in SUBSET DOMAIN table.live :
         Reconcile(g, IdentitiesOf(table, S))
    \/ \E t \in {table, Pruned(table)}, s \in Sid, c \in Channel : Resume(t, s, c)
    \/ \E s \in Sid, side \in Side : ExpireOrphan(s, side)
    \/ \E old \in SUBSET table.retired : CleanUp(old)
    \/ Shutdown
    \/ \E s \in Sid, d \in Side \cup {"ttl"} : DeadlinePasses(s, d)

TableSpec == TableInit /\ [][TableNext]_table

-----------------------------------------------------------------------------
(* Properties. *)

\* Live bindings and tombstones together never exceed the budget, so the
\* branch of _retire_rtc_binding_locked that refuses a tombstone, and leaves
\* a dead binding holding its place under every cap, is never taken.
RetirementAlwaysFits ==
    Cardinality(DOMAIN table.live) + Cardinality(table.retired) <= MaxIdentities

\* While an identity has its tombstone no live binding has it, whatever
\* order registrations, resumes, rebinds and expiries come in: a delayed frame
\* of a retired binding can never be taken for one of a live binding.
RetiredIdentitiesStayDead ==
    \A s \in DOMAIN table.live : Identity(s, table.live[s]) \notin table.retired

\* The host's and the account's caps bound what is live at every moment,
\* orphans and bindings moved to another socket included.
CapsHold ==
    /\ Cardinality(Scoped(table, "host")) <= Cap["host"]
    /\ Cardinality(Scoped(table, "session")) <= Cap["user"]

\* A binding leaves the table only by leaving its tombstone behind (shutdown
\* apart), and while it stays it keeps its identity and what the daemon said
\* of it: no update of one side undoes another's.
LeavesATombstone ==
    [][\A s \in DOMAIN table.live :
         LET b == table.live[s]
         IN  \/ table' = [live |-> <<>>, retired |-> {}, past |-> {}]
             \/ /\ s \in DOMAIN table'.live
                /\ Identity(s, table'.live[s]) = Identity(s, b)
                /\ b.connected => table'.live[s].connected
             \/ Identity(s, b) \in table'.retired]_table

=============================================================================
