--------------------------- MODULE HostOwnership ---------------------------
(***************************************************************************)
(* Who owns a host.  A daemon that connects reserves a generation in the   *)
(* host's database row, claims a pending lease in Redis, commits itself as *)
(* the owner, promotes its lease to the active key and is at last accepted *)
(* by the broker of the server process that holds its socket.  Every step  *)
(* is a separate database or Redis call: other connections run between any *)
(* two of them, the attempt may be abandoned at any of them, leases lapse  *)
(* and processes die.                                                      *)
(*                                                                         *)
(* One host.  Sources: server/spawn_server/ws/daemon.py, redis.py and      *)
(* ws/broker.py.                                                           *)
(***************************************************************************)
EXTENDS Integers, FiniteSets

CONSTANTS
    Conn,            \* DaemonConn.id: a fresh id per websocket
    NoConn,          \* NULL
    Worker,          \* server processes
    Home,            \* the process that holds each connection's socket
    MaxGeneration,   \* MAX_SAFE_FENCING_GENERATION
    MaxLapses,       \* bound: how often a Redis lease is lost
    Mishaps          \* the kinds of faults that happen

ASSUME ConnAssumption == NoConn \notin Conn
ASSUME HomeAssumption == Home \in [Conn -> Worker]
ASSUME GenerationAssumption == MaxGeneration \in Nat
ASSUME LapseAssumption == MaxLapses \in Nat
ASSUME MishapAssumption == Mishaps \subseteq {"lost", "abandon", "drop", "cleanup", "crash"}

VARIABLES
    row,       \* the hosts row: counter, pending reservation, owner and its generation
    active,    \* Redis host_presence_key
    pending,   \* Redis host_pending_presence_key
    accepted,  \* Broker._accepted_daemon_owners (and _daemons_by_host) of each process
    pc,        \* where the handler of each connection is
    gen,       \* DaemonConn.host_generation, 0 for None
    peer,      \* previous_owner of the registration; pending_successor of a heartbeat
    seen,      \* the value of the active key last read by the handler
    notice,    \* what the socket has been told: "close", "revoke"
    reclaim,   \* reclaim_daemon_presence_if_missing running for this connection
    lapses,    \* how many leases have been lost
    written,   \* generation of the last session row write
    reigned    \* history: the owners committed to the row so far, and nobody

store == <<active, pending>>
local == <<gen, peer, seen>>
rest == <<notice, reclaim, lapses, written, reigned>>
vars == <<row, active, pending, accepted, pc, gen, peer, seen, notice, reclaim,
          lapses, written, reigned>>

Owner == [conn : Conn \cup {NoConn}, gen : Nat]
Nobody == [conn |-> NoConn, gen |-> 0]

\* _host_presence_value
Value(c) == [conn |-> c, gen |-> gen[c]]

Registering == {"allocate", "claim", "unclaim", "predecessor"}
Attempting == {"readActive", "commit", "promote"}
Reconciling == {"recRow", "recOwner", "recConfirm", "recDrop", "recPend", "recPromote",
                "recCheck", "recPrevious", "recRestore", "recRemake", "recUnpend",
                "recClear", "recForget"}
Admitting == {"adopt", "check", "accept", "attach", "recheck", "revoke", "last", "reject"}
Serving == {"ready", "gate", "write", "announce", "refresh", "successor", "lookup",
            "retake", "confirm", "undo"}
Leaving == {"refused", "close", "dropPending", "unregister", "release", "offline"}
PC == {"new", "gone"} \cup Registering \cup Attempting \cup Reconciling
        \cup Admitting \cup Serving \cup Leaving

\* A handler is running for the connection.
Alive(c) == pc[c] \notin {"new", "gone"}

TypeOK ==
    /\ row \in [counter : Nat, pending : Owner, conn : Conn \cup {NoConn}, gen : Nat]
    /\ active \in Owner
    /\ pending \in Owner
    /\ accepted \in [Worker -> Owner]
    /\ pc \in [Conn -> PC]
    /\ gen \in [Conn -> Nat]
    /\ peer \in [Conn -> Owner]
    /\ seen \in [Conn -> Owner]
    /\ notice \in [Conn -> SUBSET {"close", "revoke"}]
    /\ reclaim \in [Conn -> {"off", "row", "set"}]
    /\ lapses \in 0..MaxLapses
    /\ written \in Nat
    /\ reigned \subseteq Owner

\* The host is new, or its last daemon has left.
Init ==
    /\ \E n \in 0..MaxGeneration :
         row = [counter |-> n, pending |-> Nobody, conn |-> NoConn, gen |-> n]
    /\ active = Nobody
    /\ pending = Nobody
    /\ accepted = [w \in Worker |-> Nobody]
    /\ pc = [c \in Conn |-> "new"]
    /\ gen = [c \in Conn |-> 0]
    /\ peer = [c \in Conn |-> Nobody]
    /\ seen = [c \in Conn |-> Nobody]
    /\ notice = [c \in Conn |-> {}]
    /\ reclaim = [c \in Conn |-> "off"]
    /\ lapses = 0
    /\ written = 0
    /\ reigned = {Nobody}

-----------------------------------------------------------------------------
(* The Redis scripts.  Nobody stands for an absent key: its generation is   *)
(* below that of every lease.                                               *)

\* set_ephemeral_if_newer: may `value` replace `held`?
Newer(held, value) == held.gen < value.gen \/ held = value

\* Slip: an older reservation still lying about also takes the owner's currency.
IsCurrentUnlessPending(value) == active = value /\ pending = Nobody

\* host_owner_is_current
IsCurrent(value) == active = value /\ (pending.gen < value.gen \/ pending = value)

\* activate_ephemeral_if_newer
Promote(value) ==
    IF pending = value /\ Newer(active, value)
      THEN active' = value /\ pending' = Nobody
      ELSE UNCHANGED store

\* delete_ephemeral_if on one key
Without(held, value) == IF held = value THEN Nobody ELSE held

Goto(c, label) == pc' = [pc EXCEPT ![c] = label]

\* The database row names this connection with its own generation.
DurableOwner(c) == row.conn = c /\ row.gen = gen[c]

\* _owns_host_signal_presence, given the active key as it was read
OwnsPresence(c, key) ==
    /\ DurableOwner(c)
    /\ key = Value(c) \/ (row.pending # Nobody /\ key = row.pending)

-----------------------------------------------------------------------------
(* Registration, up to the attempt to become the owner.                    *)

\* The register frame arrives on a fresh socket.
Connect(c) ==
    /\ pc[c] = "new"
    /\ Goto(c, "allocate")
    /\ UNCHANGED <<row, store, accepted, local, rest>>

\* Slip: the counter is read and used but never advanced.
AllocateWithoutCounting(c) ==
    /\ pc[c] = "allocate"
    /\ row' = [row EXCEPT !.pending = [conn |-> c, gen |-> row.counter + 1]]
    /\ gen' = [gen EXCEPT ![c] = row.counter + 1]
    /\ Goto(c, "claim")
    /\ UNCHANGED <<store, accepted, peer, seen, rest>>

\* _allocate_host_generation; the commit may succeed and its answer be lost.
Allocate(c) ==
    /\ pc[c] = "allocate"
    /\ IF row.counter < MaxGeneration
         THEN /\ row' = [row EXCEPT !.counter = row.counter + 1,
                                    !.pending = [conn |-> c, gen |-> row.counter + 1]]
              /\ \/ gen' = [gen EXCEPT ![c] = row.counter + 1] /\ Goto(c, "claim")
                 \/ "lost" \in Mishaps /\ UNCHANGED gen /\ Goto(c, "close")
         ELSE Goto(c, "refused") /\ UNCHANGED <<row, gen>>
    /\ UNCHANGED <<store, accepted, peer, seen, rest>>

\* Slip: the reservation goes to the active key.
ClaimActiveKey(c) ==
    /\ pc[c] = "claim"
    /\ active' = IF Newer(active, Value(c)) THEN Value(c) ELSE active
    /\ Goto(c, "predecessor")
    /\ UNCHANGED <<row, pending, accepted, local, rest>>

\* _claim_host_signal_presence
Claim(c) ==
    /\ pc[c] = "claim"
    /\ IF Newer(pending, Value(c))
         THEN pending' = Value(c) /\ Goto(c, "predecessor")
         ELSE UNCHANGED pending /\ Goto(c, "unclaim")
    /\ UNCHANGED <<row, active, accepted, local, rest>>

\* _clear_host_generation_reservation, wherever it is called
ClearReservation(c) ==
    row' = IF row.pending = Value(c) THEN [row EXCEPT !.pending = Nobody] ELSE row

Unclaim(c) ==
    /\ pc[c] = "unclaim"
    /\ ClearReservation(c)
    /\ Goto(c, "refused")
    /\ UNCHANGED <<store, accepted, local, rest>>

\* _host_activation_predecessor
Predecessor(c) ==
    /\ pc[c] = "predecessor"
    /\ IF row.pending = Value(c)
         THEN /\ peer' = [peer EXCEPT ![c] =
                    IF row.conn = NoConn THEN Nobody ELSE [conn |-> row.conn, gen |-> row.gen]]
              /\ Goto(c, "readActive")
         ELSE UNCHANGED peer /\ Goto(c, "refused")
    /\ UNCHANGED <<row, store, accepted, gen, seen, rest>>

-----------------------------------------------------------------------------
(* _attempt_host_activation                                                *)

ReadActive(c) ==
    /\ pc[c] = "readActive"
    /\ Goto(c, IF Newer(active, Value(c)) THEN "commit" ELSE "recRow")
    /\ UNCHANGED <<row, store, accepted, local, rest>>

\* Slip: the reservation outlives the activation it was for.
CommitKeepingReservation(c) ==
    /\ pc[c] = "commit"
    /\ IF row.pending = Value(c)
         THEN /\ row' = [row EXCEPT !.conn = c, !.gen = gen[c]]
              /\ reigned' = reigned \cup {Value(c)}
              /\ Goto(c, "promote")
         ELSE UNCHANGED <<row, reigned>> /\ Goto(c, "recRow")
    /\ UNCHANGED <<store, accepted, local, notice, reclaim, lapses, written>>

\* _prepare_host_activation and its commit
Commit(c) ==
    /\ pc[c] = "commit"
    /\ IF row.pending = Value(c)
         THEN /\ row' = [row EXCEPT !.pending = Nobody, !.conn = c, !.gen = gen[c]]
              /\ reigned' = reigned \cup {Value(c)}
              /\ Goto(c, "promote")
         ELSE UNCHANGED <<row, reigned>> /\ Goto(c, "recRow")
    /\ UNCHANGED <<store, accepted, local, notice, reclaim, lapses, written>>

PromoteLease(c) ==
    /\ pc[c] = "promote"
    /\ Promote(Value(c))
    /\ Goto(c, "recRow")
    /\ UNCHANGED <<row, accepted, local, rest>>

\* The deadline passes or the caller is cancelled: whatever was done stays done.
AbandonAttempt(c) ==
    /\ "abandon" \in Mishaps
    /\ pc[c] \in Attempting
    /\ Goto(c, "recRow")
    /\ UNCHANGED <<row, store, accepted, local, rest>>

-----------------------------------------------------------------------------
(* _reconcile_host_activation: what really happened, from the row and Redis. *)

ReadRow(c) ==
    /\ pc[c] = "recRow"
    /\ LET remains == IF peer[c] = Nobody THEN row.conn = NoConn
                     ELSE row.conn = peer[c].conn /\ row.gen = peer[c].gen
       IN  Goto(c, CASE DurableOwner(c) -> "recOwner"
                     [] ~DurableOwner(c) /\ remains -> "recPrevious"
                     [] OTHER -> "recForget")
    /\ UNCHANGED <<row, store, accepted, local, rest>>

\* committed
ReconcileOwner(c) ==
    /\ pc[c] = "recOwner"
    /\ Goto(c, IF active = Value(c) THEN "recConfirm" ELSE "recPend")
    /\ UNCHANGED <<row, store, accepted, local, rest>>

ConfirmLease(c) ==
    /\ pc[c] = "recConfirm"
    /\ Goto(c, IF IsCurrent(Value(c)) THEN "recDrop" ELSE "recPend")
    /\ UNCHANGED <<row, store, accepted, local, rest>>

\* delete_ephemeral_if on the pending key, wherever reconciliation calls it
ForgetPending(c) ==
    /\ pc[c] \in {"recDrop", "recUnpend", "recForget"}
    /\ pending' = Without(pending, Value(c))
    /\ Goto(c, CASE pc[c] = "recDrop" -> "adopt"
                  [] pc[c] = "recUnpend" -> "recClear"
                  [] pc[c] = "recForget" -> "refused")
    /\ UNCHANGED <<row, active, accepted, local, rest>>

PendAgain(c) ==
    /\ pc[c] = "recPend"
    /\ pending' = IF Newer(pending, Value(c)) THEN Value(c) ELSE pending
    /\ Goto(c, "recPromote")
    /\ UNCHANGED <<row, active, accepted, local, rest>>

PromoteAgain(c) ==
    /\ pc[c] = "recPromote"
    /\ Promote(Value(c))
    /\ Goto(c, "recCheck")
    /\ UNCHANGED <<row, accepted, local, rest>>

CheckLease(c) ==
    /\ pc[c] = "recCheck"
    /\ Goto(c, IF IsCurrent(Value(c)) THEN "adopt" ELSE "refused")
    /\ UNCHANGED <<row, store, accepted, local, rest>>

\* predecessor_remains
ReconcilePrevious(c) ==
    /\ pc[c] = "recPrevious"
    /\ Goto(c, CASE active = Value(c) -> "recRestore"
                  [] active = Nobody /\ peer[c] # Nobody -> "recRemake"
                  [] OTHER -> "recUnpend")
    /\ UNCHANGED <<row, store, accepted, local, rest>>

\* restore_ephemeral_if
RestoreLease(c) ==
    /\ pc[c] = "recRestore"
    /\ active' = IF active = Value(c) THEN peer[c] ELSE active
    /\ Goto(c, "recUnpend")
    /\ UNCHANGED <<row, pending, accepted, local, rest>>

\* activate_ephemeral: trade the pending claim for the predecessor's lease
RemakeLease(c) ==
    /\ pc[c] = "recRemake"
    /\ IF pending = Value(c) /\ active = Nobody
         THEN active' = peer[c] /\ pending' = Nobody
         ELSE UNCHANGED store
    /\ Goto(c, "recUnpend")
    /\ UNCHANGED <<row, accepted, local, rest>>

ReconcileClear(c) ==
    /\ pc[c] = "recClear"
    /\ ClearReservation(c)
    /\ Goto(c, "refused")
    /\ UNCHANGED <<store, accepted, local, rest>>

-----------------------------------------------------------------------------
(* Admission to routing, daemon_ws after a successful activation.           *)

\* _lock_durable_host_owner around _sort_existing_sessions
Adopt(c) ==
    /\ pc[c] = "adopt"
    /\ Goto(c, IF DurableOwner(c) THEN "check" ELSE "reject")
    /\ UNCHANGED <<row, store, accepted, local, rest>>

\* The three _redis_owner_is_current decisions of the registration
CheckCurrent(c) ==
    /\ pc[c] \in {"check", "recheck", "last"}
    /\ Goto(c, CASE ~IsCurrent(Value(c)) -> "reject"
                  [] IsCurrent(Value(c)) /\ pc[c] = "check" -> "accept"
                  [] IsCurrent(Value(c)) /\ pc[c] = "recheck" ->
                        IF peer[c] = Nobody THEN "last" ELSE "revoke"
                  [] IsCurrent(Value(c)) /\ pc[c] = "last" -> "ready")
    /\ UNCHANGED <<row, store, accepted, local, rest>>

\* accept_daemon_owner; closing the local predecessor may time out
Accept(c) ==
    /\ pc[c] = "accept"
    /\ LET held == accepted[Home[c]] IN
       IF Newer(held, Value(c))
         THEN /\ accepted' = [accepted EXCEPT ![Home[c]] = Value(c)]
              /\ \/ notice' = IF held = Nobody THEN notice
                              ELSE [notice EXCEPT ![held.conn] = @ \cup {"close"}]
                 \/ "lost" \in Mishaps /\ UNCHANGED notice
              /\ Goto(c, "attach")
         ELSE Goto(c, "reject") /\ UNCHANGED <<accepted, notice>>
    /\ UNCHANGED <<row, store, local, reclaim, lapses, written, reigned>>

\* attach_session_to_daemon for the reported sessions, if there are any
AttachReported(c) ==
    /\ pc[c] = "attach"
    /\ \/ Goto(c, "recheck")
       \/ accepted[Home[c]] # Value(c) /\ Goto(c, "reject")
    /\ UNCHANGED <<row, store, accepted, local, rest>>

\* publish_if_host_owner of the predecessor's revocation
RevokePredecessor(c) ==
    /\ pc[c] = "revoke"
    /\ IF IsCurrent(Value(c))
         THEN /\ Goto(c, "last")
              /\ notice' = IF Alive(peer[c].conn)
                             THEN [notice EXCEPT ![peer[c].conn] = @ \cup {"revoke"}]
                             ELSE notice
         ELSE Goto(c, "reject") /\ UNCHANGED notice
    /\ UNCHANGED <<row, store, accepted, local, reclaim, lapses, written, reigned>>

\* Slips: the generation goes with the connection; the host alone is matched.
MarkOfflineAndForget(c) ==
    row' = IF DurableOwner(c) THEN [row EXCEPT !.conn = NoConn, !.gen = -1] ELSE row

MarkOfflineAnyone(c) ==
    row' = [row EXCEPT !.conn = NoConn]

\* _mark_host_offline_if_owner, wherever it is called
MarkOffline(c) ==
    row' = IF DurableOwner(c) THEN [row EXCEPT !.conn = NoConn] ELSE row

\* if not registration_accepted
Reject(c) ==
    /\ pc[c] = "reject"
    /\ MarkOffline(c)
    /\ Goto(c, "refused")
    /\ UNCHANGED <<store, accepted, local, rest>>

-----------------------------------------------------------------------------
(* Serving.                                                                 *)

\* Any frame but a heartbeat: _daemon_can_mutate asks the broker, then Redis ...
Frame(c) ==
    /\ pc[c] = "ready"
    /\ IF accepted[Home[c]] = Value(c)
         THEN seen' = [seen EXCEPT ![c] = active] /\ Goto(c, "gate")
         ELSE UNCHANGED seen /\ Goto(c, "close")
    /\ UNCHANGED <<row, store, accepted, gen, peer, rest>>

\* ... then the database, about the lease Redis showed a moment ago.
Gate(c) ==
    /\ pc[c] = "gate"
    /\ Goto(c, IF OwnsPresence(c, seen[c]) THEN "write" ELSE "close")
    /\ UNCHANGED <<row, store, accepted, local, rest>>

\* Slip: the gate is trusted and the row not locked.
WriteOnceGated(c) ==
    /\ pc[c] = "write"
    /\ written' = gen[c]
    /\ Goto(c, "ready") \/ Goto(c, "announce")
    /\ UNCHANGED <<row, store, accepted, local, notice, reclaim, lapses, reigned>>

\* session.started, .activity, .input_activity, .foreground, .exit: one
\* transaction that holds the row's lock.  Some of them then publish.
WriteSession(c) ==
    /\ pc[c] = "write"
    /\ IF DurableOwner(c)
         THEN written' = gen[c] /\ (Goto(c, "ready") \/ Goto(c, "announce"))
         ELSE UNCHANGED written /\ Goto(c, "close")
    /\ UNCHANGED <<row, store, accepted, local, notice, reclaim, lapses, reigned>>

\* _publish_session_event_if_owner
Announce(c) ==
    /\ pc[c] = "announce"
    /\ Goto(c, IF IsCurrent(Value(c)) THEN "ready" ELSE "close")
    /\ UNCHANGED <<row, store, accepted, local, rest>>

\* Slip: a heartbeat that touches no row is let pass.
HeartbeatUnchecked(c) ==
    /\ pc[c] = "ready"
    /\ Goto(c, IF DurableOwner(c) THEN "refresh" ELSE "ready")
    /\ UNCHANGED <<row, store, accepted, local, rest>>

\* host.heartbeat: _touch_host ...
Heartbeat(c) ==
    /\ pc[c] = "ready"
    /\ Goto(c, IF DurableOwner(c) THEN "refresh" ELSE "close")
    /\ UNCHANGED <<row, store, accepted, local, rest>>

\* ... then _refresh_host_signal_presence: refresh_ephemeral_if,
Refresh(c) ==
    /\ pc[c] = "refresh"
    /\ Goto(c, IF active = Value(c) THEN "ready" ELSE "successor")
    /\ UNCHANGED <<row, store, accepted, local, rest>>

\* _durable_pending_successor,
Successor(c) ==
    /\ pc[c] = "successor"
    /\ IF DurableOwner(c)
         THEN peer' = [peer EXCEPT ![c] = row.pending] /\ Goto(c, "lookup")
         ELSE UNCHANGED peer /\ Goto(c, "close")
    /\ UNCHANGED <<row, store, accepted, gen, seen, rest>>

Lookup(c) ==
    /\ pc[c] = "lookup"
    /\ Goto(c, IF peer[c] # Nobody /\ active = peer[c] THEN "ready" ELSE "retake")
    /\ UNCHANGED <<row, store, accepted, local, rest>>

\* set_ephemeral_if_newer on the active key,
Retake(c) ==
    /\ pc[c] = "retake"
    /\ IF Newer(active, Value(c))
         THEN active' = Value(c) /\ Goto(c, "confirm")
         ELSE UNCHANGED active /\ Goto(c, "close")
    /\ UNCHANGED <<row, pending, accepted, local, rest>>

\* and _is_durable_host_owner, after which a lease taken in error is given back.
Confirm(c) ==
    /\ pc[c] = "confirm"
    /\ Goto(c, IF DurableOwner(c) THEN "ready" ELSE "undo")
    /\ UNCHANGED <<row, store, accepted, local, rest>>

Undo(c) ==
    /\ pc[c] = "undo"
    /\ active' = Without(active, Value(c))
    /\ Goto(c, "close")
    /\ UNCHANGED <<row, pending, accepted, local, rest>>

\* _pump_host_rtc_signals reads a revocation, at any moment of the handler.
HearRevocation(c) ==
    /\ Alive(c)
    /\ "revoke" \in notice[c]
    /\ notice' = [notice EXCEPT ![c] =
                    IF OwnsPresence(c, active) THEN @ \ {"revoke"} ELSE {"close"}]
    /\ UNCHANGED <<row, store, accepted, pc, local, reclaim, lapses, written, reigned>>

\* receive_with_signal_pump finds the socket closed or the pump ended.
SeeClose(c) ==
    /\ pc[c] = "ready"
    /\ "close" \in notice[c]
    /\ Goto(c, "close")
    /\ UNCHANGED <<row, store, accepted, local, rest>>

-----------------------------------------------------------------------------
(* Leaving: the finally block of daemon_ws.  Without a generation it does   *)
(* nothing to the row or to Redis: Value(c) is then nobody's lease.         *)

DropActive(c) ==
    /\ pc[c] \in {"refused", "close"}
    /\ active' = Without(active, Value(c))
    /\ Goto(c, "dropPending")
    /\ UNCHANGED <<row, pending, accepted, local, rest>>

DropPending(c) ==
    /\ pc[c] = "dropPending"
    /\ pending' = Without(pending, Value(c))
    /\ Goto(c, "unregister")
    /\ UNCHANGED <<row, active, accepted, local, rest>>

\* Slip: whoever is routed for the host is dropped.
UnregisterAnyone(c) ==
    /\ pc[c] = "unregister"
    /\ accepted' = [accepted EXCEPT ![Home[c]] = Nobody]
    /\ Goto(c, "release")
    /\ UNCHANGED <<row, store, local, rest>>

\* unregister_daemon
Unregister(c) ==
    /\ pc[c] = "unregister"
    /\ accepted' = [accepted EXCEPT ![Home[c]] = Without(@, Value(c))]
    /\ Goto(c, "release")
    /\ UNCHANGED <<row, store, local, rest>>

Release(c) ==
    /\ pc[c] = "release"
    /\ ClearReservation(c)
    /\ Goto(c, "offline")
    /\ UNCHANGED <<store, accepted, local, rest>>

GoOffline(c) ==
    /\ pc[c] = "offline"
    /\ MarkOffline(c)
    /\ Goto(c, "gone")
    /\ UNCHANGED <<store, accepted, local, rest>>

-----------------------------------------------------------------------------
(* reclaim_daemon_presence_if_missing, run by the handler of a browser.     *)

BeginReclaim(c) ==
    /\ reclaim[c] = "off"
    /\ gen[c] # 0 /\ accepted[Home[c]] = Value(c)
    /\ active = Nobody
    /\ reclaim' = [reclaim EXCEPT ![c] = "row"]
    /\ UNCHANGED <<row, store, accepted, pc, local, notice, lapses, written, reigned>>

ReclaimReadRow(c) ==
    /\ reclaim[c] = "row"
    /\ reclaim' = [reclaim EXCEPT ![c] = IF DurableOwner(c) THEN "set" ELSE "off"]
    /\ UNCHANGED <<row, store, accepted, pc, local, notice, lapses, written, reigned>>

ReclaimSet(c) ==
    /\ reclaim[c] = "set"
    /\ active' = IF Newer(active, Value(c)) THEN Value(c) ELSE active
    /\ reclaim' = [reclaim EXCEPT ![c] = "off"]
    /\ UNCHANGED <<row, pending, accepted, pc, local, notice, lapses, written, reigned>>

-----------------------------------------------------------------------------
(* Faults.                                                                  *)

\* The socket drops, a database call fails or the handler is cancelled.
Interrupt(c) ==
    /\ "drop" \in Mishaps
    /\ pc[c] \in Registering \cup Reconciling \cup Admitting \cup Serving
    /\ Goto(c, "close")
    /\ UNCHANGED <<row, store, accepted, local, rest>>

\* Redis or the database fails during the finally block.
CleanupFails(c) ==
    /\ "cleanup" \in Mishaps
    /\ \/ pc[c] \in {"refused", "close", "dropPending"} /\ Goto(c, "unregister")
       \/ pc[c] \in {"release", "offline"} /\ Goto(c, "gone")
    /\ UNCHANGED <<row, store, accepted, local, rest>>

\* A lease expires, or Redis loses it.
Lapse ==
    /\ lapses < MaxLapses
    /\ lapses' = lapses + 1
    /\ \/ active # Nobody /\ active' = Nobody /\ UNCHANGED pending
       \/ pending # Nobody /\ pending' = Nobody /\ UNCHANGED active
    /\ UNCHANGED <<row, accepted, pc, local, notice, reclaim, written, reigned>>

\* A server process dies with its sockets, its broker and its browsers.
Crash(w) ==
    /\ "crash" \in Mishaps
    /\ \E c \in Conn : Home[c] = w /\ Alive(c)
    /\ pc' = [c \in Conn |-> IF Home[c] = w /\ Alive(c) THEN "gone" ELSE pc[c]]
    /\ accepted' = [accepted EXCEPT ![w] = Nobody]
    /\ reclaim' = [c \in Conn |-> IF Home[c] = w THEN "off" ELSE reclaim[c]]
    /\ UNCHANGED <<row, store, local, notice, lapses, written, reigned>>

-----------------------------------------------------------------------------
Register(c) == Allocate(c) \/ Claim(c) \/ Unclaim(c) \/ Predecessor(c)
Attempt(c) == ReadActive(c) \/ Commit(c) \/ PromoteLease(c)
Reconcile(c) ==
    \/ ReadRow(c) \/ ReconcileOwner(c) \/ ConfirmLease(c) \/ ForgetPending(c)
    \/ PendAgain(c) \/ PromoteAgain(c) \/ CheckLease(c) \/ ReconcilePrevious(c)
    \/ RestoreLease(c) \/ RemakeLease(c) \/ ReconcileClear(c)
Admit(c) ==
    \/ Adopt(c) \/ CheckCurrent(c) \/ Accept(c) \/ AttachReported(c)
    \/ RevokePredecessor(c) \/ Reject(c)
HandleFrame(c) == Gate(c) \/ WriteSession(c) \/ Announce(c)
RefreshLease(c) ==
    Refresh(c) \/ Successor(c) \/ Lookup(c) \/ Retake(c) \/ Confirm(c) \/ Undo(c)
Leave(c) ==
    DropActive(c) \/ DropPending(c) \/ Unregister(c) \/ Release(c) \/ GoOffline(c)

\* What the handler of a connection does by itself once it has begun.
Progress(c) ==
    \/ Register(c) \/ Attempt(c) \/ Reconcile(c) \/ Admit(c)
    \/ HandleFrame(c) \/ RefreshLease(c) \/ Leave(c)
Reclaim(c) == BeginReclaim(c) \/ ReclaimReadRow(c) \/ ReclaimSet(c)
Fault(c) == AbandonAttempt(c) \/ Interrupt(c) \/ CleanupFails(c)

Next ==
    \/ \E c \in Conn : \/ Connect(c) \/ Progress(c) \/ Frame(c) \/ Heartbeat(c)
                      \/ HearRevocation(c) \/ SeeClose(c) \/ Reclaim(c) \/ Fault(c)
    \/ Lapse
    \/ \E w \in Worker : Crash(w)

Spec == Init /\ [][Next]_vars

\* Handlers run on; the daemon keeps sending heartbeats; a closed socket and a
\* delivered revocation are noticed.
Fairness ==
    \A c \in Conn : /\ WF_vars(Progress(c))
                    /\ SF_vars(Heartbeat(c))
                    /\ WF_vars(HearRevocation(c))
                    /\ SF_vars(SeeClose(c))
                    /\ WF_vars(ReclaimReadRow(c) \/ ReclaimSet(c))
FairSpec == Spec /\ Fairness

-----------------------------------------------------------------------------
(* Safety.                                                                  *)

\* Every (connection, generation) pair some part of the system holds.
Held ==
    {active, pending, row.pending, [conn |-> row.conn, gen |-> row.gen]}
        \cup {accepted[w] : w \in Worker}
        \cup {Value(c) : c \in Conn} \cup {peer[c] : c \in Conn} \cup {seen[c] : c \in Conn}

\* A generation is the fencing token of one connection: wherever it turns up, in
\* the row, in Redis, in a broker or in a handler's hands, it names the same one
\* (_allocate_host_generation hands out each value of the counter once).
OneConnectionPerGeneration ==
    \A o, p \in Held :
        o.gen = p.gen /\ o.gen # 0 /\ o.conn # NoConn /\ p.conn # NoConn => o.conn = p.conn

\* An outstanding reservation is the newest generation handed out and is newer
\* than the owner's, so that activating it can only raise the owner's generation
\* (_prepare_host_activation checks that the reservation is still there, not that
\* it is newer).
ReservationIsNewest ==
    /\ row.gen <= row.counter
    /\ row.pending # Nobody => row.pending.gen = row.counter /\ row.gen < row.pending.gen

\* Redis never runs ahead of the database: whoever holds the active lease, or is
\* routed by a broker, with the generation it has there, was committed to the row
\* as the owner before (_attempt_host_activation commits and then promotes the
\* lease; the comments on a promotion that waits for its commit, at
\* _refresh_host_signal_presence and restore_ephemeral_if, describe the opposite
\* order).  So no lease and no route ever has to be taken back because a commit
\* failed.
LeaseFollowsCommit ==
    /\ active \in reigned
    /\ \A w \in Worker : accepted[w] \in reigned

\* A registered connection that the row still names as the owner is the one its
\* process routes to: frames for the host are not sent to a predecessor, and the
\* owner's own frames pass is_accepted_daemon_owner.
OwnerIsRouted ==
    \A c \in Conn : pc[c] \in Serving /\ DurableOwner(c) => accepted[Home[c]] = Value(c)

\* No registration is turned away for nothing: with every lease in place, an
\* attempt that was not itself abandoned is refused only if the counter is
\* exhausted, down to its last value, or if a newer reservation was made, whatever
\* else was interrupted.
RefusedOnlyByNewer ==
    [][\A c \in Conn :
         /\ pc[c] \in {"allocate", "unclaim", "predecessor", "recCheck", "reject"}
         /\ pc'[c] = "refused"
         => \/ lapses > 0
            \/ IF pc[c] = "allocate" THEN row.counter = MaxGeneration
                                    ELSE row.counter > gen[c]]_vars

\* Session rows are written in the order of the generations: once a replacement
\* daemon has written, nothing its predecessor still has in flight is written
\* (_lock_durable_host_owner in every frame handler).
WritesInGenerationOrder == [][written <= written']_vars

\* A stale handler's cleanup takes nothing from its successor: a step of one
\* connection never unroutes, unleases or marks offline another (the exact
\* tuple in every delete, update and unregister).
CleanupSparesOthers ==
    [][\A c \in Conn : Leave(c) =>
        /\ active.conn # c => active' = active
        /\ pending.conn # c => pending' = pending
        /\ row.conn # c => row'.conn = row.conn
        /\ \A w \in Worker : accepted[w].conn # c => accepted'[w] = accepted[w]]_vars

-----------------------------------------------------------------------------
(* Liveness.                                                                *)

\* Every connection ends up gone, or served by every record of ownership at
\* once: a registration always ends, a connection that was superseded leaves
\* even when nobody manages to close it (its next heartbeat does), and whoever
\* stays is the owner in the row, holds the active lease and is routed.
OwnershipConverges ==
    <>[](\A c \in Conn :
            \/ pc[c] \in {"new", "gone"}
            \/ /\ pc[c] \in Serving
               /\ DurableOwner(c) /\ active = Value(c) /\ accepted[Home[c]] = Value(c))

=============================================================================
