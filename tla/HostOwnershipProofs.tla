------------------------ MODULE HostOwnershipProofs ------------------------
(***************************************************************************)
(* The fencing of host ownership, for any number of connections, server    *)
(* processes, generations and lost leases.                                  *)
(***************************************************************************)
EXTENDS HostOwnership, TLAPS

\* Where a handler has seen itself committed as the owner.
Committed == {"promote", "recOwner", "recConfirm", "recDrop", "recPend", "recPromote",
              "recCheck"} \cup Admitting \cup Serving

\* What the handlers have in hand never exceeds what the row has given out, and
\* what they are about to put into Redis or a broker was committed before.
Fence ==
    /\ \A c \in Conn : gen[c] <= row.counter
    /\ \A c \in Conn : pc[c] \in {"new", "allocate"} => gen[c] = 0
    /\ \A c \in Conn : reclaim[c] # "off" => gen[c] # 0
    /\ \A c \in Conn : pc[c] \in Committed \/ reclaim[c] = "set" => Value(c) \in reigned
    /\ \A c \in Conn : pc[c] \in Attempting \cup Reconciling => peer[c] \in reigned
    /\ row.conn # NoConn => [conn |-> row.conn, gen |-> row.gen] \in reigned
    /\ Nobody \in reigned
    /\ written <= row.gen

IInv == TypeOK /\ ReservationIsNewest /\ LeaseFollowsCommit /\ Fence

-----------------------------------------------------------------------------
\* The initial state: nobody connected.
LEMMA InitIInv == Init => IInv
BY ConnAssumption, LapseAssumption, GenerationAssumption
   DEF Init, IInv, TypeOK, ReservationIsNewest, LeaseFollowsCommit, Fence, Value, Owner, Nobody,
       Committed, Admitting, Serving, Attempting, Reconciling, PC

\* A step that only moves one handler on, to a place whose claims it satisfies.
LEMMA GotoIInv ==
    ASSUME IInv, NEW c \in Conn, NEW l \in PC, Goto(c, l), l \notin {"new", "allocate"},
           l \in Committed => Value(c) \in reigned,
           l \in Attempting \cup Reconciling => peer[c] \in reigned,
           UNCHANGED <<row, store, accepted, local, rest>>
    PROVE  IInv'
<1> USE DEF store, local, rest, Goto
<1>1. TypeOK'
  BY DEF IInv, TypeOK
<1>2. ReservationIsNewest' /\ LeaseFollowsCommit'
  BY DEF IInv, ReservationIsNewest, LeaseFollowsCommit
<1>3. Fence'
  BY DEF IInv, TypeOK, Fence, Value
<1> QED BY <1>1, <1>2, <1>3 DEF IInv

\* A step that also puts a committed owner, or nobody, under the Redis keys.
LEMMA StoreIInv ==
    ASSUME IInv, NEW c \in Conn, NEW l \in PC, Goto(c, l), l \notin {"new", "allocate"},
           l \in Committed => Value(c) \in reigned,
           l \in Attempting \cup Reconciling => peer[c] \in reigned,
           active' \in Owner, pending' \in Owner, active' \in reigned,
           UNCHANGED <<row, accepted, local, rest>>
    PROVE  IInv'
<1> USE DEF local, rest, Goto
<1>1. TypeOK'
  BY DEF IInv, TypeOK
<1>2. ReservationIsNewest' /\ LeaseFollowsCommit'
  BY DEF IInv, ReservationIsNewest, LeaseFollowsCommit
<1>3. Fence'
  BY DEF IInv, TypeOK, Fence, Value
<1> QED BY <1>1, <1>2, <1>3 DEF IInv

\* A step that withdraws a reservation or takes the owner offline.
LEMMA RowIInv ==
    ASSUME IInv, NEW c \in Conn, NEW l \in PC, Goto(c, l),
           l \notin {"new", "allocate"} \cup Committed \cup Attempting \cup Reconciling,
           ClearReservation(c) \/ MarkOffline(c),
           UNCHANGED <<store, accepted, local, rest>>
    PROVE  IInv'
<1> USE DEF store, local, rest, Goto
<1>1. /\ row' \in [counter : Nat, pending : Owner, conn : Conn \cup {NoConn}, gen : Nat]
      /\ row'.counter = row.counter /\ row'.gen = row.gen
      /\ row'.pending \in {row.pending, Nobody} /\ row'.conn \in {row.conn, NoConn}
  BY ConnAssumption DEF IInv, TypeOK, Owner, Nobody, ClearReservation, MarkOffline
<1>2. TypeOK'
  BY <1>1 DEF IInv, TypeOK
<1>3. ReservationIsNewest' /\ LeaseFollowsCommit'
  BY <1>1 DEF IInv, ReservationIsNewest, LeaseFollowsCommit
<1>4. Fence'
  BY <1>1 DEF IInv, TypeOK, Fence, Value
<1> QED BY <1>2, <1>3, <1>4 DEF IInv

\* What Redis may be given: the handler's own value, the predecessor's, nobody.
LEMMA OwnerValues ==
    ASSUME IInv, NEW c \in Conn
    PROVE  /\ Nobody \in Owner /\ Nobody \in reigned
           /\ Value(c) \in Owner
           /\ DurableOwner(c) => Value(c) \in reigned
           /\ peer[c] \in Owner /\ active \in Owner /\ pending \in Owner
           /\ active \in reigned
           /\ Without(active, Value(c)) \in {active, Nobody}
           /\ Without(pending, Value(c)) \in {pending, Nobody}
BY ConnAssumption DEF IInv, TypeOK, Owner, Nobody, Value, Without, LeaseFollowsCommit, Fence,
   DurableOwner

LEMMA RegisterIInv == ASSUME IInv, NEW c \in Conn, Register(c) PROVE IInv'
<1> USE DEF store, local, rest, Goto, PC, Registering, Attempting, Reconciling, Admitting,
            Serving, Leaving, Committed
<1>1. CASE Allocate(c)
  <2>1. CASE row.counter < MaxGeneration
    <3>1. row' = [counter |-> row.counter + 1, pending |-> [conn |-> c, gen |-> row.counter + 1],
                  conn |-> row.conn, gen |-> row.gen]
      BY <1>1, <2>1 DEF Allocate, IInv, TypeOK
    <3>2. \/ gen' = [gen EXCEPT ![c] = row.counter + 1] /\ pc' = [pc EXCEPT ![c] = "claim"]
          \/ gen' = gen /\ pc' = [pc EXCEPT ![c] = "close"]
      BY <1>1, <2>1 DEF Allocate
    <3>3. UNCHANGED <<active, pending, accepted, peer, seen, notice, reclaim, lapses, written,
                      reigned>>
      BY <1>1 DEF Allocate
    <3>4. pc[c] = "allocate"
      BY <1>1 DEF Allocate
    <3>5. TypeOK'
      <4>1. row' \in [counter : Nat, pending : Owner, conn : Conn \cup {NoConn}, gen : Nat]
        BY <3>1 DEF IInv, TypeOK, Owner
      <4>2. gen' \in [Conn -> Nat] /\ pc' \in [Conn -> PC]
        BY <3>2 DEF IInv, TypeOK
      <4> QED BY <3>3, <4>1, <4>2 DEF IInv, TypeOK
    <3>6. ReservationIsNewest'
      BY <3>1 DEF IInv, TypeOK, ReservationIsNewest
    <3>7. LeaseFollowsCommit'
      BY <3>1, <3>3 DEF IInv, LeaseFollowsCommit
    <3>8. Fence'
      BY <3>1, <3>2, <3>3, <3>4 DEF IInv, TypeOK, Fence, Value
    <3> QED BY <3>5, <3>6, <3>7, <3>8 DEF IInv
  <2>2. CASE ~(row.counter < MaxGeneration)
    BY <1>1, <2>2, GotoIInv DEF Allocate
  <2> QED BY <2>1, <2>2
<1>2. CASE Claim(c)
  <2>1. TypeOK'
    BY <1>2 DEF Claim, IInv, TypeOK, Owner, Value
  <2> QED BY <1>2, <2>1 DEF Claim, IInv, TypeOK, ReservationIsNewest, LeaseFollowsCommit,
                            Fence, Value
<1>3. CASE Unclaim(c)
  <2>1. TypeOK'
    BY <1>3, ConnAssumption DEF Unclaim, ClearReservation, IInv, TypeOK, Owner, Nobody
  <2> QED BY <1>3, <2>1 DEF Unclaim, ClearReservation, IInv, TypeOK, ReservationIsNewest,
                            LeaseFollowsCommit, Fence, Value
<1>4. CASE Predecessor(c)
  <2>1. TypeOK'
    <3>1. (IF row.conn = NoConn THEN Nobody ELSE [conn |-> row.conn, gen |-> row.gen]) \in Owner
      BY OwnerValues DEF IInv, TypeOK, Owner
    <3> QED BY <1>4, <3>1 DEF Predecessor, IInv, TypeOK
  <2> QED BY <1>4, <2>1 DEF Predecessor, IInv, TypeOK, Nobody, ReservationIsNewest,
                            LeaseFollowsCommit, Fence, Value
<1> QED BY <1>1, <1>2, <1>3, <1>4 DEF Register

LEMMA ReadActiveIInv == ASSUME IInv, NEW c \in Conn, ReadActive(c) PROVE IInv'
<1> USE DEF PC, Registering, Attempting, Reconciling, Admitting, Serving, Leaving, Committed
<1>1. peer[c] \in reigned
  BY DEF ReadActive, IInv, Fence
<1>2. Goto(c, "commit") \/ Goto(c, "recRow")
  BY DEF ReadActive
<1> QED BY <1>1, <1>2, GotoIInv DEF ReadActive

LEMMA AttemptIInv == ASSUME IInv, NEW c \in Conn, Attempt(c) PROVE IInv'
<1> USE DEF store, local, rest, Goto, PC, Registering, Attempting, Reconciling, Admitting,
            Serving, Leaving, Committed
<1>1. CASE ReadActive(c)
  BY <1>1, ReadActiveIInv
<1>2. CASE Commit(c)
  <2>1. CASE row.pending = Value(c)
    <3>1. row' = [counter |-> row.counter, pending |-> Nobody, conn |-> c, gen |-> gen[c]]
      BY <1>2, <2>1 DEF Commit, IInv, TypeOK
    <3>2. /\ pc[c] = "commit"
          /\ pc' = [pc EXCEPT ![c] = "promote"]
          /\ reigned' = reigned \cup {Value(c)}
          /\ UNCHANGED <<active, pending, accepted, gen, peer, seen, notice, reclaim, lapses,
                         written>>
      BY <1>2, <2>1 DEF Commit
    <3>3. row.gen < gen[c] /\ gen[c] = row.counter
      BY <2>1, ConnAssumption DEF IInv, TypeOK, Value, Nobody, ReservationIsNewest
    <3>4. TypeOK'
      BY <3>1, <3>2, OwnerValues DEF IInv, TypeOK
    <3>5. ReservationIsNewest'
      BY <3>1, <3>3 DEF IInv, TypeOK, ReservationIsNewest
    <3>6. LeaseFollowsCommit'
      BY <3>2 DEF IInv, LeaseFollowsCommit
    <3>7. Fence'
      BY <3>1, <3>2, <3>3 DEF IInv, TypeOK, Owner, Fence, Value
    <3> QED BY <3>4, <3>5, <3>6, <3>7 DEF IInv
  <2>2. CASE row.pending # Value(c)
    <3>1. peer[c] \in reigned
      BY <1>2 DEF Commit, IInv, Fence
    <3> QED BY <1>2, <2>2, <3>1, GotoIInv DEF Commit
  <2> QED BY <2>1, <2>2
<1>3. CASE PromoteLease(c)
  <2>1. TypeOK'
    BY <1>3, ConnAssumption DEF PromoteLease, Promote, IInv, TypeOK, Owner, Nobody, Value
  <2> QED BY <1>3, <2>1 DEF PromoteLease, Promote, Value, IInv, TypeOK, ReservationIsNewest,
                            LeaseFollowsCommit, Fence
<1> QED BY <1>1, <1>2, <1>3 DEF Attempt

LEMMA ReconcileIInv == ASSUME IInv, NEW c \in Conn, Reconcile(c) PROVE IInv'
<1> USE DEF PC, Registering, Attempting, Reconciling, Admitting, Serving, Leaving, Committed
<1>a. pc[c] \in Reconciling => peer[c] \in reigned
  BY DEF IInv, Fence
<1>b. pc[c] \in {"recOwner", "recConfirm", "recDrop", "recPend", "recPromote", "recCheck"} =>
        Value(c) \in reigned
  BY DEF IInv, Fence
<1>c. DurableOwner(c) => Value(c) \in reigned
  BY OwnerValues
<1>1. CASE ReadRow(c)
  <2>1. \/ Goto(c, "recOwner") /\ DurableOwner(c)
        \/ Goto(c, "recPrevious") \/ Goto(c, "recForget")
    BY <1>1 DEF ReadRow
  <2> QED BY <1>1, <2>1, <1>a, <1>c, GotoIInv DEF ReadRow
<1>2. CASE ReconcileOwner(c)
  <2>1. Goto(c, "recConfirm") \/ Goto(c, "recPend")
    BY <1>2 DEF ReconcileOwner
  <2> QED BY <1>2, <2>1, <1>a, <1>b, GotoIInv DEF ReconcileOwner
<1>3. CASE ConfirmLease(c)
  <2>1. Goto(c, "recDrop") \/ Goto(c, "recPend")
    BY <1>3 DEF ConfirmLease
  <2> QED BY <1>3, <2>1, <1>a, <1>b, GotoIInv DEF ConfirmLease
<1>4. CASE ForgetPending(c)
  <2>1. \/ Goto(c, "adopt") /\ pc[c] = "recDrop"
        \/ Goto(c, "recClear") \/ Goto(c, "refused")
    BY <1>4 DEF ForgetPending
  <2> QED BY <1>4, <2>1, <1>a, <1>b, OwnerValues, StoreIInv DEF ForgetPending
<1>5. CASE PendAgain(c)
  BY <1>5, <1>a, <1>b, OwnerValues, StoreIInv DEF PendAgain
<1>6. CASE PromoteAgain(c)
  BY <1>6, <1>a, <1>b, OwnerValues, StoreIInv DEF PromoteAgain, Promote, store
<1>7. CASE CheckLease(c)
  <2>1. Goto(c, "adopt") \/ Goto(c, "refused")
    BY <1>7 DEF CheckLease
  <2> QED BY <1>7, <2>1, <1>b, GotoIInv DEF CheckLease
<1>8. CASE ReconcilePrevious(c)
  <2>1. Goto(c, "recRestore") \/ Goto(c, "recRemake") \/ Goto(c, "recUnpend")
    BY <1>8 DEF ReconcilePrevious
  <2> QED BY <1>8, <2>1, <1>a, GotoIInv DEF ReconcilePrevious
<1>9. CASE RestoreLease(c)
  BY <1>9, <1>a, OwnerValues, StoreIInv DEF RestoreLease
<1>10. CASE RemakeLease(c)
  BY <1>10, <1>a, OwnerValues, StoreIInv DEF RemakeLease, store
<1>11. CASE ReconcileClear(c)
  BY <1>11, RowIInv DEF ReconcileClear
<1> QED BY <1>1, <1>2, <1>3, <1>4, <1>5, <1>6, <1>7, <1>8, <1>9, <1>10, <1>11 DEF Reconcile

LEMMA AdmitIInv == ASSUME IInv, NEW c \in Conn, Admit(c) PROVE IInv'
<1> USE DEF PC, Registering, Attempting, Reconciling, Admitting, Serving, Leaving, Committed
<1>a. pc[c] \in Admitting => Value(c) \in reigned
  BY DEF IInv, Fence
<1>1. CASE Adopt(c)
  <2>1. Goto(c, "check") \/ Goto(c, "reject")
    BY <1>1 DEF Adopt
  <2> QED BY <1>1, <2>1, <1>a, GotoIInv DEF Adopt
<1>2. CASE CheckCurrent(c)
  <2>1. \/ Goto(c, "reject") \/ Goto(c, "accept") \/ Goto(c, "last")
        \/ Goto(c, "revoke") \/ Goto(c, "ready")
    BY <1>2 DEF CheckCurrent
  <2> QED BY <1>2, <2>1, <1>a, GotoIInv DEF CheckCurrent
<1>3. CASE Accept(c)
  <2>1. CASE accepted' = accepted /\ notice' = notice /\ Goto(c, "reject")
    BY <1>3, <2>1, <1>a, GotoIInv DEF Accept, rest
  <2>2. CASE accepted' = [accepted EXCEPT ![Home[c]] = Value(c)] /\ Goto(c, "attach")
    <3>1. notice' \in [Conn -> SUBSET {"close", "revoke"}]
      BY <1>3, <2>2 DEF Accept, IInv, TypeOK
    <3>2. TypeOK'
      BY <1>3, <2>2, <3>1, OwnerValues DEF Accept, Goto, store, local, IInv, TypeOK
    <3>3. LeaseFollowsCommit'
      BY <1>3, <2>2, <1>a, OwnerValues DEF Accept, store, local, IInv, TypeOK, LeaseFollowsCommit
    <3>4. Fence' /\ ReservationIsNewest'
      BY <1>3, <2>2, <1>a
         DEF Accept, Goto, store, local, IInv, TypeOK, Fence, Value, ReservationIsNewest
    <3> QED BY <3>2, <3>3, <3>4 DEF IInv
  <2> QED BY <1>3, <2>1, <2>2 DEF Accept
<1>4. CASE AttachReported(c)
  BY <1>4, <1>a, GotoIInv DEF AttachReported
<1>5. CASE RevokePredecessor(c)
  <2>1. Goto(c, "last") \/ Goto(c, "reject")
    BY <1>5 DEF RevokePredecessor
  <2>2. notice' \in [Conn -> SUBSET {"close", "revoke"}]
    BY <1>5 DEF RevokePredecessor, IInv, TypeOK
  <2>3. TypeOK'
    BY <1>5, <2>1, <2>2 DEF RevokePredecessor, Goto, store, local, IInv, TypeOK
  <2> QED BY <1>5, <2>1, <2>3, <1>a DEF RevokePredecessor, Goto, store, local, IInv, TypeOK,
              Fence, Value, ReservationIsNewest, LeaseFollowsCommit
<1>6. CASE Reject(c)
  BY <1>6, RowIInv DEF Reject
<1> QED BY <1>1, <1>2, <1>3, <1>4, <1>5, <1>6 DEF Admit

LEMMA ServeIInv ==
    ASSUME IInv, NEW c \in Conn,
           Frame(c) \/ HandleFrame(c) \/ Heartbeat(c) \/ RefreshLease(c) \/ SeeClose(c)
    PROVE  IInv'
<1> USE DEF PC, Registering, Attempting, Reconciling, Admitting, Serving, Leaving, Committed
<1>a. pc[c] \in Serving => Value(c) \in reigned
  BY DEF IInv, Fence
<1>1. CASE Frame(c)
  BY <1>1, <1>a DEF Frame, Goto, store, rest, IInv, TypeOK, Fence, Value, ReservationIsNewest,
                    LeaseFollowsCommit
<1>2. CASE Gate(c)
  <2>1. Goto(c, "write") \/ Goto(c, "close")
    BY <1>2 DEF Gate
  <2> QED BY <1>2, <2>1, <1>a, GotoIInv DEF Gate
<1>3. CASE WriteSession(c)
  <2>1. Goto(c, "ready") \/ Goto(c, "announce") \/ Goto(c, "close")
    BY <1>3 DEF WriteSession
  <2>2. written' \in Nat /\ written' <= row.gen
    BY <1>3, <1>a DEF WriteSession, DurableOwner, IInv, TypeOK, Fence
  <2> QED BY <1>3, <2>1, <2>2, <1>a DEF WriteSession, Goto, store, local, IInv, TypeOK, Fence,
              Value, ReservationIsNewest, LeaseFollowsCommit
<1>4. CASE Announce(c)
  <2>1. Goto(c, "ready") \/ Goto(c, "close")
    BY <1>4 DEF Announce
  <2> QED BY <1>4, <2>1, <1>a, GotoIInv DEF Announce
<1>5. CASE Heartbeat(c)
  <2>1. Goto(c, "refresh") \/ Goto(c, "close")
    BY <1>5 DEF Heartbeat
  <2> QED BY <1>5, <2>1, <1>a, GotoIInv DEF Heartbeat
<1>6. CASE Refresh(c)
  <2>1. Goto(c, "ready") \/ Goto(c, "successor")
    BY <1>6 DEF Refresh
  <2> QED BY <1>6, <2>1, <1>a, GotoIInv DEF Refresh
<1>7. CASE Successor(c)
  BY <1>7, <1>a DEF Successor, Goto, store, rest, IInv, TypeOK, Fence, Value, ReservationIsNewest,
                    LeaseFollowsCommit
<1>8. CASE Lookup(c)
  <2>1. Goto(c, "ready") \/ Goto(c, "retake")
    BY <1>8 DEF Lookup
  <2> QED BY <1>8, <2>1, <1>a, GotoIInv DEF Lookup
<1>9. CASE Retake(c)
  BY <1>9, <1>a, OwnerValues, StoreIInv DEF Retake
<1>10. CASE Confirm(c)
  <2>1. Goto(c, "ready") \/ Goto(c, "undo")
    BY <1>10 DEF Confirm
  <2> QED BY <1>10, <2>1, <1>a, GotoIInv DEF Confirm
<1>11. CASE Undo(c)
  BY <1>11, OwnerValues, StoreIInv DEF Undo
<1>12. CASE SeeClose(c)
  BY <1>12, GotoIInv DEF SeeClose
<1> QED BY <1>1, <1>2, <1>3, <1>4, <1>5, <1>6, <1>7, <1>8, <1>9, <1>10, <1>11, <1>12
        DEF HandleFrame, RefreshLease

LEMMA LeaveIInv == ASSUME IInv, NEW c \in Conn, Leave(c) PROVE IInv'
<1> USE DEF PC, Registering, Attempting, Reconciling, Admitting, Serving, Leaving, Committed
<1>1. CASE DropActive(c)
  BY <1>1, OwnerValues, StoreIInv DEF DropActive
<1>2. CASE DropPending(c)
  BY <1>2, OwnerValues, StoreIInv DEF DropPending
<1>3. CASE Unregister(c)
  <2>1. accepted' \in [Worker -> Owner] /\ \A w \in Worker : accepted'[w] \in reigned
    <3>1. \A w \in Worker : accepted'[w] \in {accepted[w], Nobody}
      BY <1>3 DEF Unregister, Without, IInv, TypeOK
    <3>2. accepted' = [w \in Worker |-> accepted'[w]]
      BY <1>3 DEF Unregister, IInv, TypeOK
    <3> QED BY <3>1, <3>2, OwnerValues DEF IInv, TypeOK, LeaseFollowsCommit
  <2> QED BY <1>3, <2>1 DEF Unregister, Goto, store, local, rest, IInv, TypeOK, Fence, Value,
              ReservationIsNewest, LeaseFollowsCommit
<1>4. CASE Release(c)
  BY <1>4, RowIInv DEF Release
<1>5. CASE GoOffline(c)
  BY <1>5, RowIInv DEF GoOffline
<1> QED BY <1>1, <1>2, <1>3, <1>4, <1>5 DEF Leave

LEMMA ReclaimIInv == ASSUME IInv, NEW c \in Conn, Reclaim(c) PROVE IInv'
<1> USE DEF store, local, rest
<1>1. CASE BeginReclaim(c)
  BY <1>1 DEF BeginReclaim, IInv, TypeOK, Fence, Value, ReservationIsNewest, LeaseFollowsCommit
<1>2. CASE ReclaimReadRow(c)
  BY <1>2, OwnerValues DEF ReclaimReadRow, IInv, TypeOK, Fence, Value, ReservationIsNewest,
              LeaseFollowsCommit
<1>3. CASE ReclaimSet(c)
  <2>1. active' \in Owner /\ active' \in reigned
    BY <1>3, OwnerValues DEF ReclaimSet, IInv, Fence
  <2> QED BY <1>3, <2>1 DEF ReclaimSet, IInv, TypeOK, Fence, Value, ReservationIsNewest,
              LeaseFollowsCommit
<1> QED BY <1>1, <1>2, <1>3 DEF Reclaim

LEMMA FaultIInv == ASSUME IInv, NEW c \in Conn, Fault(c) PROVE IInv'
<1> USE DEF PC, Registering, Attempting, Reconciling, Admitting, Serving, Leaving, Committed
<1>1. CASE AbandonAttempt(c)
  <2>1. peer[c] \in reigned
    BY <1>1 DEF AbandonAttempt, IInv, Fence
  <2> QED BY <1>1, <2>1, GotoIInv DEF AbandonAttempt
<1>2. CASE Interrupt(c)
  BY <1>2, GotoIInv DEF Interrupt
<1>3. CASE CleanupFails(c)
  BY <1>3, GotoIInv DEF CleanupFails
<1> QED BY <1>1, <1>2, <1>3 DEF Fault

LEMMA CrashIInv == ASSUME IInv, NEW w \in Worker, Crash(w) PROVE IInv'
<1> USE DEF store, local
<1>1. TypeOK'
  BY ConnAssumption DEF Crash, IInv, TypeOK, Owner, Nobody, PC
<1>2. LeaseFollowsCommit' /\ ReservationIsNewest'
  BY DEF Crash, IInv, TypeOK, Fence, LeaseFollowsCommit, ReservationIsNewest
<1>3. Fence'
  BY DEF Crash, IInv, TypeOK, Fence, Value, Committed, Admitting, Serving, Attempting, Reconciling
<1> QED BY <1>1, <1>2, <1>3 DEF IInv

\* Every step keeps the invariant.
LEMMA NextIInv == IInv /\ [Next]_vars => IInv'
<1> SUFFICES ASSUME IInv, [Next]_vars PROVE IInv'
  OBVIOUS
<1>1. CASE UNCHANGED vars
  BY <1>1 DEF vars, IInv, TypeOK, ReservationIsNewest, LeaseFollowsCommit, Fence, Value
<1>2. ASSUME NEW c \in Conn, Connect(c) PROVE IInv'
  BY <1>2 DEF Connect, Goto, store, local, rest, IInv, TypeOK, ReservationIsNewest, Fence, Value,
     LeaseFollowsCommit, PC, Registering, Attempting, Reconciling, Admitting, Serving, Committed
<1>3. ASSUME NEW c \in Conn, Progress(c) \/ Frame(c) \/ Heartbeat(c) \/ SeeClose(c) PROVE IInv'
  BY <1>3, RegisterIInv, AttemptIInv, ReconcileIInv, AdmitIInv, ServeIInv, LeaveIInv
     DEF Progress
<1>4. ASSUME NEW c \in Conn, HearRevocation(c) PROVE IInv'
  BY <1>4 DEF HearRevocation, store, local, IInv, TypeOK, ReservationIsNewest,
     LeaseFollowsCommit, Fence, Value
<1>5. ASSUME NEW c \in Conn, Reclaim(c) \/ Fault(c) PROVE IInv'
  BY <1>5, ReclaimIInv, FaultIInv
<1>6. CASE Lapse
  <2>1. active' \in {active, Nobody} /\ pending' \in {pending, Nobody}
    BY <1>6 DEF Lapse
  <2>2. Nobody \in Owner /\ Nobody \in reigned
    BY ConnAssumption DEF Nobody, Owner, IInv, Fence
  <2> QED BY <1>6, <2>1, <2>2, LapseAssumption DEF Lapse, local, IInv, TypeOK,
              ReservationIsNewest, LeaseFollowsCommit, Fence, Value
<1>7. ASSUME NEW w \in Worker, Crash(w) PROVE IInv'
  BY <1>7, CrashIInv
<1> QED BY <1>1, <1>2, <1>3, <1>4, <1>5, <1>6, <1>7 DEF Next

\* The inductive invariant holds in every reachable state.
THEOREM Fenced == Spec => []IInv
BY InitIInv, NextIInv, PTL DEF Spec

\* Type correctness, for every instance.
THEOREM TypeCorrect == Spec => []TypeOK
BY Fenced, PTL DEF IInv

\* The newest generation handed out is the only one still activatable.
THEOREM ReservationsAreNewest == Spec => []ReservationIsNewest
BY Fenced, PTL DEF IInv

\* Whoever holds the active lease or is routed by a broker was committed to the
\* row before, as that connection with that generation.
THEOREM LeasesFollowCommits == Spec => []LeaseFollowsCommit
BY Fenced, PTL DEF IInv

\* No write of an older generation follows one of a newer generation.
THEOREM WritesAreOrdered == Spec => WritesInGenerationOrder
<1>1. IInv /\ [Next]_vars => [written <= written']_vars
  <2> SUFFICES ASSUME IInv, Next PROVE written <= written'
    BY DEF vars, IInv, TypeOK
  <2>1. ASSUME NEW c \in Conn, WriteSession(c) PROVE written <= written'
    BY <2>1 DEF WriteSession, DurableOwner, IInv, TypeOK, Fence, Value
  <2>2. ASSUME NEW c \in Conn, Register(c) \/ Attempt(c) \/ Reconcile(c) PROVE written' = written
    BY <2>2 DEF rest, Register, Allocate, Claim, Unclaim, Predecessor, Attempt, ReadActive,
       Commit, PromoteLease, Reconcile, ReadRow, ReconcileOwner, ConfirmLease, ForgetPending,
       PendAgain, PromoteAgain, CheckLease, ReconcilePrevious, RestoreLease, RemakeLease,
       ReconcileClear
  <2>3. ASSUME NEW c \in Conn, Admit(c) \/ Leave(c) PROVE written' = written
    BY <2>3 DEF rest, Admit, Adopt, CheckCurrent, Accept, AttachReported, RevokePredecessor,
       Reject, Leave, DropActive, DropPending, Unregister, Release, GoOffline
  <2>4. ASSUME NEW c \in Conn, Gate(c) \/ Announce(c) \/ RefreshLease(c) PROVE written' = written
    BY <2>4 DEF rest, Gate, Announce, RefreshLease, Refresh, Successor, Lookup, Retake,
       Confirm, Undo
  <2>5. ASSUME NEW c \in Conn,
               \/ Connect(c) \/ Frame(c) \/ Heartbeat(c) \/ HearRevocation(c)
               \/ SeeClose(c) \/ Reclaim(c) \/ Fault(c)
        PROVE  written' = written
    BY <2>5 DEF rest, Connect, Frame, Heartbeat, HearRevocation, SeeClose, Reclaim,
       BeginReclaim, ReclaimReadRow, ReclaimSet, Fault, AbandonAttempt, Interrupt, CleanupFails
  <2>6. ASSUME Lapse \/ \E w \in Worker : Crash(w) PROVE written' = written
    BY <2>6 DEF Lapse, Crash
  <2>7. CASE written' = written
    BY <2>7 DEF IInv, TypeOK
  <2> QED BY <2>1, <2>2, <2>3, <2>4, <2>5, <2>6, <2>7 DEF Next, Progress, HandleFrame
<1> QED BY <1>1, Fenced, PTL DEF Spec, WritesInGenerationOrder
=============================================================================
