------------------------- MODULE BindingTableProofs -------------------------
(***************************************************************************)
(* The budget of identities and the caps, for any number of signalling ids,*)
(* nonces, daemon sockets and relays and any values of the limits.          *)
(***************************************************************************)
EXTENDS BindingTable, FiniteSetTheorems, TLAPS

\* A value the table may have: typed, and with finitely many tombstones.
IsTable(t) ==
    /\ t = [live |-> t.live, retired |-> t.retired, past |-> t.past]
    /\ t.live = [s \in DOMAIN t.live |-> t.live[s]]
    /\ DOMAIN t.live \subseteq Sid
    /\ \A s \in DOMAIN t.live : t.live[s] \in Binding
    /\ t.retired \subseteq Sid \X Gen \X Nonce
    /\ IsFiniteSet(t.retired)
    /\ t.past \subseteq Deadline

Budget(t) == Cardinality(DOMAIN t.live) + Cardinality(t.retired) <= MaxIdentities

Dead(t) == \A s \in DOMAIN t.live : Identity(s, t.live[s]) \notin t.retired

Capped(t) ==
    /\ Cardinality(Scoped(t, "host")) <= Cap["host"]
    /\ Cardinality(Scoped(t, "session")) <= Cap["user"]

\* What every method keeps, of whatever table it is given.
Sound(t) == IsTable(t) /\ Budget(t) /\ Dead(t) /\ Capped(t)

\* u keeps what t held: each binding with its identity and its `connected`, or
\* its tombstone.
Follows(t, u) ==
    /\ t.retired \subseteq u.retired
    /\ \A s \in DOMAIN t.live :
         \/ /\ s \in DOMAIN u.live
            /\ Identity(s, u.live[s]) = Identity(s, t.live[s])
            /\ t.live[s].connected = TRUE => u.live[s].connected = TRUE
         \/ Identity(s, t.live[s]) \in u.retired

LEMMA FollowsIsTransitive ==
    ASSUME NEW t, NEW u, NEW v, Follows(t, u), Follows(u, v)
    PROVE  Follows(t, v)
BY DEF Follows

-----------------------------------------------------------------------------
(* Counting. *)

LEMMA LiveIsFinite ==
    ASSUME NEW t, IsTable(t), NEW S \in SUBSET DOMAIN t.live
    PROVE  /\ IsFiniteSet(S) /\ IsFiniteSet(DOMAIN t.live)
           /\ Cardinality(S) \in Nat /\ Cardinality(DOMAIN t.live) \in Nat
           /\ Cardinality(S) <= Cardinality(DOMAIN t.live)
<1>1. IsFiniteSet(DOMAIN t.live)
  BY TableAssumption, FS_Subset DEF IsTable
<1>2. IsFiniteSet(S) /\ Cardinality(S) <= Cardinality(DOMAIN t.live)
  BY <1>1, FS_Subset
<1> QED
  BY <1>1, <1>2, FS_CardinalityType

\* Identities are as many as the bindings they are of, and of their type.
LEMMA IdentitiesCount ==
    ASSUME NEW t, IsTable(t), NEW S \in SUBSET DOMAIN t.live
    PROVE  /\ IsFiniteSet(IdentitiesOf(t, S))
           /\ Cardinality(IdentitiesOf(t, S)) \in Nat
           /\ Cardinality(IdentitiesOf(t, S)) <= Cardinality(S)
           /\ IdentitiesOf(t, S) \subseteq Sid \X Gen \X Nonce
<1> DEFINE T == IdentitiesOf(t, S)
           f == [s \in S |-> Identity(s, t.live[s])]
<1>1. f \in Surjection(S, T)
  BY DEF Surjection, IdentitiesOf
<1>2. IsFiniteSet(S)
  BY LiveIsFinite
<1>3. IsFiniteSet(T) /\ Cardinality(T) <= Cardinality(S)
  BY <1>1, <1>2, FS_Surjection
<1>4. T \subseteq Sid \X Gen \X Nonce
  BY DEF IdentitiesOf, Identity, IsTable, Binding
<1> QED
  BY <1>3, <1>4, FS_CardinalityType

\* Removing R: what is left and its tombstones are no more than there was.
LEMMA RemovalCount ==
    ASSUME NEW t, IsTable(t), NEW R \in SUBSET DOMAIN t.live
    PROVE  /\ IsFiniteSet(t.retired \cup IdentitiesOf(t, R))
           /\ Cardinality(t.retired \cup IdentitiesOf(t, R)) \in Nat
           /\ Cardinality(t.retired \cup IdentitiesOf(t, R))
                <= Cardinality(t.retired) + Cardinality(R)
           /\ Cardinality(DOMAIN t.live \ R) + Cardinality(R) = Cardinality(DOMAIN t.live)
           /\ Cardinality(t.retired) \in Nat
<1> DEFINE I == IdentitiesOf(t, R)
           L == DOMAIN t.live \ R
<1>1. /\ IsFiniteSet(I) /\ Cardinality(I) \in Nat /\ Cardinality(I) <= Cardinality(R)
  BY IdentitiesCount
<1>2. IsFiniteSet(t.retired) /\ Cardinality(t.retired) \in Nat
  BY FS_CardinalityType DEF IsTable
<1>3. /\ IsFiniteSet(t.retired \cup I)
      /\ Cardinality(t.retired \cup I)
           = Cardinality(t.retired) + Cardinality(I) - Cardinality(t.retired \cap I)
  BY <1>1, <1>2, FS_Union
<1>4. Cardinality(t.retired \cup I) \in Nat
  BY <1>3, FS_CardinalityType
<1>5. Cardinality(t.retired \cap I) \in Nat
  BY <1>2, FS_Subset, FS_CardinalityType
<1>6. /\ IsFiniteSet(R) /\ IsFiniteSet(L)
      /\ Cardinality(R) \in Nat /\ Cardinality(L) \in Nat
  BY LiveIsFinite
<1>7. Cardinality(L) + Cardinality(R) = Cardinality(DOMAIN t.live)
  <2>1. Cardinality(L \cup R) = Cardinality(L) + Cardinality(R) - Cardinality(L \cap R)
    BY <1>6, FS_Union
  <2>2. L \cup R = DOMAIN t.live /\ L \cap R = {}
    OBVIOUS
  <2> QED
    BY <1>6, <2>1, <2>2, FS_EmptySet
<1> QED
  BY <1>1, <1>2, <1>3, <1>4, <1>5, <1>6, <1>7

-----------------------------------------------------------------------------
(* Retirement. *)

\* Within the budget there is room for the tombstone of every live binding: the
\* refusal in _retire_rtc_binding_locked is never reached.
LEMMA TombstonesFit ==
    ASSUME NEW t, IsTable(t), Budget(t), NEW S \in SUBSET DOMAIN t.live
    PROVE  Fits(t, S) /\ Retired(t, S) = Removed(t, S)
<1>1. /\ Cardinality(t.retired \cup IdentitiesOf(t, S))
           <= Cardinality(t.retired) + Cardinality(S)
      /\ Cardinality(t.retired \cup IdentitiesOf(t, S)) \in Nat
      /\ Cardinality(t.retired) \in Nat
  BY RemovalCount
<1>2. Cardinality(S) <= Cardinality(DOMAIN t.live) /\ Cardinality(S) \in Nat
      /\ Cardinality(DOMAIN t.live) \in Nat
  BY LiveIsFinite
<1>3. Fits(t, S)
  BY <1>1, <1>2, TableAssumption DEF Fits, Budget
<1> QED
  BY <1>3 DEF Retired, Retirable

LEMMA ScopedShrinks ==
    ASSUME NEW t, NEW u, IsTable(t), Capped(t),
           Scoped(u, "host") \subseteq Scoped(t, "host"),
           Scoped(u, "session") \subseteq Scoped(t, "session")
    PROVE  Capped(u)
<1>1. \A k \in Scope : /\ IsFiniteSet(Scoped(t, k)) /\ Cardinality(Scoped(t, k)) \in Nat
  BY LiveIsFinite DEF Scoped
<1>2. \A k \in Scope : Scoped(u, k) \subseteq Scoped(t, k)
  BY DEF Scope
<1>3. \A k \in Scope : /\ Cardinality(Scoped(u, k)) <= Cardinality(Scoped(t, k))
                       /\ Cardinality(Scoped(u, k)) \in Nat
  BY <1>1, <1>2, FS_Subset, FS_CardinalityType
<1> QED
  BY <1>1, <1>3, TableAssumption DEF Capped, Scope, CapName

LEMMA RemovalIsSound ==
    ASSUME NEW t, Sound(t), NEW R \in SUBSET DOMAIN t.live
    PROVE  Sound(Removed(t, R)) /\ Follows(t, Removed(t, R))
<1> DEFINE u == Removed(t, R)
           L == DOMAIN t.live \ R
<1>1. /\ u.live = [s \in L |-> t.live[s]] /\ DOMAIN u.live = L
      /\ u.retired = t.retired \cup IdentitiesOf(t, R)
      /\ u.past = {d \in t.past : d[1] \notin R}
      /\ u = [live |-> u.live, retired |-> u.retired, past |-> u.past]
  BY DEF Removed
<1>2. IsTable(u)
  <2>1. IsFiniteSet(u.retired) /\ u.retired \subseteq Sid \X Gen \X Nonce
    <3>0. IsTable(t)
      BY DEF Sound
    <3>1. /\ IsFiniteSet(t.retired \cup IdentitiesOf(t, R))
          /\ IdentitiesOf(t, R) \subseteq Sid \X Gen \X Nonce
      BY <3>0, RemovalCount, IdentitiesCount
    <3>2. t.retired \subseteq Sid \X Gen \X Nonce
      BY DEF Sound, IsTable
    <3> QED
      BY <1>1, <3>1, <3>2
  <2>2. /\ u.live = [s \in DOMAIN u.live |-> u.live[s]]
        /\ DOMAIN u.live \subseteq Sid
        /\ \A s \in DOMAIN u.live : u.live[s] \in Binding
    BY <1>1 DEF Sound, IsTable
  <2>3. u.past \subseteq Deadline
    BY <1>1 DEF Sound, IsTable
  <2> QED
    BY <1>1, <2>1, <2>2, <2>3 DEF IsTable
<1>3. Budget(u)
  <2>1. /\ Cardinality(u.retired) <= Cardinality(t.retired) + Cardinality(R)
        /\ Cardinality(u.retired) \in Nat /\ Cardinality(t.retired) \in Nat
        /\ Cardinality(L) + Cardinality(R) = Cardinality(DOMAIN t.live)
    BY <1>1, RemovalCount DEF Sound
  <2>2. /\ Cardinality(L) \in Nat /\ Cardinality(R) \in Nat
        /\ Cardinality(DOMAIN t.live) \in Nat
    BY LiveIsFinite DEF Sound
  <2> QED
    BY <1>1, <2>1, <2>2, TableAssumption DEF Sound, Budget
<1>4. Dead(u)
  BY <1>1 DEF Sound, Dead, IdentitiesOf, Identity
<1>5. Capped(u)
  <2>1. \A k \in Scope : Scoped(u, k) \subseteq Scoped(t, k)
    BY <1>1 DEF Scoped
  <2> QED
    BY <2>1, ScopedShrinks DEF Scope, Sound
<1>6. Follows(t, u)
  BY <1>1 DEF Follows, IdentitiesOf
<1> QED
  BY <1>2, <1>3, <1>4, <1>5, <1>6 DEF Sound

LEMMA RetirementIsSound ==
    ASSUME NEW t, Sound(t), NEW S \in SUBSET DOMAIN t.live
    PROVE  Sound(Retired(t, S)) /\ Follows(t, Retired(t, S))
BY TombstonesFit, RemovalIsSound DEF Sound

LEMMA PruningIsSound ==
    ASSUME NEW t, Sound(t)
    PROVE  Sound(Pruned(t)) /\ Follows(t, Pruned(t))
BY RetirementIsSound DEF Pruned, Expired

\* Tombstones whose time has come may go.
LEMMA ForgettingIsSound ==
    ASSUME NEW t, Sound(t), NEW old
    PROVE  Sound([t EXCEPT !.retired = @ \ old])
<1> DEFINE u == [t EXCEPT !.retired = @ \ old]
<1>1. /\ u = [live |-> t.live, retired |-> t.retired \ old, past |-> t.past]
      /\ u.live = t.live /\ u.retired = t.retired \ old /\ u.past = t.past
  <2>1. t = [live |-> t.live, retired |-> t.retired, past |-> t.past]
    BY DEF Sound, IsTable
  <2> QED
    BY <2>1
<1>2. /\ IsFiniteSet(u.retired) /\ Cardinality(u.retired) \in Nat
      /\ Cardinality(u.retired) <= Cardinality(t.retired)
      /\ Cardinality(t.retired) \in Nat
  BY <1>1, FS_Subset, FS_CardinalityType DEF Sound, IsTable
<1>3. IsTable(u) /\ Dead(u)
  BY <1>1, <1>2 DEF Sound, IsTable, Dead
<1>4. Budget(u)
  <2>1. Cardinality(DOMAIN t.live) \in Nat
    BY LiveIsFinite DEF Sound
  <2> QED
    BY <1>1, <1>2, <2>1, TableAssumption DEF Sound, Budget
<1>5. Capped(u)
  BY <1>1 DEF Sound, Capped, Scoped
<1> QED
  BY <1>3, <1>4, <1>5 DEF Sound

-----------------------------------------------------------------------------
(* Updates and registrations. *)

\* Whatever is renewed keeps its identity and its scope.
LEMMA RenewalIsSound ==
    ASSUME NEW t, Sound(t), NEW S \in SUBSET DOMAIN t.live, NEW F, NEW D,
           \A s \in S : /\ F[s] \in Binding
                        /\ F[s].gen = t.live[s].gen /\ F[s].nonce = t.live[s].nonce
                        /\ F[s].scope = t.live[s].scope
                        /\ t.live[s].connected = TRUE => F[s].connected = TRUE
    PROVE  Sound(Renewed(t, S, F, D)) /\ Follows(t, Renewed(t, S, F, D))
<1> DEFINE u == Renewed(t, S, F, D)
           L == [s \in DOMAIN t.live |-> IF s \in S THEN F[s] ELSE t.live[s]]
<1>1. /\ u = [live |-> L, retired |-> t.retired, past |-> t.past \ D]
      /\ u.live = L /\ u.retired = t.retired /\ u.past = t.past \ D
  BY DEF Renewed
<1>2. /\ DOMAIN L = DOMAIN t.live
      /\ \A s \in DOMAIN L : /\ L[s] \in Binding
                              /\ L[s].gen = t.live[s].gen /\ L[s].nonce = t.live[s].nonce
                              /\ L[s].scope = t.live[s].scope
  BY DEF Sound, IsTable
<1>2a. \A s \in DOMAIN t.live : t.live[s].connected = TRUE => L[s].connected = TRUE
  OBVIOUS
<1> HIDE DEF L
<1>3. IsTable(u)
  <2>1. L = [s \in DOMAIN L |-> L[s]]
    BY DEF L
  <2> QED
    BY <1>1, <1>2, <2>1 DEF Sound, IsTable
<1>4. Budget(u)
  BY <1>1, <1>2 DEF Sound, Budget
<1>5. Dead(u)
  BY <1>1, <1>2 DEF Sound, Dead, Identity
<1>6. Scoped(u, "host") = Scoped(t, "host") /\ Scoped(u, "session") = Scoped(t, "session")
  BY <1>1, <1>2 DEF Scoped
<1>7. Capped(u)
  BY <1>6 DEF Sound, Capped
<1>8. Follows(t, u)
  BY <1>1, <1>2, <1>2a DEF Follows, Identity
<1> QED
  BY <1>3, <1>4, <1>5, <1>7, <1>8 DEF Sound

LEMMA OrphaningIsSound ==
    ASSUME NEW t, Sound(t), NEW S \in SUBSET DOMAIN t.live, NEW side \in Side
    PROVE  Sound(Orphaned(t, S, side)) /\ Follows(t, Orphaned(t, S, side))
<1> DEFINE F == [s \in S |-> [t.live[s] EXCEPT !.away = @ \cup {side}]]
<1>1. \A s \in S : t.live[s] \in Binding
  BY DEF Sound, IsTable
<1>2. \A s \in S : /\ F[s] \in Binding
                   /\ F[s].gen = t.live[s].gen /\ F[s].nonce = t.live[s].nonce
                   /\ F[s].scope = t.live[s].scope
                   /\ t.live[s].connected = TRUE => F[s].connected = TRUE
  BY <1>1 DEF Binding, Side
<1> HIDE DEF F
<1>3. Sound(Renewed(t, S, F, S \X {side}))
      /\ Follows(t, Renewed(t, S, F, S \X {side}))
  BY <1>2, RenewalIsSound
<1> QED
  BY <1>3 DEF Orphaned, F

LEMMA RebindingIsSound ==
    ASSUME NEW t, Sound(t), NEW g \in Gen, NEW offered
    PROVE  Sound(Rebound(t, g, offered)) /\ Follows(t, Rebound(t, g, offered))
<1> DEFINE S == Rebindable(t, offered)
           F == [s \in S |-> [t.live[s] EXCEPT !.daemon = g, !.away = @ \ {"daemon"}]]
<1>1. S \in SUBSET DOMAIN t.live
  BY DEF Rebindable, Awaiting
<1>2. \A s \in S : t.live[s] \in Binding
  BY <1>1 DEF Sound, IsTable
<1> HIDE DEF S
<1>3. \A s \in S : /\ F[s] \in Binding
                   /\ F[s].gen = t.live[s].gen /\ F[s].nonce = t.live[s].nonce
                   /\ F[s].scope = t.live[s].scope
                   /\ t.live[s].connected = TRUE => F[s].connected = TRUE
  BY <1>2 DEF Binding
<1> HIDE DEF F
<1>4. Sound(Renewed(t, S, F, {}))
      /\ Follows(t, Renewed(t, S, F, {}))
  BY <1>1, <1>3, RenewalIsSound
<1> QED
  BY <1>4 DEF Rebound, S, F

LEMMA ResumingIsSound ==
    ASSUME NEW t, Sound(t), NEW s \in DOMAIN t.live, NEW c \in Channel
    PROVE  Sound(Resumed(t, s, c)) /\ Follows(t, Resumed(t, s, c))
<1> DEFINE F == [x \in {s} |-> [t.live[x] EXCEPT !.chan = c, !.away = @ \ {"browser"}]]
<1>1. t.live[s] \in Binding
  BY DEF Sound, IsTable
<1>2. \A x \in {s} : /\ F[x] \in Binding
                     /\ F[x].gen = t.live[x].gen /\ F[x].nonce = t.live[x].nonce
                     /\ F[x].scope = t.live[x].scope
                     /\ t.live[x].connected = TRUE => F[x].connected = TRUE
  BY <1>1 DEF Binding
<1> HIDE DEF F
<1>3. Sound(Renewed(t, {s}, F, {}))
      /\ Follows(t, Renewed(t, {s}, F, {}))
  BY <1>2, RenewalIsSound
<1> QED
  BY <1>3 DEF Resumed, F

LEMMA MarkingIsSound ==
    ASSUME NEW t, Sound(t), NEW s \in DOMAIN t.live
    PROVE  Sound(Marked(t, s)) /\ Follows(t, Marked(t, s))
<1> DEFINE F == [x \in {s} |-> [t.live[x] EXCEPT !.connected = TRUE]]
<1>1. t.live[s] \in Binding
  BY DEF Sound, IsTable
<1>2. \A x \in {s} : /\ F[x] \in Binding
                     /\ F[x].gen = t.live[x].gen /\ F[x].nonce = t.live[x].nonce
                     /\ F[x].scope = t.live[x].scope
                     /\ t.live[x].connected = TRUE => F[x].connected = TRUE
  BY <1>1 DEF Binding
<1> HIDE DEF F
<1>3. Sound(Renewed(t, {s}, F, {<<s, "ttl">>}))
      /\ Follows(t, Renewed(t, {s}, F, {<<s, "ttl">>}))
  BY <1>2, RenewalIsSound
<1> QED
  BY <1>3 DEF Marked, F

\* A registration adds one binding, of an identity that is not retired, where
\* the budget and the caps leave room for one.
LEMMA RegistrationIsSound ==
    ASSUME NEW t, Sound(t), NEW s \in Sid, NEW n \in Nonce, NEW g \in Gen,
           NEW c \in Channel, NEW k \in Scope
    PROVE  Sound(Registered(t, s, n, g, c, k)) /\ Follows(t, Registered(t, s, n, g, c, k))
<1>1. CASE ~Registrable(t, s, n, g, c, k)
  BY <1>1 DEF Registered, Follows
<1>2. CASE Registrable(t, s, n, g, c, k)
  <2> DEFINE b == NewBinding(n, g, c, k)
             u == Stored(t, s, b)
             L == [x \in DOMAIN t.live \cup {s} |-> IF x = s THEN b ELSE t.live[x]]
  <2>1. b \in Binding /\ b.gen = g /\ b.nonce = n /\ b.scope = k
    BY DEF NewBinding, Binding
  <2>2. /\ u = [live |-> L, retired |-> t.retired, past |-> t.past]
        /\ u.live = L /\ u.retired = t.retired /\ u.past = t.past
    BY DEF Stored
  <2>3. s \notin DOMAIN t.live /\ <<s, g, n>> \notin t.retired
        /\ RoomToRegister(t) /\ UnderCaps(t, g, c, k)
    BY <1>2 DEF Registrable
  <2> HIDE DEF b
  <2>4. /\ DOMAIN L = DOMAIN t.live \cup {s} /\ L[s] = b
        /\ \A x \in DOMAIN t.live : L[x] = t.live[x]
        /\ L = [x \in DOMAIN L |-> L[x]]
    BY <2>3
  <2> HIDE DEF L
  <2>5. IsTable(u)
    BY <2>1, <2>2, <2>4 DEF Sound, IsTable
  <2>6. Budget(u)
    <3>1. IsFiniteSet(DOMAIN t.live) /\ Cardinality(DOMAIN t.live) \in Nat
      BY LiveIsFinite DEF Sound
    <3>2. Cardinality(DOMAIN L) = Cardinality(DOMAIN t.live) + 1
      BY <3>1, <2>3, <2>4, FS_AddElement
    <3>3. Cardinality(t.retired) \in Nat
      BY FS_CardinalityType DEF Sound, IsTable
    <3> QED
      BY <2>2, <2>3, <3>1, <3>2, <3>3, TableAssumption DEF Budget, RoomToRegister
  <2>7. Dead(u)
    BY <2>1, <2>2, <2>3, <2>4 DEF Sound, Dead, Identity
  <2>8. Capped(u)
    <3>1. \A j \in Scope : Scoped(u, j) = IF j = k THEN Scoped(t, j) \cup {s} ELSE Scoped(t, j)
      BY <2>1, <2>2, <2>3, <2>4 DEF Scoped
    <3>2. \A j \in Scope : /\ IsFiniteSet(Scoped(t, j)) /\ Cardinality(Scoped(t, j)) \in Nat
                           /\ s \notin Scoped(t, j)
      BY <2>3, LiveIsFinite DEF Scoped, Sound
    <3>3. Cardinality(Scoped(t, k) \cup {s}) = Cardinality(Scoped(t, k)) + 1
      BY <3>2, FS_AddElement
    <3>4. CASE k = "host"
      <4>1. Cardinality(Scoped(t, "host")) < Cap["host"]
        BY <2>3, <3>4 DEF UnderCaps
      <4> QED
        BY <3>1, <3>2, <3>3, <3>4, <4>1, TableAssumption DEF Sound, Capped, Scope, CapName
    <3>5. CASE k = "session"
      <4>1. Cardinality(Scoped(t, "session")) < Cap["user"]
        BY <2>3, <3>5 DEF UnderCaps
      <4> QED
        BY <3>1, <3>2, <3>3, <3>5, <4>1, TableAssumption DEF Sound, Capped, Scope, CapName
    <3> QED
      BY <3>4, <3>5 DEF Scope
  <2>9. Follows(t, u)
    BY <2>2, <2>4 DEF Follows
  <2> QED
    BY <1>2, <2>5, <2>6, <2>7, <2>8, <2>9 DEF Sound, Registered, b
<1> QED
  BY <1>1, <1>2

-----------------------------------------------------------------------------
(* The table. *)

IInv == Sound(table)

\* An empty table: at the start, and after a shutdown.
LEMMA EmptyIsSound == Sound([live |-> <<>>, retired |-> {}, past |-> {}])
<1> DEFINE e == [live |-> <<>>, retired |-> {}, past |-> {}]
<1>1. DOMAIN e.live = {} /\ e.retired = {} /\ e.past = {}
  OBVIOUS
<1>2. e.live = [s \in DOMAIN e.live |-> e.live[s]]
  BY <1>1
<1>3. IsTable(e)
  BY <1>1, <1>2, FS_EmptySet DEF IsTable
<1>4. Budget(e) /\ Dead(e)
  BY <1>1, FS_EmptySet, TableAssumption DEF Budget, Dead
<1>5. Scoped(e, "host") = {} /\ Scoped(e, "session") = {}
  BY <1>1 DEF Scoped
<1> HIDE DEF e
<1>6. Capped(e)
  BY <1>5, FS_EmptySet, TableAssumption DEF Capped, CapName
<1> QED
  BY <1>3, <1>4, <1>6 DEF Sound, e

\* What LeavesATombstone says of one step.
Kept == \/ table' = [live |-> <<>>, retired |-> {}, past |-> {}]
        \/ \A s \in DOMAIN table.live :
             \/ /\ s \in DOMAIN table'.live
                /\ Identity(s, table'.live[s]) = Identity(s, table.live[s])
                /\ table.live[s].connected = TRUE => table'.live[s].connected = TRUE
             \/ Identity(s, table.live[s]) \in table'.retired

LEMMA FollowingIsKept ==
    ASSUME Follows(table, table')
    PROVE  Kept
BY DEF Follows, Kept

\* Every method keeps the table sound, and loses no binding without a trace.
LEMMA StepIsSound ==
    ASSUME IInv, [TableNext]_table
    PROVE  IInv' /\ Kept
<1>0. Sound(table) /\ Sound(Pruned(table)) /\ Follows(table, Pruned(table))
  BY PruningIsSound DEF IInv
<1> SUFFICES Sound(table') /\ Kept
  BY DEF IInv
<1>1. ASSUME NEW s \in Sid, NEW n \in Nonce, NEW g \in Gen, NEW c \in Channel,
             NEW k \in Scope, Register(s, n, g, c, k)
      PROVE  Sound(table') /\ Follows(table, table')
  BY <1>0, <1>1, RegistrationIsSound, FollowsIsTransitive DEF Register
<1>2. ASSUME Lookup
      PROVE  Sound(table') /\ Follows(table, table')
  BY <1>0, <1>2 DEF Lookup
<1>3. ASSUME NEW s \in Sid, Unregister(s)
      PROVE  Sound(table') /\ Follows(table, table')
  <2>1. CASE s \in DOMAIN table.live
    BY <1>0, <1>3, <2>1, RetirementIsSound DEF Unregister, RetiredIf
  <2>2. CASE s \notin DOMAIN table.live
    BY <1>0, <1>3, <2>2 DEF Unregister, RetiredIf, Follows
  <2> QED
    BY <2>1, <2>2
<1>4. ASSUME NEW s \in Sid, MarkConnected(s)
      PROVE  Sound(table') /\ Follows(table, table')
  BY <1>0, <1>4, MarkingIsSound DEF MarkConnected
<1>5. ASSUME NEW c \in Channel, NEW n \in Nonce, UnregisterRoute(c, n)
      PROVE  Sound(table') /\ Follows(table, table')
  <2>1. OnRoute(table, c, n) \in SUBSET DOMAIN table.live
    BY DEF OnRoute
  <2> QED
    BY <1>0, <1>5, <2>1, RetirementIsSound DEF UnregisterRoute
<1>6. ASSUME NEW t \in {table, Pruned(table)}, NEW c \in Channel, NEW n \in Nonce,
             OrphanBrowser(t, c, n)
      PROVE  Sound(table') /\ Follows(table, table')
  <2>1. OnRoute(t, c, n) \in SUBSET DOMAIN t.live /\ "browser" \in Side
    BY DEF OnRoute, Side
  <2>2. Sound(t)
    BY <1>0
  <2>3. Sound(table') /\ Follows(t, table')
    BY <1>6, <2>1, <2>2, OrphaningIsSound DEF OrphanBrowser, BrowserOrphaned
  <2> QED
    BY <1>0, <2>3, FollowsIsTransitive
<1>7. ASSUME NEW g \in Gen, OrphanDaemon(g)
      PROVE  Sound(table') /\ Follows(table, table')
  <2>1. OnDaemon(table, g) \in SUBSET DOMAIN table.live /\ "daemon" \in Side
    BY DEF OnDaemon, Side
  <2> QED
    BY <1>0, <1>7, <2>1, OrphaningIsSound DEF OrphanDaemon, DaemonOrphaned
<1>8. ASSUME NEW g \in Gen, NEW kinds \in {Scope, {"session"}}, DropDaemon(g, kinds)
      PROVE  Sound(table') /\ Follows(table, table')
  <2> DEFINE S == {s \in OnDaemon(table, g) : table.live[s].scope \in kinds}
  <2>1. S \in SUBSET DOMAIN table.live
    BY DEF OnDaemon
  <2>2. table' = Retired(table, S)
    BY <1>8 DEF DropDaemon
  <2> HIDE DEF S
  <2> QED
    BY <1>0, <2>1, <2>2, RetirementIsSound
<1>9. ASSUME NEW g \in Gen, NEW S \in SUBSET DOMAIN table.live,
             Reconcile(g, IdentitiesOf(table, S))
      PROVE  Sound(table') /\ Follows(table, table')
  BY <1>0, <1>9, RebindingIsSound DEF Reconcile
<1>10. ASSUME NEW t \in {table, Pruned(table)}, NEW s \in Sid, NEW c \in Channel,
              Resume(t, s, c)
       PROVE  Sound(table') /\ Follows(table, table')
  <2>1. s \in DOMAIN t.live /\ table' = Resumed(t, s, c)
    BY <1>10 DEF Resume, Resumable
  <2>2. Sound(t)
    BY <1>0
  <2>3. Sound(table') /\ Follows(t, table')
    BY <2>1, <2>2, ResumingIsSound
  <2> QED
    BY <1>0, <2>3, FollowsIsTransitive
<1>11. ASSUME NEW s \in Sid, NEW side \in Side, ExpireOrphan(s, side)
       PROVE  Sound(table') /\ Follows(table, table')
  <2>1. s \in DOMAIN table.live /\ table' = Retired(table, {s})
    BY <1>11 DEF ExpireOrphan, OrphanExpirable
  <2> QED
    BY <1>0, <2>1, RetirementIsSound
<1>12. ASSUME NEW old \in SUBSET table.retired, CleanUp(old)
       PROVE  Sound(table') /\ Kept
  <2> DEFINE u == [table EXCEPT !.retired = @ \ old]
  <2>1. Sound(u)
    BY <1>0, ForgettingIsSound
  <2>2. table = [live |-> table.live, retired |-> table.retired, past |-> table.past]
    BY <1>0 DEF Sound, IsTable
  <2>3. u.live = table.live
    BY <2>2
  <2>4. table' = Pruned(u)
    BY <1>12 DEF CleanUp
  <2> HIDE DEF u
  <2>5. Sound(table') /\ Follows(u, table')
    BY <2>1, <2>4, PruningIsSound
  <2> QED
    BY <2>3, <2>5 DEF Follows, Kept
<1>13. ASSUME Shutdown
       PROVE  Sound(table') /\ Kept
  BY <1>13, EmptyIsSound DEF Shutdown, Kept
<1>14. ASSUME NEW s \in Sid, NEW d \in Side \cup {"ttl"}, DeadlinePasses(s, d)
       PROVE  Sound(table') /\ Follows(table, table')
  <2>1. table = [live |-> table.live, retired |-> table.retired, past |-> table.past]
    BY <1>0 DEF Sound, IsTable
  <2>2. /\ table' = [live |-> table.live, retired |-> table.retired,
                    past |-> table.past \cup {<<s, d>>}]
        /\ table'.live = table.live /\ table'.retired = table.retired
        /\ table'.past = table.past \cup {<<s, d>>}
    BY <1>14, <2>1 DEF DeadlinePasses
  <2>3. IsTable(table') /\ Budget(table') /\ Dead(table')
    BY <1>0, <2>2 DEF Sound, IsTable, Budget, Dead, Deadline
  <2>4. Capped(table')
    BY <1>0, <2>2 DEF Sound, Capped, Scoped
  <2> QED
    BY <2>2, <2>3, <2>4 DEF Sound, Follows
<1>15. CASE UNCHANGED table
  BY <1>0, <1>15 DEF Kept
<1> QED
  BY <1>1, <1>2, <1>3, <1>4, <1>5, <1>6, <1>7, <1>8, <1>9, <1>10, <1>11, <1>12,
     <1>13, <1>14, <1>15, FollowingIsKept DEF TableNext

-----------------------------------------------------------------------------
(* The theorems. *)

\* The broker's methods keep their table sound, whoever calls them and in
\* whatever order.
THEOREM TableStaysSound == TableSpec => []IInv
<1>1. TableInit => IInv
  BY EmptyIsSound DEF TableInit, IInv
<1>2. IInv /\ [TableNext]_table => IInv'
  BY StepIsSound
<1> QED
  BY <1>1, <1>2, PTL DEF TableSpec

\* The table of ws/broker.py is always typed.
THEOREM TableTypeCorrect == TableSpec => []TypeOK
<1>1. IInv => TypeOK
  BY DEF IInv, Sound, IsTable, TypeOK
<1> QED
  BY <1>1, TableStaysSound, PTL

\* A retirement always finds room for its tombstone: the branch of
\* _retire_rtc_binding_locked that refuses one is dead, for any MaxIdentities.
THEOREM TombstonesAlwaysFit == TableSpec => []RetirementAlwaysFits
<1>1. IInv => RetirementAlwaysFits
  BY DEF IInv, Sound, Budget, RetirementAlwaysFits
<1> QED
  BY <1>1, TableStaysSound, PTL

\* register_rtc_session and the rebinds never bring a tombstoned identity back.
THEOREM TombstonesAreRespected == TableSpec => []RetiredIdentitiesStayDead
<1>1. IInv => RetiredIdentitiesStayDead
  BY DEF IInv, Sound, Dead, RetiredIdentitiesStayDead
<1> QED
  BY <1>1, TableStaysSound, PTL

\* The per-host and per-account caps of register_rtc_session bound the table
\* at every moment, not only when a binding is registered.
THEOREM CapsAreKept == TableSpec => []CapsHold
<1>1. IInv => CapsHold
  BY DEF IInv, Sound, Capped, CapsHold
<1> QED
  BY <1>1, TableStaysSound, PTL

\* No method of the broker loses a binding without a tombstone, changes its
\* identity or forgets that the daemon called it connected.
THEOREM BindingsLeaveTombstones == TableSpec => LeavesATombstone
<1> DEFINE A == \A s \in DOMAIN table.live :
                  LET b == table.live[s]
                  IN  \/ table' = [live |-> <<>>, retired |-> {}, past |-> {}]
                      \/ /\ s \in DOMAIN table'.live
                         /\ Identity(s, table'.live[s]) = Identity(s, b)
                         /\ b.connected => table'.live[s].connected
                      \/ Identity(s, b) \in table'.retired
<1>1. IInv /\ [TableNext]_table => [A]_table
  <2> SUFFICES ASSUME IInv, [TableNext]_table PROVE A
    OBVIOUS
  <2>1. Kept /\ Sound(table) /\ Sound(table')
    BY StepIsSound DEF IInv
  <2>2. \A s \in DOMAIN table.live : table.live[s].connected \in BOOLEAN
    BY <2>1 DEF Sound, IsTable, Binding
  <2>3. \A s \in DOMAIN table.live :
          (table.live[s].connected = TRUE => table'.live[s].connected = TRUE)
            => (table.live[s].connected => table'.live[s].connected)
    BY <2>2
  <2> QED
    BY <2>1, <2>3 DEF Kept
<1> QED
  BY <1>1, TableStaysSound, PTL DEF TableSpec, LeavesATombstone

=============================================================================
