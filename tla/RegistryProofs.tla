--------------------------- MODULE RegistryProofs ---------------------------
(***************************************************************************)
(* Proofs about Registry, for any finite set of events and questions, any  *)
(* mix of events, any number of blocks, restarts and catch-ups.            *)
(*                                                                         *)
(* The argument has three parts.  MemOK says what a memory is worth at a   *)
(* block, RowsOK the same of the rows of the tables at their label, and    *)
(* Agree which rows of the two may differ.  An applied block keeps MemOK   *)
(* (Applied); rows that agree with a memory are as good as it, apart from  *)
(* the changes that replayed blocks did not write (Stored); and a memory   *)
(* loaded from good rows is good (LoadedOK).                               *)
(***************************************************************************)
EXTENDS Registry, TLAPS, FiniteSetTheorems, SequenceTheorems,
        WellFoundedInduction, NaturalsInduction

(* Types of rows, vaults and chains. *)
RowType == [slug : Seq(Nat), state : {"Active", "Resolved"}]
VaultType ==
  {NoVault} \union [is : {TRUE}, equity : Nat, allow : BOOLEAN, closed : BOOLEAN]

ChainType(ch) ==
  /\ ch \in [events : SUBSET Event, resolved : SUBSET Event, spots : SUBSET Spot,
             vault : VaultType, hold : Nat, credited : Nat, partial : BOOLEAN]
  /\ ch.resolved \subseteq ch.events
  /\ ch.hold > 0 => ch.vault.is
  /\ ch.partial => ch.credited = ch.hold

(* What a chain keeps as it grows. *)
Later(a, b) ==
  /\ a.events \subseteq b.events /\ a.resolved \subseteq b.resolved
  /\ a.spots \subseteq b.spots /\ (a.vault.is => b.vault.is)

Fields == {"markets", "slugs", "s2m", "names", "vault", "hold"}

MarketsType(f) ==
  /\ DOMAIN f \subseteq MarketId
  /\ \A e \in Event : EventId(e) \in DOMAIN f => f[EventId(e)] \in RowType
  /\ \A s \in Spot : Shell(s) \in DOMAIN f => f[Shell(s)] = ShellRow

(* A name leads to a spot market that has it. *)
NamesType(f) == \A x \in DOMAIN f : f[x] \in Spot /\ NameOf[f[x]] = x

(* The spot markets of a chain are found under their names. *)
NamesIn(f, ch) == \A s \in ch.spots : NameOf[s] = NoName \/ NameOf[s] \in DOMAIN f

MemType(m) ==
  /\ DOMAIN m = Fields /\ MarketsType(m.markets)
  /\ DOMAIN m.s2m \subseteq Spot /\ \A s \in DOMAIN m.s2m : m.s2m[s] \in MarketId
  /\ NamesType(m.names) /\ m.vault \in VaultType /\ m.hold \in Nat

(* The slugs lead to events that have them. *)
SlugBack(m) ==
  \A x \in DOMAIN m.slugs :
    /\ m.slugs[x] \in Event /\ EventId(m.slugs[x]) \in DOMAIN m.markets
    /\ m.markets[EventId(m.slugs[x])].slug = x

(* Every event is found by its slug. *)
SlugFound(m) ==
  \A e \in Event : EventId(e) \in DOMAIN m.markets =>
    /\ m.markets[EventId(e)].slug \in DOMAIN m.slugs
    /\ m.slugs[m.markets[EventId(e)].slug] = e

NoEvent(L) == \A e \in Event : EventId(e) \notin L

(* LegsBound of a memory and a set of orphans. *)
Bound(m, O) ==
  \A e \in Event : EventId(e) \in DOMAIN m.markets =>
    \A s \in Legs(e) : s \notin O =>
      s \in DOMAIN m.s2m /\ m.s2m[s] = EventId(e) /\ Shell(s) \notin DOMAIN m.markets

SpotsIn(m, ch, L) ==
  \A s \in ch.spots : NameOf[s] = NoName \/ s \in DOMAIN m.s2m \/ Shell(s) \in L

(* The state of an event, the vault and the holding, in rows and on chain. *)
StateOf(rows, e) == IF EventId(e) \in DOMAIN rows THEN rows[EventId(e)].state ELSE "none"
ChainState(ch, e) ==
  IF e \in ch.resolved THEN "Resolved" ELSE IF e \in ch.events THEN "Active" ELSE "none"
VaultOf(rows) == IF Vault \in DOMAIN rows THEN rows[Vault] ELSE NoVault
HoldOf(rows) == IF Holding \in DOMAIN rows THEN rows[Holding].amount ELSE 0

(* Each field of the vault is that of chain a or of the later chain b. *)
VaultNear(v, a, b) ==
  /\ v.is = a.is \/ v.is = b.is
  /\ v.is => /\ b.is
             /\ v.equity = b.equity \/ (a.is /\ v.equity = a.equity)
             /\ v.allow = b.allow \/ (a.is /\ v.allow = a.allow)
             /\ v.closed = b.closed \/ (a.is /\ v.closed = a.closed)

(* The rows at a block with chain ch, while blocks up to the chain top are    *)
(* applied again, except the keys in L.                                       *)
EventsNear(f, ch, top, L) ==
  \A e \in Event : EventId(e) \notin L =>
    StateOf(f, e) = ChainState(ch, e) \/ StateOf(f, e) = ChainState(top, e)

VaultExact(v, ch, top, L) == Vault \notin L => VaultNear(v, ch.vault, top.vault)

HoldExact(h, ch, L, twice) == Vault \notin L /\ Holding \notin L /\ twice = 0 => h = ch.credited

RowsExact(rows, ch, top, L, twice) ==
  /\ EventsNear(rows, ch, top, L) /\ VaultExact(VaultOf(rows), ch, top, L)
  /\ HoldExact(HoldOf(rows), ch, L, twice)

MemOK(m, ch, top, L, O, twice) ==
  /\ MemType(m) /\ SlugBack(m) /\ (NoEvent(L) => SlugFound(m))
  /\ Bound(m, O) /\ SpotsIn(m, ch, L) /\ RowsExact(RowsOf(m), ch, top, L, twice)

RowsType(rows) ==
  /\ DOMAIN rows \subseteq MarketId \union {Vault, Holding}
  /\ \A e \in Event : EventId(e) \in DOMAIN rows => rows[EventId(e)] \in RowType
  /\ \A s \in Spot : Shell(s) \in DOMAIN rows => rows[Shell(s)] = ShellRow
  /\ Vault \in DOMAIN rows => rows[Vault] \in VaultType /\ rows[Vault].is
  /\ Holding \in DOMAIN rows => rows[Holding] \in [amount : Nat \ {0}]

SlugsDiffer(rows) ==
  \A e, f \in Event :
    EventId(e) \in DOMAIN rows /\ EventId(f) \in DOMAIN rows
      /\ rows[EventId(e)].slug = rows[EventId(f)].slug => e = f

ContestedIn(rows, O) ==
  \A s \in Spot : Shell(s) \in DOMAIN rows /\ EventId(Owner(s)) \in DOMAIN rows => s \in O

RowsOK(rows, ch, top, L, O, twice) ==
  /\ RowsType(rows) /\ (NoEvent(L) => SlugsDiffer(rows))
  /\ ContestedIn(rows, O) /\ RowsExact(rows, ch, top, L, twice)

Same(r1, r2, id) ==
  (id \in DOMAIN r1 <=> id \in DOMAIN r2) /\ (id \in DOMAIN r1 => r1[id] = r2[id])

(* Rows and memory differ in X at most, apart from the shells in O, and shells *)
(* that have no row.                                                           *)
Agree(rows, m, X, O) ==
  /\ \A e \in Event : EventId(e) \in DOMAIN rows => EventId(e) \in DOMAIN m.markets
  /\ \A id : id \notin {Shell(s) : s \in Spot} \union X => Same(rows, RowsOf(m), id)
  /\ \A s \in Spot : Shell(s) \notin X /\ Shell(s) \in DOMAIN rows /\ s \notin O =>
       Shell(s) \in DOMAIN m.markets

-----------------------------------------------------------------------------
Top(n, a) == IF n < a THEN a ELSE n

ShellsOf(X) == {s \in Spot : Shell(s) \in X}

AnySeq(q) == q \in Seq({q[i] : i \in 1..Len(q)})

(* ChainAt, PeerAt, TablesAfter and UnmirroredAfter of given values. *)
ChainOf(l, b) == IF b = 0 THEN Genesis ELSE l[b].ch
PeerOf(l, b) == IF b = 0 THEN Empty ELSE l[b].peer

AfterOf(t, p, i) ==
  CASE i = 0 -> t
    [] i = 1 -> Written(t, p[1])
    [] i = 2 -> Written(Written(t, p[1]), p[2])

LeftOf(U, p, i) ==
  CASE i = 0 -> U
    [] i = 1 -> Remaining(U, p[1])
    [] i = 2 -> Remaining(Remaining(U, p[1]), p[2])

(* The chain is what its events make of it; a peer that has applied them all *)
(* knows every spot market and every state.                                  *)
LogIs(l) ==
  /\ AnySeq(l)
  /\ \A b \in 1..Len(l) : /\ l[b].ev \in Events(ChainOf(l, b - 1))
                          /\ l[b].ch = ChainStep(ChainOf(l, b - 1), l[b].ev)
  /\ \A b \in 0..Len(l) :
       /\ ChainType(ChainOf(l, b))
       /\ MemOK(PeerOf(l, b), ChainOf(l, b), ChainOf(l, b), {}, {}, 0)
  /\ \A a, b \in 0..Len(l) : a <= b => Later(ChainOf(l, a), ChainOf(l, b))

LogOK == LogIs(log)

(* Write sets on their way at block h: labels in order, no event deleted. *)
SetsOK(p, h) ==
  /\ \A i \in 1..Len(p) : p[i].n \in 0..h /\ \A e \in Event : EventId(e) \notin p[i].del
  /\ Len(p) = 2 => p[1].n <= p[2].n

HandlerOK(x) ==
  \/ x = NoHandler
  \/ /\ DOMAIN x = {"s", "name", "at"} /\ x.s \in Spot /\ x.name \in {NoName, NameOf[x.s]}
     /\ x.at \in {"name", "shell"}

Counters ==
  /\ head \in 0..Len(log) /\ again \in 0..Len(log) /\ tables.n \in 0..Len(log)
  /\ \A i \in 1..Len(pending) : pending[i].n \in 0..Len(log)
  /\ AnySeq(pending) /\ Len(pending) \in 0..2
  /\ phase \in {"live", "replay", "catchup", "tail"} /\ (phase # "live" => pending = <<>> /\ starts > 0)
  /\ HandlerOK(http) /\ SetsOK(pending, head) /\ starts \in Nat
  /\ \A u \in unmirrored : u[1] \in Nat

MemoryOK ==
  /\ MemOK(mem, ChainOf(log, head), ChainOf(log, Top(head, again)), lost, orphans, again)
  /\ starts = 0 => NamesIn(mem.names, ChainOf(log, head))

(* Tables, if the process stopped with them and the changes in U not stored. *)
TableAt(t, U, l, L, O, a) ==
  RowsOK(t.rows, ChainOf(l, t.n), ChainOf(l, Top(t.n, a)), L \union Stale(U, t.n),
         O \union ShellsOf(Stale(U, t.n)), a)

TablesOK ==
  \A i \in 0..Len(pending) :
    TableAt(AfterOf(tables, pending, i), LeftOf(unmirrored, pending, i), log, lost, orphans, again)

MirrorOK ==
  Agree(AfterOf(tables, pending, Len(pending)).rows, mem,
        Stale(LeftOf(unmirrored, pending, Len(pending)), head), orphans)

IInv == LogOK /\ Counters /\ MemoryOK /\ TablesOK /\ MirrorOK

-----------------------------------------------------------------------------
(* Proof *)

(* The keys of the tables are different from each other. *)
LEMMA IdFacts ==
  /\ Vault # Holding /\ Vault \notin MarketId /\ Holding \notin MarketId
  /\ \A s \in Spot : Shell(s) \in MarketId /\ Shell(s).k = "spot" /\ Shell(s).n = s
  /\ \A e \in Event : EventId(e) \in MarketId /\ EventId(e).k # "spot"
  /\ \A s, r : Shell(s) = Shell(r) => s = r
  /\ \A e, f : EventId(e) = EventId(f) => e = f
  /\ \A e, s : EventId(e) # Shell(s) /\ EventId(e) # Vault /\ EventId(e) # Holding
                 /\ Shell(s) # Vault /\ Shell(s) # Holding
  /\ \A id \in MarketId : (\E s \in Spot : id = Shell(s)) \/ (\E e \in Event : id = EventId(e))
  /\ Vault.k # "spot" /\ Holding.k # "spot"
BY DEF Vault, Holding, MarketId, Shell, EventId

(* Every spot market is the leg of one event. *)
LEMMA LegFacts ==
  /\ 0 \notin Spot
  /\ \A e \in Event : Legs(e) \subseteq Spot
  /\ \A s \in Spot : Owner(s) \in Event /\ s \in Legs(Owner(s))
  /\ \A e \in Event : \A s \in Spot : s \in Legs(e) <=> Owner(s) = e
<1>1. \A e \in Event : e \in Nat /\ e # 0
  BY RegistryAssumption
<1>2. \A e \in Event : Legs(e) \subseteq Spot
  BY DEF Spot
<1>3. ASSUME NEW s \in Spot
      PROVE  \E e \in Event : s \in Legs(e)
  BY DEF Spot
<1>4. ASSUME NEW e \in Event, NEW s \in Legs(e)
      PROVE  s # 0 /\ s \in Nat /\ Owner(s) = e
  BY <1>1, <1>4 DEF Legs, Owner
<1> QED
  BY <1>1, <1>2, <1>3, <1>4

(* The first suffix that no slug has exists. *)
LEMMA FreshSlug ==
  ASSUME NEW existing, IsFiniteSet(existing), NEW base \in Seq(Nat)
  PROVE  /\ allocate_unique_slug(existing, base) \notin existing
         /\ allocate_unique_slug(existing, base) \in Seq(Nat)
<1> DEFINE n == Cardinality(existing)
           Free(k) == Append(base, k) \notin existing
           F == [k \in 2..(n + 2) |-> Append(base, k)]
<1>1. CASE base \notin existing
  BY <1>1 DEF allocate_unique_slug
<1>2. CASE base \in existing
  <2>1. n \in Nat
    BY FS_CardinalityType
  <2>2. \A k, j \in Nat : Append(base, k) = Append(base, j) => k = j
    BY AppendProperties
  <2>3. \E k \in 2..(n + 2) : Free(k)
    <3>1. SUFFICES ASSUME \A k \in 2..(n + 2) : Append(base, k) \in existing
                   PROVE  FALSE
      OBVIOUS
    <3>2. F \in Injection(2..(n + 2), existing)
      <4>1. F \in [2..(n + 2) -> existing]
        BY <3>1
      <4>2. \A k, j \in 2..(n + 2) : F[k] = F[j] => k = j
        BY <2>1, <2>2
      <4>3. DOMAIN F = 2..(n + 2)
        OBVIOUS
      <4> HIDE DEF F
      <4> QED
        BY <4>1, <4>2, <4>3 DEF Injection, IsInjective
    <3>3. Cardinality(2..(n + 2)) <= n
      BY <3>2, FS_Injection
    <3>4. Cardinality(2..(n + 2)) = n + 1
      BY <2>1, FS_Interval
    <3> QED
      BY <2>1, <3>3, <3>4
  <2>4. \E k \in 2..(n + 2) : Free(k) /\ \A j \in 2..(k - 1) : ~ Free(j)
    <3> DEFINE S == {k \in Nat : k \in 2..(n + 2) /\ Free(k)}
    <3>1. S \subseteq Nat /\ S # {}
      BY <2>1, <2>3
    <3>2. PICK k \in S : \A j \in Nat : <<j, k>> \in OpToRel(<, Nat) => j \notin S
      <4> HIDE DEF S
      <4> QED
        BY <3>1, NatLessThanWellFounded, WFMin
    <3>3. \A j \in 2..(k - 1) : j \in Nat /\ j < k /\ j \in 2..(n + 2)
      BY <2>1
    <3>4. \A j \in 2..(k - 1) : <<j, k>> \in OpToRel(<, Nat)
      BY <3>3 DEF OpToRel
    <3> QED
      BY <3>2, <3>3, <3>4
  <2>5. PICK k \in 2..(n + 2) :
            /\ allocate_unique_slug(existing, base) = Append(base, k)
            /\ Append(base, k) \notin existing
    <3> DEFINE k0 == CHOOSE k \in 2..(n + 2) :
                       /\ Append(base, k) \notin existing
                       /\ \A j \in 2..(k - 1) : Append(base, j) \in existing
    <3>1. k0 \in 2..(n + 2) /\ Append(base, k0) \notin existing
      BY <2>4
    <3>2. allocate_unique_slug(existing, base) = Append(base, k0)
      BY <1>2 DEF allocate_unique_slug
    <3> QED
      BY <3>1, <3>2
  <2>6. Append(base, k) \in Seq(Nat)
    BY <2>1, AppendProperties
  <2> QED
    BY <2>5, <2>6
<1> QED
  BY <1>1, <1>2
-----------------------------------------------------------------------------
(* The rows of a memory. *)

(* What RowsExact says of the rows of a memory, said of the memory. *)
MemExact(m, ch, top, L, twice) ==
  /\ EventsNear(m.markets, ch, top, L) /\ VaultExact(m.vault, ch, top, L)
  /\ HoldExact(m.hold, ch, L, twice)

(* A memory has a row for each market, one for a vault and one for a holding. *)
LEMMA RowsOfDomain ==
  ASSUME NEW m, MemType(m)
  PROVE  /\ DOMAIN RowsOf(m) \subseteq MarketId \union {Vault, Holding}
         /\ \A id \in MarketId : Same(m.markets, RowsOf(m), id)
         /\ Vault \in DOMAIN RowsOf(m) <=> m.vault.is
         /\ m.vault.is => RowsOf(m)[Vault] = m.vault
         /\ Holding \in DOMAIN RowsOf(m) <=> m.hold > 0
         /\ m.hold > 0 => RowsOf(m)[Holding] = [amount |-> m.hold]
         /\ VaultOf(RowsOf(m)) = m.vault /\ HoldOf(RowsOf(m)) = m.hold
<1> DEFINE other == (IF m.vault.is THEN {Vault} ELSE {}) \union (IF m.hold > 0 THEN {Holding} ELSE {})
<1>1. DOMAIN m.markets \subseteq MarketId /\ m.vault \in VaultType /\ m.hold \in Nat
  BY DEF MemType, MarketsType
<1>2. Vault # Holding /\ Vault \notin MarketId /\ Holding \notin MarketId
  BY IdFacts
<1>3. DOMAIN RowsOf(m) = DOMAIN m.markets \union other
  BY DEF RowsOf
<1>4. \A id \in DOMAIN m.markets : RowsOf(m)[id] = m.markets[id]
  BY <1>1, <1>2 DEF RowsOf
<1>5. m.vault.is => RowsOf(m)[Vault] = m.vault
  BY <1>1, <1>2 DEF RowsOf
<1>6. m.hold > 0 => RowsOf(m)[Holding] = [amount |-> m.hold]
  BY <1>1, <1>2 DEF RowsOf
<1>7. \A id \in MarketId : Same(m.markets, RowsOf(m), id)
  BY <1>1, <1>2, <1>3, <1>4 DEF Same
<1>8. ~ m.vault.is => m.vault = NoVault
  BY <1>1 DEF VaultType, NoVault
<1>9. ~ (m.hold > 0) => m.hold = 0
  BY <1>1
<1>10. Vault \in DOMAIN RowsOf(m) <=> m.vault.is
  BY <1>1, <1>2, <1>3
<1>11. Holding \in DOMAIN RowsOf(m) <=> m.hold > 0
  BY <1>1, <1>2, <1>3
<1>12. VaultOf(RowsOf(m)) = m.vault
  BY <1>5, <1>8, <1>10 DEF VaultOf
<1>13. HoldOf(RowsOf(m)) = m.hold
  BY <1>6, <1>9, <1>11 DEF HoldOf
<1>14. DOMAIN RowsOf(m) \subseteq MarketId \union {Vault, Holding}
  BY <1>1, <1>3
<1> QED
  BY <1>5, <1>6, <1>7, <1>10, <1>11, <1>12, <1>13, <1>14

(* These rows are typed and exact as the memory is. *)
LEMMA RowsOfExact ==
  ASSUME NEW m, MemType(m), NEW ch, NEW top, NEW L, NEW twice
  PROVE  /\ RowsType(RowsOf(m))
         /\ RowsExact(RowsOf(m), ch, top, L, twice) <=> MemExact(m, ch, top, L, twice)
<1>1. \A e \in Event : EventId(e) \in MarketId
  BY IdFacts
<1>2. \A s \in Spot : Shell(s) \in MarketId
  BY IdFacts
<1>3. \A e \in Event : StateOf(RowsOf(m), e) = StateOf(m.markets, e)
  BY <1>1, RowsOfDomain DEF StateOf, Same
<1>4. RowsExact(RowsOf(m), ch, top, L, twice) <=> MemExact(m, ch, top, L, twice)
  BY <1>3, RowsOfDomain DEF RowsExact, MemExact, EventsNear
<1>5. RowsType(RowsOf(m))
  <2>1. m.vault \in VaultType /\ m.hold \in Nat /\ MarketsType(m.markets)
    BY DEF MemType
  <2>2. ASSUME NEW e \in Event, EventId(e) \in DOMAIN RowsOf(m)
        PROVE  RowsOf(m)[EventId(e)] \in RowType
    BY <1>1, <2>1, <2>2, RowsOfDomain DEF Same, MarketsType
  <2>3. ASSUME NEW s \in Spot, Shell(s) \in DOMAIN RowsOf(m)
        PROVE  RowsOf(m)[Shell(s)] = ShellRow
    BY <1>2, <2>1, <2>3, RowsOfDomain DEF Same, MarketsType
  <2>4. Vault \in DOMAIN RowsOf(m) => RowsOf(m)[Vault] \in VaultType /\ RowsOf(m)[Vault].is
    BY <2>1, RowsOfDomain
  <2>5. Holding \in DOMAIN RowsOf(m) => RowsOf(m)[Holding] \in [amount : Nat \ {0}]
    <3>1. /\ Holding \in DOMAIN RowsOf(m) <=> m.hold > 0
          /\ m.hold > 0 => RowsOf(m)[Holding] = [amount |-> m.hold]
      BY RowsOfDomain
    <3>2. m.hold > 0 => m.hold \in Nat \ {0}
      BY <2>1
    <3> QED
      BY <3>1, <3>2
  <2> QED
    BY <2>2, <2>3, <2>4, <2>5, RowsOfDomain DEF RowsType
<1> QED
  BY <1>4, <1>5

-----------------------------------------------------------------------------
(* What the operations on a memory leave. *)

(* What upsert_market of an event leaves. *)
Upserted(m, e, row, m2) ==
  /\ DOMAIN m2 = Fields
  /\ DOMAIN m2.markets = (DOMAIN m.markets \union {EventId(e)}) \ {Shell(s) : s \in Legs(e)}
  /\ EventId(e) \in DOMAIN m2.markets /\ m2.markets[EventId(e)] = row
  /\ \A id \in DOMAIN m2.markets : id # EventId(e) => m2.markets[id] = m.markets[id]
  /\ DOMAIN m2.slugs = {x \in DOMAIN m.slugs : m.slugs[x] # e} \union {row.slug}
  /\ m2.slugs[row.slug] = e
  /\ \A x \in DOMAIN m2.slugs : x # row.slug => m2.slugs[x] = m.slugs[x]
  /\ DOMAIN m2.s2m = DOMAIN m.s2m \union Legs(e)
  /\ \A s \in DOMAIN m2.s2m : m2.s2m[s] = IF s \in Legs(e) THEN EventId(e) ELSE m.s2m[s]
  /\ m2.names = m.names /\ m2.vault = m.vault /\ m2.hold = m.hold

(* upsert_event does so. *)
LEMMA EventShape ==
  ASSUME NEW m, MemType(m), NEW e \in Event, NEW row, NEW m2, m2 = upsert_event(m, e, row)
  PROVE  Upserted(m, e, row, m2)
<1> DEFINE old == {x \in DOMAIN m.slugs : m.slugs[x] = e}
           slugs == Put(Drop(m.slugs, old), row.slug, e)
           markets == Put(m.markets, EventId(e), row)
           m1 == [m EXCEPT !.slugs = slugs, !.markets = markets]
           gone == {Shell(s) : s \in Legs(e)}
<1>1. DOMAIN m = Fields
  BY DEF MemType
<1>2. m2 = bind_event_spot_legs(m1, e)
  BY DEF upsert_event
<1>3. /\ DOMAIN m1 = Fields /\ m1.slugs = slugs /\ m1.markets = markets /\ m1.s2m = m.s2m
      /\ m1.names = m.names /\ m1.vault = m.vault /\ m1.hold = m.hold
  <2> HIDE DEF slugs, markets
  <2> QED
    BY <1>1 DEF Fields
<1> HIDE DEF m1
<1>4. /\ DOMAIN m2 = Fields /\ m2.slugs = slugs /\ m2.markets = Drop(markets, gone)
      /\ m2.s2m = [s \in DOMAIN m.s2m \union Legs(e) |->
                     IF s \in Legs(e) THEN EventId(e) ELSE m.s2m[s]]
      /\ m2.names = m.names /\ m2.vault = m.vault /\ m2.hold = m.hold
  <2> HIDE DEF slugs, markets, gone
  <2>1. PICK sm : sm = [s \in DOMAIN m1.s2m \union Legs(e) |->
                     IF s \in Legs(e) THEN EventId(e) ELSE m1.s2m[s]]
    OBVIOUS
  <2>2. PICK dm : dm = Drop(m1.markets, gone)
    OBVIOUS
  <2>3. m2 = [[m1 EXCEPT !.markets = dm] EXCEPT !.s2m = sm]
    BY <1>2, <2>1, <2>2 DEF bind_event_spot_legs, remove_orphan_spot_shell, gone
  <2>4. /\ DOMAIN m2 = Fields /\ m2.slugs = m1.slugs /\ m2.markets = dm /\ m2.s2m = sm
        /\ m2.names = m1.names /\ m2.vault = m1.vault /\ m2.hold = m1.hold
    BY <1>3, <2>3 DEF Fields
  <2> QED
    BY <1>3, <2>1, <2>2, <2>4
<1>5. EventId(e) \notin gone
  BY IdFacts
<1>6. /\ DOMAIN Drop(markets, gone) = (DOMAIN m.markets \union {EventId(e)}) \ gone
      /\ \A id \in DOMAIN Drop(markets, gone) :
           Drop(markets, gone)[id] = IF id = EventId(e) THEN row ELSE m.markets[id]
  BY DEF Put, Drop
<1>7. /\ DOMAIN slugs = {x \in DOMAIN m.slugs : m.slugs[x] # e} \union {row.slug}
      /\ \A x \in DOMAIN slugs : slugs[x] = IF x = row.slug THEN e ELSE m.slugs[x]
  BY DEF Put, Drop
<1> HIDE DEF slugs, markets, gone
<1>8. /\ DOMAIN m2.markets = (DOMAIN m.markets \union {EventId(e)}) \ gone
      /\ EventId(e) \in DOMAIN m2.markets /\ m2.markets[EventId(e)] = row
      /\ \A id \in DOMAIN m2.markets : id # EventId(e) => m2.markets[id] = m.markets[id]
  BY <1>4, <1>5, <1>6
<1>9. /\ DOMAIN m2.slugs = {x \in DOMAIN m.slugs : m.slugs[x] # e} \union {row.slug}
      /\ m2.slugs[row.slug] = e
      /\ \A x \in DOMAIN m2.slugs : x # row.slug => m2.slugs[x] = m.slugs[x]
  BY <1>4, <1>7
<1>10. /\ DOMAIN m2.s2m = DOMAIN m.s2m \union Legs(e)
       /\ \A s \in DOMAIN m2.s2m : m2.s2m[s] = IF s \in Legs(e) THEN EventId(e) ELSE m.s2m[s]
  BY <1>4
<1> QED
  BY <1>4, <1>8, <1>9, <1>10 DEF gone, Upserted

(* The two or_insert of a shell. *)
LEMMA ShellShape ==
  ASSUME NEW m, MemType(m), NEW s \in Spot, NEW m2, m2 = InsertShell(m, s)
  PROVE  /\ DOMAIN m2 = Fields
         /\ DOMAIN m2.markets = DOMAIN m.markets \union {Shell(s)}
         /\ \A id \in DOMAIN m2.markets :
              m2.markets[id] = IF id \in DOMAIN m.markets THEN m.markets[id] ELSE ShellRow
         /\ DOMAIN m2.s2m = DOMAIN m.s2m \union {s}
         /\ \A r \in DOMAIN m2.s2m :
              m2.s2m[r] = IF r \in DOMAIN m.s2m THEN m.s2m[r] ELSE Shell(s)
         /\ m2.slugs = m.slugs /\ m2.names = m.names /\ m2.vault = m.vault /\ m2.hold = m.hold
<1> DEFINE sm == IF s \in DOMAIN m.s2m THEN m.s2m ELSE Put(m.s2m, s, Shell(s))
           mk == IF Shell(s) \in DOMAIN m.markets THEN m.markets ELSE Put(m.markets, Shell(s), ShellRow)
<1>1. m2 = [m EXCEPT !.s2m = sm, !.markets = mk]
  BY DEF InsertShell
<1>2. /\ DOMAIN mk = DOMAIN m.markets \union {Shell(s)}
      /\ \A id \in DOMAIN mk : mk[id] = IF id \in DOMAIN m.markets THEN m.markets[id] ELSE ShellRow
  BY DEF Put
<1>3. /\ DOMAIN sm = DOMAIN m.s2m \union {s}
      /\ \A r \in DOMAIN sm : sm[r] = IF r \in DOMAIN m.s2m THEN m.s2m[r] ELSE Shell(s)
  BY DEF Put
<1> HIDE DEF sm, mk
<1>4. /\ DOMAIN m2 = Fields /\ m2.s2m = sm /\ m2.markets = mk
      /\ m2.slugs = m.slugs /\ m2.names = m.names /\ m2.vault = m.vault /\ m2.hold = m.hold
  BY <1>1 DEF MemType, Fields
<1> QED
  BY <1>2, <1>3, <1>4
-----------------------------------------------------------------------------
(* The chain. *)

(* The events that a chain may have next. *)
LEMMA EventCases ==
  ASSUME NEW ch, NEW ev \in Events(ch)
  PROVE  \/ ev.t = "spot" /\ ev.n \in Spot
         \/ ev.t = "event" /\ ev.n \in Event \ ch.events
         \/ ev.t = "resolved" /\ ev.n \in ch.events \ ch.resolved
         \/ ev.t = "order" /\ ev.n \in ch.spots
         \/ ev.t = "vault" /\ ~ ch.vault.is
         \/ ev.t = "sold" /\ ev.n \in {0, 1} /\ ch.hold > 0
         \/ ev.t = "bought" /\ ev.n \in {0, 1} /\ ch.vault.is
         \/ ev.t \in {"deposited", "permission", "closed"} /\ ch.vault.is
<1>1. CASE ev \in [t : {"spot"}, n : Named \ ch.spots]
  BY <1>1, RegistryAssumption
<1>2. CASE ev \in [t : {"event"}, n : Event \ ch.events]
  BY <1>2
<1>3. CASE ev \in [t : {"resolved"}, n : ch.events \ ch.resolved]
  BY <1>3
<1>4. CASE ev \in [t : {"order"}, n : ch.spots]
  BY <1>4
<1>5. CASE /\ ev \in [t : Kinds, n : {0}] \union [t : Fills, n : {0, 1}]
           /\ CASE ev.t = "vault" -> ~ ch.vault.is
                [] ev.t = "sold" -> ch.hold > 0
                [] ev.t = "bought" -> ch.vault.is /\ ch.hold < 2
                [] OTHER -> ch.vault.is /\ ~ ch.vault.closed
  <2>1. ev.t \in Kinds \/ (ev.t \in Fills /\ ev.n \in {0, 1})
    BY <1>5
  <2> QED
    BY <1>5, <2>1 DEF Kinds, Fills
<1> QED
  BY <1>1, <1>2, <1>3, <1>4, <1>5 DEF Events

(* An event has a kind and a number. *)
LEMMA EventParts ==
  ASSUME NEW ch, NEW ev \in Events(ch), NEW e, e = [ev EXCEPT !.n = 1]
  PROVE  e.t = ev.t /\ e.n = 1
<1>1. DOMAIN ev = {"t", "n"}
  BY DEF Events
<1> QED
  BY <1>1

(* The effect of an event on the chain, by its kind. *)
ChainMoves(ch, ev, ch2) ==
  /\ ev.t = "event" => /\ ch2.events = ch.events \union {ev.n}
                       /\ ch2.resolved = ch.resolved
  /\ ev.t = "resolved" => /\ ch2.events = ch.events
                          /\ ch2.resolved = ch.resolved \union {ev.n}
  /\ ev.t \notin {"event", "resolved"} => ch2.events = ch.events /\ ch2.resolved = ch.resolved
  /\ ch2.spots = IF ev.t = "spot" THEN ch.spots \union {ev.n} ELSE ch.spots
  /\ ch2.vault = IF ev.t \in {"vault", "deposited", "permission", "closed"}
                 THEN VaultStep(ch.vault, ev.t) ELSE ch.vault
  /\ ev.t = "bought" => ch2.hold = ch.hold + 1
  /\ ev.t = "sold" => ch2.hold = ch.hold - 1
  /\ ev.t \in Fills => (ch2.partial <=> ch.partial /\ ev.n = 0)
  /\ ev.t = "bought" => ch2.credited = IF ev.n = 0 THEN ch.credited + 1 ELSE ch.credited
  /\ ev.t = "sold" => ch2.credited = IF ev.n = 0 THEN Clamped(ch.credited) ELSE ch.credited
  /\ ev.t \notin Fills => ch2.hold = ch.hold /\ ch2.credited = ch.credited /\ ch2.partial = ch.partial
  /\ ch2.partial \in BOOLEAN
  /\ DOMAIN ch2 = {"events", "resolved", "spots", "vault", "hold", "credited", "partial"}
  /\ ch2 = [events |-> ch2.events, resolved |-> ch2.resolved, spots |-> ch2.spots,
            vault |-> ch2.vault, hold |-> ch2.hold, credited |-> ch2.credited,
            partial |-> ch2.partial]

(* ChainStep has this effect. *)
LEMMA ChainShape ==
  ASSUME NEW ch, ChainType(ch), NEW ev \in Events(ch), NEW ch2, ch2 = ChainStep(ch, ev)
  PROVE  ChainMoves(ch, ev, ch2)
<1>1. ch \in [events : SUBSET Event, resolved : SUBSET Event, spots : SUBSET Spot,
              vault : VaultType, hold : Nat, credited : Nat, partial : BOOLEAN]
  BY DEF ChainType
<1>2. CASE ev.t = "spot"
  BY <1>1, <1>2 DEF ChainStep, ChainMoves, Fills
<1>3. CASE ev.t = "event"
  BY <1>1, <1>3 DEF ChainStep, ChainMoves, Fills
<1>4. CASE ev.t = "resolved"
  BY <1>1, <1>4 DEF ChainStep, ChainMoves, Fills
<1>5. CASE ev.t = "order"
  BY <1>1, <1>5 DEF ChainStep, ChainMoves, Fills
<1>6. CASE ev.t \in {"bought", "sold"}
  <2>1. PICK h, c : /\ h = (IF ev.t = "bought" THEN ch.hold + 1 ELSE ch.hold - 1)
                    /\ c = (IF ev.n # 0 THEN ch.credited
                            ELSE IF ev.t = "bought" THEN ch.credited + 1 ELSE Clamped(ch.credited))
    OBVIOUS
  <2>2. PICK b \in BOOLEAN : b <=> ch.partial /\ ev.n = 0
    BY Zenon
  <2>3. (ch.partial /\ ev.n = 0) \in BOOLEAN
    BY Zenon
  <2>4. (ch.partial /\ ev.n = 0) = b
    BY <2>2, <2>3
  <2>5. ch2 = [ch EXCEPT !.hold = h, !.partial = b, !.credited = c]
    BY <1>6, <2>1, <2>4 DEF ChainStep
  <2>6. /\ ch2.events = ch.events /\ ch2.resolved = ch.resolved /\ ch2.spots = ch.spots
        /\ ch2.vault = ch.vault /\ ch2.hold = h /\ ch2.credited = c /\ ch2.partial = b
        /\ DOMAIN ch2 = {"events", "resolved", "spots", "vault", "hold", "credited", "partial"}
        /\ ch2 = [events |-> ch.events, resolved |-> ch.resolved, spots |-> ch.spots,
                  vault |-> ch.vault, hold |-> h, credited |-> c, partial |-> b]
    BY <1>1, <2>5
  <2>7. ch2 = [events |-> ch2.events, resolved |-> ch2.resolved, spots |-> ch2.spots,
               vault |-> ch2.vault, hold |-> ch2.hold, credited |-> ch2.credited,
               partial |-> ch2.partial]
    BY <2>6, Zenon
  <2>8. /\ ev.t \notin {"event", "resolved", "spot", "vault", "deposited", "permission", "closed"}
        /\ ev.t \in Fills /\ (ev.t = "bought" => ev.t # "sold")
    BY <1>6 DEF Fills
  <2> QED
    BY <2>1, <2>2, <2>6, <2>7, <2>8 DEF ChainMoves
<1>8. CASE ev.t \in {"vault", "deposited", "permission", "closed"}
  <2>1. ch2 = [ch EXCEPT !.vault = VaultStep(ch.vault, ev.t)]
    BY <1>8 DEF ChainStep, ChainMoves
  <2> QED
    BY <1>1, <1>8, <2>1 DEF ChainMoves, Fills
<1> QED
  BY <1>2, <1>3, <1>4, <1>5, <1>6, <1>8, EventCases

(* The effect of an event on the vault of the chain. *)
VaultTurns(v, t, w) ==
  /\ t = "vault" => w = NewVault
  /\ t = "deposited" => w.equity = v.equity + 1 /\ w.allow = v.allow /\ w.closed = v.closed
  /\ t = "permission" => w.equity = v.equity /\ w.closed = v.closed
  /\ t = "closed" => w.equity = v.equity /\ w.allow = FALSE /\ w.closed = TRUE
  /\ t \in {"vault", "deposited", "permission", "closed"} => w \in VaultType /\ w.is

(* VaultStep has this effect. *)
LEMMA VaultShape ==
  ASSUME NEW v \in VaultType, NEW t, NEW w, w = VaultStep(v, t), t = "vault" \/ v.is
  PROVE  VaultTurns(v, t, w)
<1>1. NewVault \in VaultType /\ NewVault.is
  BY DEF NewVault, VaultType
<1>2. CASE t = "vault"
  BY <1>1, <1>2 DEF VaultStep, VaultTurns
<1>3. ASSUME t # "vault"
      PROVE  v \in [is : {TRUE}, equity : Nat, allow : BOOLEAN, closed : BOOLEAN]
  <2>1. v # NoVault
    <3>1. NoVault.is = FALSE
      BY DEF NoVault
    <3> QED
      BY <1>3, <3>1, Zenon
  <2> QED
    BY <2>1 DEF VaultType
<1>4. CASE t = "deposited"
  <2>1. w = [v EXCEPT !.equity = v.equity + 1]
    BY <1>4 DEF VaultStep
  <2>2. PICK q \in Nat : q = v.equity + 1
    BY <1>3, <1>4
  <2>3. w = [v EXCEPT !.equity = q]
    BY <2>1, <2>2
  <2>4. w.equity = q /\ w.allow = v.allow /\ w.closed = v.closed
    BY <1>3, <1>4, <2>3
  <2>5. w \in [is : {TRUE}, equity : Nat, allow : BOOLEAN, closed : BOOLEAN]
    BY <1>3, <1>4, <2>3
  <2>6. w \in VaultType /\ w.is
    BY <2>5 DEF VaultType
  <2> QED
    BY <1>4, <2>2, <2>4, <2>6 DEF VaultTurns
<1>5. CASE t = "permission"
  <2>1. w = [v EXCEPT !.allow = ~ v.allow]
    BY <1>5 DEF VaultStep
  <2>2. (~ v.allow) \in BOOLEAN
    BY Zenon
  <2>3. PICK a \in BOOLEAN : w = [v EXCEPT !.allow = a]
    BY <2>1, <2>2, Zenon
  <2> QED
    BY <1>3, <1>5, <2>3 DEF VaultType, VaultTurns
<1>6. CASE t = "closed"
  <2>1. w = [v EXCEPT !.closed = TRUE, !.allow = FALSE]
    BY <1>6 DEF VaultStep
  <2> QED
    BY <1>3, <1>6, <2>1 DEF VaultType, VaultTurns
<1>7. CASE t \notin {"vault", "deposited", "permission", "closed"}
  BY <1>7 DEF VaultTurns
<1> QED
  BY <1>2, <1>4, <1>5, <1>6, <1>7

(* A chain stays typed, and keeps what Later lists. *)
LEMMA ChainGrows ==
  ASSUME NEW ch, ChainType(ch), NEW ev \in Events(ch), NEW ch2, ch2 = ChainStep(ch, ev)
  PROVE  ChainType(ch2) /\ Later(ch, ch2)
<1>1. /\ ch.events \subseteq Event /\ ch.resolved \subseteq Event /\ ch.spots \subseteq Spot
      /\ ch.vault \in VaultType /\ ch.hold \in Nat /\ ch.resolved \subseteq ch.events
      /\ (ch.hold > 0 => ch.vault.is) /\ ch.credited \in Nat
      /\ (ch.partial => ch.credited = ch.hold)
  BY DEF ChainType
<1>0. ChainMoves(ch, ev, ch2)
  BY ChainShape, Zenon
<1>2. /\ ch2.vault \in VaultType
      /\ (ch.vault.is => ch2.vault.is)
  <2>1. CASE ev.t \in {"vault", "deposited", "permission", "closed"}
    <3>1. ev.t = "vault" \/ ch.vault.is
      BY <2>1, EventCases
    <3>2. ch2.vault = VaultStep(ch.vault, ev.t)
      BY <2>1, <1>0 DEF ChainMoves
    <3>3. VaultTurns(ch.vault, ev.t, ch2.vault)
      BY <1>1, <3>1, <3>2, VaultShape, Zenon
    <3> QED
      BY <2>1, <3>3 DEF VaultTurns
  <2>2. CASE ev.t \notin {"vault", "deposited", "permission", "closed"}
    BY <1>1, <2>2, <1>0 DEF ChainMoves
  <2> QED
    BY <2>1, <2>2
<1>3. /\ ch2.events \subseteq Event /\ ch.events \subseteq ch2.events
      /\ ch2.resolved \subseteq ch2.events /\ ch.resolved \subseteq ch2.resolved
  <2>1. CASE ev.t = "event"
    BY <1>1, <2>1, <1>0, EventCases DEF ChainMoves
  <2>2. CASE ev.t = "resolved"
    BY <1>1, <2>2, <1>0, EventCases DEF ChainMoves
  <2>3. CASE ev.t \notin {"event", "resolved"}
    BY <1>1, <2>3, <1>0 DEF ChainMoves
  <2> QED
    BY <2>1, <2>2, <2>3
<1>4. ch2.spots \subseteq Spot /\ ch.spots \subseteq ch2.spots
  <2>1. CASE ev.t = "spot"
    BY <1>1, <2>1, <1>0, EventCases DEF ChainMoves
  <2>2. CASE ev.t # "spot"
    BY <1>1, <2>2, <1>0 DEF ChainMoves
  <2> QED
    BY <2>1, <2>2
<1>5. ch2.hold \in Nat /\ (ch2.hold > 0 => ch2.vault.is)
  <2>1. CASE ev.t = "bought"
    BY <1>1, <1>2, <2>1, <1>0, EventCases DEF ChainMoves
  <2>2. CASE ev.t = "sold"
    BY <1>1, <1>2, <2>2, <1>0, EventCases DEF ChainMoves
  <2>3. CASE ev.t \notin {"bought", "sold"}
    BY <1>1, <1>2, <2>3, <1>0 DEF ChainMoves, Fills
  <2> QED
    BY <2>1, <2>2, <2>3
<1>10. ch2.credited \in Nat /\ (ch2.partial => ch2.credited = ch2.hold)
  <2>1. CASE ev.t = "bought"
    BY <1>1, <2>1, <1>0 DEF ChainMoves, Fills
  <2>2. CASE ev.t = "sold"
    <3>1. ch.hold > 0
      BY <2>2, EventCases
    <3> QED
      BY <1>1, <2>2, <1>0, <3>1 DEF ChainMoves, Fills, Clamped
  <2>3. CASE ev.t \notin {"bought", "sold"}
    BY <1>1, <2>3, <1>0 DEF ChainMoves, Fills
  <2> QED
    BY <2>1, <2>2, <2>3
<1>6. ch2 = [events |-> ch2.events, resolved |-> ch2.resolved, spots |-> ch2.spots,
             vault |-> ch2.vault, hold |-> ch2.hold, credited |-> ch2.credited,
             partial |-> ch2.partial]
  BY <1>0 DEF ChainMoves
<1>7. PICK a, b, c, d, h, x, y :
        /\ a = ch2.events /\ b = ch2.resolved /\ c = ch2.spots /\ d = ch2.vault
        /\ h = ch2.hold /\ x = ch2.credited /\ y = ch2.partial
  OBVIOUS
<1>8. ch2 = [events |-> a, resolved |-> b, spots |-> c, vault |-> d, hold |-> h,
             credited |-> x, partial |-> y]
  BY <1>6, <1>7, Zenon
<1>11. y \in BOOLEAN
  BY <1>0, <1>7 DEF ChainMoves
<1>9. ch2 \in [events : SUBSET Event, resolved : SUBSET Event, spots : SUBSET Spot,
               vault : VaultType, hold : Nat, credited : Nat, partial : BOOLEAN]
  BY <1>2, <1>3, <1>4, <1>5, <1>7, <1>8, <1>10, <1>11
<1> QED
  BY <1>2, <1>3, <1>4, <1>5, <1>9, <1>10 DEF ChainType, Later
-----------------------------------------------------------------------------
(* One block, applied to a memory. *)

(* The next block, for the first time or again on the way to top. *)
NextTop(ch, ch2, top, top2) == (top2 = top /\ Later(ch2, top)) \/ (top = ch /\ top2 = ch2)

(* A vault that is there stays there. *)
LEMMA TopHasVault ==
  ASSUME NEW ch, NEW ch2, NEW top, NEW top2, NextTop(ch, ch2, top, top2), ch2.vault.is
  PROVE  top2.vault.is /\ (ch.vault.is => top.vault.is)
<1>1. CASE top2 = top /\ Later(ch2, top)
  <2>1. top.vault.is
    BY <1>1 DEF Later
  <2> QED
    BY <1>1, <2>1
<1>2. CASE top = ch /\ top2 = ch2
  BY <1>2
<1> QED
  BY <1>1, <1>2 DEF NextTop

(* Parts of the state that a block leaves alone stay as near to the chain. *)
LEMMA PartsStay ==
  ASSUME NEW ch, NEW ch2, NEW top, NEW top2, NEW L, NextTop(ch, ch2, top, top2)
  PROVE  /\ \A f, g : /\ EventsNear(f, ch, top, L)
                      /\ ch2.events = ch.events /\ ch2.resolved = ch.resolved
                      /\ \A e \in Event : StateOf(g, e) = StateOf(f, e)
                      => EventsNear(g, ch2, top2, L)
         /\ \A v : VaultExact(v, ch, top, L) /\ ch2.vault = ch.vault => VaultExact(v, ch2, top2, L)
         /\ \A h, twice : HoldExact(h, ch, L, twice) /\ ch2.credited = ch.credited => HoldExact(h, ch2, L, twice)
<1>1. ASSUME NEW f, NEW g, EventsNear(f, ch, top, L),
             ch2.events = ch.events, ch2.resolved = ch.resolved,
             \A e \in Event : StateOf(g, e) = StateOf(f, e)
      PROVE  EventsNear(g, ch2, top2, L)
  <2>1. \A e \in Event : ChainState(ch2, e) = ChainState(ch, e)
    BY <1>1 DEF ChainState
  <2>2. \A e \in Event : ChainState(top2, e) = ChainState(top, e)
    BY <2>1 DEF NextTop
  <2> QED
    BY <1>1, <2>1, <2>2 DEF EventsNear
<1>2. ASSUME NEW v, VaultExact(v, ch, top, L), ch2.vault = ch.vault
      PROVE  VaultExact(v, ch2, top2, L)
  <2>1. top2.vault = top.vault
    BY <1>2 DEF NextTop
  <2> QED
    BY <1>2, <2>1 DEF VaultExact
<1>3. ASSUME NEW h, NEW twice, HoldExact(h, ch, L, twice), ch2.credited = ch.credited
      PROVE  HoldExact(h, ch2, L, twice)
  BY <1>3 DEF HoldExact
<1> QED
  BY <1>1, <1>2, <1>3

(* A change that only adds spot markets and names. *)
Kept(m, m2) ==
  /\ m2.slugs = m.slugs /\ m2.vault = m.vault /\ m2.hold = m.hold
  /\ \A e \in Event : Same(m.markets, m2.markets, EventId(e))
  /\ DOMAIN m.markets \subseteq DOMAIN m2.markets /\ DOMAIN m.s2m \subseteq DOMAIN m2.s2m
  /\ DOMAIN m.names \subseteq DOMAIN m2.names

(* A row is the same when what it is made from is. *)
LEMMA RowSame ==
  ASSUME NEW m, NEW m2, MemType(m), MemType(m2), NEW id, id \notin {Shell(s) : s \in Spot},
         \A e \in Event : id = EventId(e) => Same(m.markets, m2.markets, id),
         id = Vault => m2.vault = m.vault, id = Holding => m2.hold = m.hold
  PROVE  Same(RowsOf(m), RowsOf(m2), id)
<1>1. CASE id \in MarketId
  <2>1. PICK e \in Event : id = EventId(e)
    BY <1>1, IdFacts
  <2>2. Same(m.markets, m2.markets, id)
    BY <2>1
  <2>3. Same(m.markets, RowsOf(m), id) /\ Same(m2.markets, RowsOf(m2), id)
    BY <1>1, RowsOfDomain
  <2> QED
    BY <2>2, <2>3 DEF Same
<1>2. CASE id = Vault
  BY <1>2, RowsOfDomain DEF Same
<1>3. CASE id = Holding
  <2>1. m2.hold = m.hold
    BY <1>3
  <2>2. Holding \in DOMAIN RowsOf(m) <=> Holding \in DOMAIN RowsOf(m2)
    BY <2>1, RowsOfDomain
  <2>3. /\ Holding \in DOMAIN RowsOf(m) => RowsOf(m)[Holding] = [amount |-> m.hold]
        /\ Holding \in DOMAIN RowsOf(m2) => RowsOf(m2)[Holding] = [amount |-> m2.hold]
    BY RowsOfDomain
  <2> QED
    BY <1>3, <2>1, <2>2, <2>3 DEF Same
<1>4. CASE id \notin MarketId \union {Vault, Holding}
  BY <1>4, RowsOfDomain DEF Same
<1> QED
  BY <1>1, <1>2, <1>3, <1>4

(* It adds at most rows of shells. *)
LEMMA KeptRows ==
  ASSUME NEW m, NEW m2, MemType(m), MemType(m2), Kept(m, m2)
  PROVE  /\ \A id : id \notin {Shell(s) : s \in Spot} => Same(RowsOf(m), RowsOf(m2), id)
         /\ DOMAIN RowsOf(m) \subseteq DOMAIN RowsOf(m2)
<1>1. ASSUME NEW id, id \notin {Shell(s) : s \in Spot}
      PROVE  Same(RowsOf(m), RowsOf(m2), id)
  BY <1>1, RowSame DEF Kept
<1>2. DOMAIN RowsOf(m) \subseteq DOMAIN RowsOf(m2)
  <2>1. DOMAIN m.markets \subseteq DOMAIN m2.markets
    BY DEF Kept
  <2>2. ASSUME NEW id \in MarketId, id \in DOMAIN RowsOf(m)
        PROVE  id \in DOMAIN RowsOf(m2)
    BY <2>1, <2>2, RowsOfDomain DEF Same
  <2>3. ASSUME NEW id \in DOMAIN RowsOf(m), id \notin MarketId
        PROVE  id \in DOMAIN RowsOf(m2)
    BY <1>1, <2>3, IdFacts DEF Same
  <2> QED
    BY <2>2, <2>3
<1> QED
  BY <1>1, <1>2

(* And it leaves the memory good. *)
LEMMA KeptOK ==
  ASSUME NEW m, NEW ch, NEW top, NEW L, NEW O, NEW twice, MemOK(m, ch, top, L, O, twice),
         NEW m2, MemType(m2), Kept(m, m2), NEW O2, Bound(m2, O2),
         NEW ch2, NEW top2, NextTop(ch, ch2, top, top2), SpotsIn(m2, ch2, L),
         ch2.events = ch.events, ch2.resolved = ch.resolved, ch2.vault = ch.vault,
         ch2.credited = ch.credited
  PROVE  MemOK(m2, ch2, top2, L, O2, twice)
<1>1. MemType(m) /\ SlugBack(m) /\ (NoEvent(L) => SlugFound(m)) /\ MemExact(m, ch, top, L, twice)
  BY RowsOfExact DEF MemOK
<1>2. SlugBack(m2)
  BY <1>1 DEF SlugBack, Kept, Same
<1>3. SlugFound(m) => SlugFound(m2)
  BY DEF SlugFound, Kept, Same
<1>4. \A e \in Event : StateOf(m2.markets, e) = StateOf(m.markets, e)
  BY DEF StateOf, Kept, Same
<1>5. MemExact(m2, ch2, top2, L, twice)
  <2>1. EventsNear(m2.markets, ch2, top2, L)
    BY <1>1, <1>4, PartsStay DEF MemExact
  <2>2. VaultExact(m2.vault, ch2, top2, L)
    BY <1>1, PartsStay DEF MemExact, Kept
  <2>3. HoldExact(m2.hold, ch2, L, twice)
    BY <1>1, PartsStay DEF MemExact, Kept
  <2> QED
    BY <2>1, <2>2, <2>3 DEF MemExact
<1> QED
  BY <1>1, <1>2, <1>3, <1>5, RowsOfExact DEF MemOK

(* A shell that is inserted where no event has the spot, or known as an orphan. *)
LEMMA Inserted ==
  ASSUME NEW m, MemType(m), NEW O, Bound(m, O), NEW s \in Spot, IsOtherLeg(m, s) => s \in O,
         NEW m2, m2 = InsertShell(m, s)
  PROVE  MemType(m2) /\ Kept(m, m2) /\ Bound(m2, O) /\ s \in DOMAIN m2.s2m
<1>1. /\ DOMAIN m2 = Fields
      /\ DOMAIN m2.markets = DOMAIN m.markets \union {Shell(s)}
      /\ \A id \in DOMAIN m2.markets :
           m2.markets[id] = IF id \in DOMAIN m.markets THEN m.markets[id] ELSE ShellRow
      /\ DOMAIN m2.s2m = DOMAIN m.s2m \union {s}
      /\ \A r \in DOMAIN m2.s2m :
           m2.s2m[r] = IF r \in DOMAIN m.s2m THEN m.s2m[r] ELSE Shell(s)
      /\ m2.slugs = m.slugs /\ m2.names = m.names /\ m2.vault = m.vault /\ m2.hold = m.hold
  BY ShellShape
<1>2. /\ \A e, r : EventId(e) # Shell(r)
      /\ \A r, t : Shell(r) = Shell(t) => r = t
      /\ \A e \in Event : EventId(e).k # "spot"
      /\ Shell(s) \in MarketId
  BY IdFacts
<1>3. MarketsType(m2.markets)
  <2>1. MarketsType(m.markets)
    BY DEF MemType
  <2>2. DOMAIN m2.markets \subseteq MarketId
    BY <1>1, <1>2, <2>1 DEF MarketsType
  <2>3. \A e \in Event : EventId(e) \in DOMAIN m2.markets => m2.markets[EventId(e)] \in RowType
    BY <1>1, <1>2, <2>1 DEF MarketsType
  <2>4. \A r \in Spot : Shell(r) \in DOMAIN m2.markets => m2.markets[Shell(r)] = ShellRow
    BY <1>1, <1>2, <2>1 DEF MarketsType
  <2> QED
    BY <2>2, <2>3, <2>4 DEF MarketsType
<1>4. MemType(m2)
  BY <1>1, <1>2, <1>3 DEF MemType
<1>5. Kept(m, m2)
  BY <1>1, <1>2 DEF Kept, Same
<1>6. ASSUME NEW e \in Event, EventId(e) \in DOMAIN m2.markets, NEW r \in Legs(e), r \notin O
      PROVE  r \in DOMAIN m2.s2m /\ m2.s2m[r] = EventId(e) /\ Shell(r) \notin DOMAIN m2.markets
  <2>1. EventId(e) \in DOMAIN m.markets
    BY <1>1, <1>2, <1>6
  <2>2. r \in DOMAIN m.s2m /\ m.s2m[r] = EventId(e) /\ Shell(r) \notin DOMAIN m.markets
    BY <1>6, <2>1 DEF Bound
  <2>3. r # s
    BY <1>2, <1>6, <2>1, <2>2 DEF IsOtherLeg, lookup_spot_market
  <2> QED
    BY <1>1, <1>2, <2>2, <2>3
<1> QED
  BY <1>1, <1>4, <1>5, <1>6 DEF Bound

(* A name that is inserted for a spot market that has it. *)
LEMMA NameInserted ==
  ASSUME NEW m, MemType(m), NEW O, Bound(m, O), NEW s \in Spot, NEW name, name = NameOf[s],
         NEW m2, m2 = InsertName(m, s, name)
  PROVE  /\ MemType(m2) /\ Kept(m, m2) /\ Bound(m2, O) /\ name \in DOMAIN m2.names
         /\ m2.s2m = m.s2m /\ m2.markets = m.markets
<1>1. PICK f : f = Put(m.names, name, s)
  OBVIOUS
<1>2. m2 = [m EXCEPT !.names = f]
  BY <1>1 DEF InsertName
<1>3. /\ DOMAIN m2 = Fields /\ m2.markets = m.markets /\ m2.slugs = m.slugs /\ m2.s2m = m.s2m
      /\ m2.names = f /\ m2.vault = m.vault /\ m2.hold = m.hold
  BY <1>2 DEF MemType, Fields
<1>4. /\ DOMAIN f = DOMAIN m.names \union {name}
      /\ \A x \in DOMAIN f : f[x] = IF x = name THEN s ELSE m.names[x]
  BY <1>1 DEF Put
<1>5. NamesType(f)
  BY <1>4 DEF MemType, NamesType
<1> QED
  BY <1>3, <1>4, <1>5 DEF MemType, Kept, Bound, Same

(* A shell, if the spot market is not a leg. *)
LEMMA ShellRegistered ==
  ASSUME NEW m, MemType(m), NEW O, Bound(m, O), NEW s \in Spot, NEW m2, m2 = RegisterShell(m, s)
  PROVE  MemType(m2) /\ Kept(m, m2) /\ Bound(m2, O) /\ s \in DOMAIN m2.s2m
<1>1. CASE IsOtherLeg(m, s)
  <2>1. m2 = m
    BY <1>1 DEF RegisterShell
  <2> QED
    BY <1>1, <2>1 DEF Kept, Same, IsOtherLeg, lookup_spot_market
<1>2. CASE ~ IsOtherLeg(m, s)
  <2>1. m2 = InsertShell(m, s)
    BY <1>2 DEF RegisterShell
  <2> QED
    BY <1>2, <2>1, Inserted
<1> QED
  BY <1>1, <1>2

(* Kept is transitive. *)
LEMMA KeptTwice ==
  ASSUME NEW a, NEW b, NEW c, Kept(a, b), Kept(b, c)
  PROVE  Kept(a, c)
BY DEF Kept, Same

(* register_named_spot_market and ensure_standalone_spot_market. *)
LEMMA Registered ==
  ASSUME NEW m, MemType(m), NEW O, Bound(m, O), NEW s \in Spot
  PROVE  /\ \A m2 : m2 = register_named_spot_market(m, s, NameOf[s]) =>
              /\ MemType(m2) /\ Kept(m, m2) /\ Bound(m2, O)
              /\ NameOf[s] # NoName => s \in DOMAIN m2.s2m /\ NameOf[s] \in DOMAIN m2.names
         /\ \A m2 : m2 = ensure_standalone_spot_market(m, s) =>
              MemType(m2) /\ Kept(m, m2) /\ Bound(m2, O)
<1>0. Kept(m, m)
  BY DEF Kept, Same
<1>1. ASSUME NEW m2, m2 = register_named_spot_market(m, s, NameOf[s])
      PROVE  /\ MemType(m2) /\ Kept(m, m2) /\ Bound(m2, O)
             /\ NameOf[s] # NoName => s \in DOMAIN m2.s2m /\ NameOf[s] \in DOMAIN m2.names
  <2>1. CASE NameOf[s] = NoName
    <3>1. m2 = m
      BY <1>1, <2>1 DEF register_named_spot_market
    <3> QED
      BY <1>0, <2>1, <3>1
  <2>2. CASE NameOf[s] # NoName
    <3>1. PICK n1, name : name = NameOf[s] /\ n1 = InsertName(m, s, name)
      OBVIOUS
    <3>2. m2 = RegisterShell(n1, s)
      BY <1>1, <2>2, <3>1 DEF register_named_spot_market
    <3>3. MemType(n1) /\ Kept(m, n1) /\ Bound(n1, O) /\ name \in DOMAIN n1.names
      BY <3>1, NameInserted
    <3>4. MemType(m2) /\ Kept(n1, m2) /\ Bound(m2, O) /\ s \in DOMAIN m2.s2m
      BY <3>2, <3>3, ShellRegistered
    <3>5. Kept(m, m2)
      BY <3>3, <3>4, KeptTwice
    <3>6. name \in DOMAIN m2.names
      BY <3>3, <3>4 DEF Kept
    <3> QED
      BY <3>1, <3>4, <3>5, <3>6
  <2> QED
    BY <2>1, <2>2
<1>2. ASSUME NEW m2, m2 = ensure_standalone_spot_market(m, s)
      PROVE  MemType(m2) /\ Kept(m, m2) /\ Bound(m2, O)
  <2>1. CASE lookup_spot_market(m, s)
    <3>1. m2 = m
      BY <1>2, <2>1 DEF ensure_standalone_spot_market
    <3> QED
      BY <1>0, <3>1
  <2>2. CASE ~ lookup_spot_market(m, s)
    <3>1. m2 = RegisterShell(m, s)
      BY <1>2, <2>2 DEF ensure_standalone_spot_market
    <3> QED
      BY <3>1, ShellRegistered
  <2> QED
    BY <2>1, <2>2
<1> QED
  BY <1>1, <1>2

(* As many slugs as events at most. *)
LEMMA SlugsFinite ==
  ASSUME NEW m, SlugBack(m)
  PROVE  IsFiniteSet(DOMAIN m.slugs)
<1> DEFINE F == [x \in DOMAIN m.slugs |-> m.slugs[x]]
<1>1. F \in [DOMAIN m.slugs -> Event]
  BY DEF SlugBack
<1>2. \A x, y \in DOMAIN m.slugs : F[x] = F[y] => x = y
  BY DEF SlugBack
<1>3. DOMAIN F = DOMAIN m.slugs
  OBVIOUS
<1> HIDE DEF F
<1>4. F \in Injection(DOMAIN m.slugs, Event)
  BY <1>1, <1>2, <1>3 DEF Injection, IsInjective
<1> QED
  BY <1>4, FS_Injection, RegistryAssumption

(* event_contract_created: a fresh slug and both legs, whatever was there. *)
LEMMA CreatedOK ==
  ASSUME NEW m, NEW ch, NEW top, NEW L, NEW O, NEW twice, MemOK(m, ch, top, L, O, twice),
         NEW e \in Event, e \notin ch.resolved, NEW m2, m2 = index_market_created(m, e),
         NEW ch2, NEW top2, NextTop(ch, ch2, top, top2),
         ch2.events = ch.events \union {e}, ch2.resolved = ch.resolved, ch2.spots = ch.spots,
         ch2.vault = ch.vault, ch2.credited = ch.credited
  PROVE  MemOK(m2, ch2, top2, L, O, twice)
<1> DEFINE slug == allocate_unique_slug(DOMAIN m.slugs, Question[e])
           row == Row(slug, "Active")
<1>1. /\ MemType(m) /\ SlugBack(m) /\ (NoEvent(L) => SlugFound(m)) /\ MemExact(m, ch, top, L, twice)
      /\ Bound(m, O) /\ SpotsIn(m, ch, L)
  BY RowsOfExact DEF MemOK
<1>2. slug \notin DOMAIN m.slugs /\ slug \in Seq(Nat)
  <2>1. Question[e] \in Seq(Nat)
    BY RegistryAssumption
  <2> QED
    BY <1>1, <2>1, SlugsFinite, FreshSlug
<1> HIDE DEF slug
<1>3. row \in RowType /\ row.slug = slug /\ row.state = "Active"
  BY <1>2 DEF RowType, Row
<1>4. m2 = upsert_event(m, e, row)
  BY DEF index_market_created, slug
<1> HIDE DEF row
<1>up. Upserted(m, e, row, m2)
  BY <1>1, <1>4, EventShape
<1>5. /\ DOMAIN m2 = Fields
      /\ DOMAIN m2.markets = (DOMAIN m.markets \union {EventId(e)}) \ {Shell(s) : s \in Legs(e)}
      /\ EventId(e) \in DOMAIN m2.markets /\ m2.markets[EventId(e)] = row
      /\ \A id \in DOMAIN m2.markets : id # EventId(e) => m2.markets[id] = m.markets[id]
  BY <1>up DEF Upserted
<1>6. /\ DOMAIN m2.slugs = {x \in DOMAIN m.slugs : m.slugs[x] # e} \union {slug}
      /\ m2.slugs[slug] = e
      /\ \A x \in DOMAIN m2.slugs : x # slug => m2.slugs[x] = m.slugs[x]
  BY <1>3, <1>up DEF Upserted
<1>7. /\ DOMAIN m2.s2m = DOMAIN m.s2m \union Legs(e)
      /\ \A s \in DOMAIN m2.s2m : m2.s2m[s] = IF s \in Legs(e) THEN EventId(e) ELSE m.s2m[s]
      /\ m2.names = m.names /\ m2.vault = m.vault /\ m2.hold = m.hold
  BY <1>up DEF Upserted
<1>8. /\ \A f, r : EventId(f) # Shell(r)
      /\ \A f, g : EventId(f) = EventId(g) => f = g
      /\ EventId(e) \in MarketId
  BY IdFacts
<1>9. MarketsType(m2.markets)
  <2>1. MarketsType(m.markets)
    BY <1>1 DEF MemType
  <2> QED
    BY <1>3, <1>5, <1>8, <2>1 DEF MarketsType
<1>10. MemType(m2)
  <2>1. Legs(e) \subseteq Spot
    BY LegFacts
  <2> QED
    BY <1>1, <1>5, <1>7, <1>8, <1>9, <2>1 DEF MemType
<1>11. \A f \in Event : f # e =>
         /\ EventId(f) \in DOMAIN m2.markets <=> EventId(f) \in DOMAIN m.markets
         /\ EventId(f) \in DOMAIN m.markets => m2.markets[EventId(f)] = m.markets[EventId(f)]
  BY <1>5, <1>8
<1>12. SlugBack(m2)
  BY <1>1, <1>3, <1>5, <1>6, <1>11 DEF SlugBack
<1>13. SlugFound(m) => SlugFound(m2)
  BY <1>1, <1>2, <1>3, <1>5, <1>6, <1>11 DEF SlugFound
<1>14. Bound(m2, O)
  <2>1. ASSUME NEW f \in Event, EventId(f) \in DOMAIN m2.markets, NEW s \in Legs(f), s \notin O
        PROVE  s \in DOMAIN m2.s2m /\ m2.s2m[s] = EventId(f) /\ Shell(s) \notin DOMAIN m2.markets
    <3>1. CASE f = e
      BY <1>5, <1>7, <2>1, <3>1
    <3>2. CASE f # e
      <4>1. s \notin Legs(e)
        BY <2>1, <3>2, LegFacts
      <4>2. s \in DOMAIN m.s2m /\ m.s2m[s] = EventId(f) /\ Shell(s) \notin DOMAIN m.markets
        BY <1>1, <1>11, <2>1, <3>2 DEF Bound
      <4> QED
        BY <1>5, <1>7, <1>8, <4>1, <4>2
    <3> QED
      BY <3>1, <3>2
  <2> QED
    BY <2>1 DEF Bound
<1>15. SpotsIn(m2, ch2, L)
  BY <1>1, <1>7 DEF SpotsIn
<1>16. EventsNear(m2.markets, ch2, top2, L)
  <2>1. ASSUME NEW f \in Event, EventId(f) \notin L
        PROVE  \/ StateOf(m2.markets, f) = ChainState(ch2, f)
               \/ StateOf(m2.markets, f) = ChainState(top2, f)
    <3>1. CASE f = e
      BY <1>3, <1>5, <3>1 DEF StateOf, ChainState
    <3>2. CASE f # e
      <4>1. StateOf(m2.markets, f) = StateOf(m.markets, f)
        BY <1>11, <3>2 DEF StateOf
      <4>2. ChainState(ch2, f) = ChainState(ch, f)
        BY <3>2 DEF ChainState
      <4>3. ChainState(top2, f) = ChainState(top, f)
        BY <4>2 DEF NextTop
      <4> QED
        BY <1>1, <2>1, <4>1, <4>2, <4>3 DEF MemExact, EventsNear
    <3> QED
      BY <3>1, <3>2
  <2> QED
    BY <2>1 DEF EventsNear
<1>17. MemExact(m2, ch2, top2, L, twice)
  BY <1>1, <1>7, <1>16, PartsStay DEF MemExact
<1> QED
  BY <1>1, <1>10, <1>12, <1>13, <1>14, <1>15, <1>17, RowsOfExact DEF MemOK

(* The rows that an event may change. *)
Moved(m, m2, ev) ==
  /\ \A id : id \notin {Shell(s) : s \in Spot} \union Touched(ev) => Same(RowsOf(m), RowsOf(m2), id)
  /\ \A e \in Event : EventId(e) \in DOMAIN m.markets => EventId(e) \in DOMAIN m2.markets
  /\ DOMAIN m.names \subseteq DOMAIN m2.names
  /\ ev.t = "spot" => NameOf[ev.n] = NoName \/ NameOf[ev.n] \in DOMAIN m2.names

(* market_created and order_created. *)
LEMMA SpotStep ==
  ASSUME NEW m, NEW ch, NEW top, NEW L, NEW O, NEW twice, MemOK(m, ch, top, L, O, twice),
         ChainType(ch), NEW ev \in Events(ch), ev.t \in {"spot", "order"},
         NEW ch2, ch2 = ChainStep(ch, ev), NEW top2, NextTop(ch, ch2, top, top2),
         NEW m2, m2 = apply_global_event(m, ev, ch2)
  PROVE  MemOK(m2, ch2, top2, L, O, twice) /\ Moved(m, m2, ev)
<1>1. MemType(m) /\ Bound(m, O) /\ SpotsIn(m, ch, L)
  BY DEF MemOK
<1>2. ev.n \in Spot
  BY EventCases DEF ChainType
<1>3. /\ ev.t = "spot" => m2 = register_named_spot_market(m, ev.n, NameOf[ev.n])
      /\ ev.t = "order" => m2 = ensure_standalone_spot_market(m, ev.n)
  BY DEF apply_global_event, index_spot_market_created, index_order_created, Fills
<1>4. /\ MemType(m2) /\ Kept(m, m2) /\ Bound(m2, O)
      /\ ev.t = "spot" /\ NameOf[ev.n] # NoName =>
           ev.n \in DOMAIN m2.s2m /\ NameOf[ev.n] \in DOMAIN m2.names
  <2>1. CASE ev.t = "spot"
    BY <1>1, <1>2, <1>3, <2>1, Registered
  <2>2. CASE ev.t = "order"
    BY <1>1, <1>2, <1>3, <2>2, Registered
  <2> QED
    BY <2>1, <2>2
<1>5. ChainMoves(ch, ev, ch2)
  BY ChainShape, Zenon
<1>6. SpotsIn(m2, ch2, L)
  BY <1>1, <1>4, <1>5 DEF SpotsIn, ChainMoves, Kept
<1>7. /\ ch2.events = ch.events /\ ch2.resolved = ch.resolved /\ ch2.vault = ch.vault
      /\ ch2.credited = ch.credited
  BY <1>5 DEF ChainMoves, Fills
<1>8. MemOK(m2, ch2, top2, L, O, twice)
  BY <1>4, <1>6, <1>7, KeptOK
<1>9. Moved(m, m2, ev)
  BY <1>1, <1>4, KeptRows DEF Moved, Kept, Same
<1> QED
  BY <1>8, <1>9

(* event_contract_created. *)
LEMMA CreatedStep ==
  ASSUME NEW m, NEW ch, NEW top, NEW L, NEW O, NEW twice, MemOK(m, ch, top, L, O, twice),
         ChainType(ch), NEW ev \in Events(ch), ev.t = "event",
         NEW ch2, ch2 = ChainStep(ch, ev), NEW top2, NextTop(ch, ch2, top, top2),
         NEW m2, m2 = apply_global_event(m, ev, ch2)
  PROVE  MemOK(m2, ch2, top2, L, O, twice) /\ Moved(m, m2, ev)
<1>1. ev.n \in Event /\ ev.n \notin ch.resolved
  BY EventCases DEF ChainType
<1>2. m2 = index_market_created(m, ev.n)
  BY DEF apply_global_event, Fills
<1>3. ChainMoves(ch, ev, ch2)
  BY ChainShape, Zenon
<1>4. /\ ch2.events = ch.events \union {ev.n} /\ ch2.resolved = ch.resolved
      /\ ch2.spots = ch.spots /\ ch2.vault = ch.vault /\ ch2.credited = ch.credited
  BY <1>3 DEF ChainMoves, Fills
<1>5. MemOK(m2, ch2, top2, L, O, twice)
  BY <1>1, <1>2, <1>4, CreatedOK
<1>6. MemType(m) /\ MemType(m2)
  BY <1>5 DEF MemOK
<1>7. PICK row : m2 = upsert_event(m, ev.n, row)
  BY <1>2 DEF index_market_created
<1>8. Upserted(m, ev.n, row, m2)
  BY <1>1, <1>6, <1>7, EventShape
<1>9. \A f, g, r : EventId(f) # Shell(r) /\ (EventId(f) = EventId(g) => f = g)
  BY IdFacts
<1>10. \A f \in Event : f # ev.n => Same(m.markets, m2.markets, EventId(f))
  BY <1>8, <1>9 DEF Upserted, Same
<1>11. Touched(ev) = {EventId(ev.n)}
  BY DEF Touched, Fills
<1>12. m2.vault = m.vault /\ m2.hold = m.hold /\ m2.names = m.names
  BY <1>8 DEF Upserted
<1>13. ASSUME NEW id, id \notin {Shell(s) : s \in Spot} \union Touched(ev)
       PROVE  Same(RowsOf(m), RowsOf(m2), id)
  <2>1. \A e \in Event : id = EventId(e) => Same(m.markets, m2.markets, id)
    BY <1>10, <1>11, <1>13
  <2> QED
    BY <1>6, <1>12, <1>13, <2>1, RowSame
<1>14. \A e \in Event : EventId(e) \in DOMAIN m.markets => EventId(e) \in DOMAIN m2.markets
  BY <1>8, <1>10 DEF Same, Upserted
<1> QED
  BY <1>5, <1>12, <1>13, <1>14 DEF Moved

(* event_contract_resolved: an event that is there is resolved. *)
LEMMA ResolvedStep ==
  ASSUME NEW m, NEW ch, NEW top, NEW L, NEW O, NEW twice, MemOK(m, ch, top, L, O, twice),
         ChainType(ch), NEW ev \in Events(ch), ev.t = "resolved",
         NEW ch2, ch2 = ChainStep(ch, ev), NEW top2, NextTop(ch, ch2, top, top2),
         NEW m2, m2 = apply_global_event(m, ev, ch2)
  PROVE  MemOK(m2, ch2, top2, L, O, twice) /\ Moved(m, m2, ev)
<1> DEFINE e == ev.n
<1>1. e \in Event /\ e \in ch.events /\ e \notin ch.resolved
  BY EventCases DEF ChainType
<1>2. m2 = update_market_state(m, e, "Resolved")
  BY DEF apply_global_event, Fills
<1>3. ChainMoves(ch, ev, ch2)
  BY ChainShape, Zenon
<1>4. /\ ch2.events = ch.events /\ ch2.resolved = ch.resolved \union {e}
      /\ ch2.spots = ch.spots /\ ch2.vault = ch.vault /\ ch2.credited = ch.credited
  BY <1>3 DEF ChainMoves, Fills
<1> HIDE DEF e
<1>5. /\ MemType(m) /\ SlugBack(m) /\ (NoEvent(L) => SlugFound(m)) /\ MemExact(m, ch, top, L, twice)
      /\ Bound(m, O) /\ SpotsIn(m, ch, L)
  BY RowsOfExact DEF MemOK
<1>6. /\ DOMAIN m2 = Fields /\ DOMAIN m2.markets = DOMAIN m.markets
      /\ \A id \in DOMAIN m.markets : id # EventId(e) => m2.markets[id] = m.markets[id]
      /\ m2.slugs = m.slugs /\ m2.s2m = m.s2m /\ m2.names = m.names /\ m2.vault = m.vault
      /\ m2.hold = m.hold
      /\ EventId(e) \in DOMAIN m.markets =>
           /\ m2.markets[EventId(e)] \in RowType
           /\ m2.markets[EventId(e)].slug = m.markets[EventId(e)].slug
           /\ m2.markets[EventId(e)].state = "Resolved"
  <2>1. CASE EventId(e) \notin DOMAIN m.markets
    BY <1>2, <1>5, <2>1 DEF update_market_state, MemType
  <2>2. CASE EventId(e) \in DOMAIN m.markets
    <3>1. m2 = [m EXCEPT !.markets[EventId(e)].state = "Resolved"]
      BY <1>2, <2>2 DEF update_market_state
    <3>2. PICK row : row = [m.markets[EventId(e)] EXCEPT !.state = "Resolved"]
      OBVIOUS
    <3>3. PICK mk : mk = [m.markets EXCEPT ![EventId(e)] = row]
      OBVIOUS
    <3>4. m2 = [m EXCEPT !.markets = mk]
      BY <3>1, <3>2, <3>3
    <3>5. DOMAIN m = Fields /\ m.markets[EventId(e)] \in RowType
      BY <1>1, <1>5, <2>2 DEF MemType, MarketsType
    <3>6. row \in RowType /\ row.slug = m.markets[EventId(e)].slug /\ row.state = "Resolved"
      BY <3>2, <3>5 DEF RowType
    <3>7. /\ DOMAIN m2 = Fields /\ m2.markets = mk /\ m2.slugs = m.slugs /\ m2.s2m = m.s2m
          /\ m2.names = m.names /\ m2.vault = m.vault /\ m2.hold = m.hold
      BY <3>4, <3>5 DEF Fields
    <3> QED
      BY <2>2, <3>3, <3>6, <3>7
  <2> QED
    BY <2>1, <2>2
<1>7. \A f, g, r : EventId(f) # Shell(r) /\ (EventId(f) = EventId(g) => f = g)
  BY IdFacts
<1>8. MemType(m2)
  <2>1. MarketsType(m.markets)
    BY <1>5 DEF MemType
  <2>2. MarketsType(m2.markets)
    BY <1>6, <1>7, <2>1 DEF MarketsType
  <2> QED
    BY <1>5, <1>6, <2>2 DEF MemType
<1>9. \A f \in Event : f # e => Same(m.markets, m2.markets, EventId(f))
  BY <1>6, <1>7 DEF Same
<1>10. \A f \in Event : EventId(f) \in DOMAIN m.markets =>
         m2.markets[EventId(f)].slug = m.markets[EventId(f)].slug
  BY <1>6, <1>7
<1>11. SlugBack(m2)
  BY <1>5, <1>6, <1>10 DEF SlugBack
<1>12. SlugFound(m) => SlugFound(m2)
  BY <1>6, <1>10 DEF SlugFound
<1>13. Bound(m2, O) /\ SpotsIn(m2, ch2, L)
  BY <1>4, <1>5, <1>6 DEF Bound, SpotsIn
<1>14. EventsNear(m2.markets, ch2, top2, L)
  <2>1. EventsNear(m.markets, ch, top, L)
    BY <1>5 DEF MemExact
  <2>2. ASSUME NEW f \in Event, EventId(f) \notin L
        PROVE  \/ StateOf(m2.markets, f) = ChainState(ch2, f)
               \/ StateOf(m2.markets, f) = ChainState(top2, f)
    <3>1. CASE f = e
      <4>1. ChainState(ch, e) = "Active" /\ ChainState(ch2, e) = "Resolved"
        BY <1>1, <1>4 DEF ChainState
      <4>2. ChainState(top, e) \in {"Active", "Resolved"}
        <5>1. CASE top = ch
          BY <4>1, <5>1
        <5>2. CASE Later(ch2, top)
          BY <1>4, <5>2 DEF Later, ChainState
        <5> QED
          BY <5>1, <5>2 DEF NextTop
      <4>3. StateOf(m.markets, e) # "none"
        BY <1>1, <2>1, <2>2, <3>1, <4>1, <4>2 DEF EventsNear
      <4>4. EventId(e) \in DOMAIN m.markets
        BY <4>3 DEF StateOf
      <4> QED
        BY <1>6, <3>1, <4>1, <4>4 DEF StateOf
    <3>2. CASE f # e
      <4>1. StateOf(m2.markets, f) = StateOf(m.markets, f)
        BY <1>9, <3>2 DEF StateOf, Same
      <4>2. ChainState(ch2, f) = ChainState(ch, f)
        BY <1>4, <3>2 DEF ChainState
      <4>3. ChainState(top2, f) = ChainState(top, f)
        BY <4>2 DEF NextTop
      <4> QED
        BY <2>1, <2>2, <4>1, <4>2, <4>3 DEF EventsNear
    <3> QED
      BY <3>1, <3>2
  <2> QED
    BY <2>2 DEF EventsNear
<1>15. MemExact(m2, ch2, top2, L, twice)
  BY <1>4, <1>5, <1>6, <1>14, PartsStay DEF MemExact
<1>16. MemOK(m2, ch2, top2, L, O, twice)
  BY <1>5, <1>8, <1>11, <1>12, <1>13, <1>15, RowsOfExact DEF MemOK
<1>17. Touched(ev) = {EventId(e)}
  BY DEF Touched, e, Fills
<1>18. ASSUME NEW id, id \notin {Shell(s) : s \in Spot} \union Touched(ev)
       PROVE  Same(RowsOf(m), RowsOf(m2), id)
  <2>1. \A f \in Event : id = EventId(f) => Same(m.markets, m2.markets, id)
    BY <1>9, <1>17, <1>18
  <2> QED
    BY <1>5, <1>6, <1>8, <1>18, <2>1, RowSame
<1> QED
  BY <1>6, <1>16, <1>18 DEF Moved

(* A change of the vault and its holding alone. *)
LEMMA VaultOnly ==
  ASSUME NEW m, NEW ch, NEW top, NEW L, NEW O, NEW twice, MemOK(m, ch, top, L, O, twice),
         NEW ch2, NEW top2, NextTop(ch, ch2, top, top2), ch2.events = ch.events,
         ch2.resolved = ch.resolved, ch2.spots = ch.spots,
         NEW m2, DOMAIN m2 = Fields, m2.markets = m.markets, m2.slugs = m.slugs,
         m2.s2m = m.s2m, m2.names = m.names, m2.vault \in VaultType, m2.hold \in Nat,
         VaultExact(m2.vault, ch2, top2, L), HoldExact(m2.hold, ch2, L, twice),
         NEW ev, ev.t # "spot",
         m2.vault = m.vault \/ Vault \in Touched(ev), m2.hold = m.hold \/ Holding \in Touched(ev)
  PROVE  MemOK(m2, ch2, top2, L, O, twice) /\ Moved(m, m2, ev)
<1>1. /\ MemType(m) /\ SlugBack(m) /\ (NoEvent(L) => SlugFound(m)) /\ MemExact(m, ch, top, L, twice)
      /\ Bound(m, O) /\ SpotsIn(m, ch, L)
  BY RowsOfExact DEF MemOK
<1>2. MemType(m2)
  BY <1>1 DEF MemType
<1>3. SlugBack(m2) /\ (SlugFound(m) => SlugFound(m2)) /\ Bound(m2, O) /\ SpotsIn(m2, ch2, L)
  BY <1>1 DEF SlugBack, SlugFound, Bound, SpotsIn
<1>4. EventsNear(m2.markets, ch2, top2, L)
  BY <1>1, PartsStay DEF MemExact
<1>5. MemOK(m2, ch2, top2, L, O, twice)
  BY <1>1, <1>2, <1>3, <1>4, RowsOfExact DEF MemOK, MemExact
<1>6. ASSUME NEW id, id \notin {Shell(s) : s \in Spot} \union Touched(ev)
      PROVE  Same(RowsOf(m), RowsOf(m2), id)
  <2>1. \A e \in Event : id = EventId(e) => Same(m.markets, m2.markets, id)
    BY DEF Same
  <2>2. (id = Vault => m2.vault = m.vault) /\ (id = Holding => m2.hold = m.hold)
    BY <1>6
  <2> QED
    BY <1>1, <1>2, <1>6, <2>1, <2>2, RowSame
<1> QED
  BY <1>5, <1>6 DEF Moved

(* The fields of a vault that is there. *)
LEMMA VaultFields ==
  ASSUME NEW v \in VaultType, v.is
  PROVE  /\ DOMAIN v = {"is", "equity", "allow", "closed"}
         /\ v \in [is : {TRUE}, equity : Nat, allow : BOOLEAN, closed : BOOLEAN]
<1>1. v # NoVault
  <2>1. NoVault.is = FALSE
    BY DEF NoVault
  <2> QED
    BY <2>1, Zenon
<1> QED
  BY <1>1 DEF VaultType

(* And of one that is not. *)
LEMMA NoVaultFacts ==
  ASSUME NEW v \in VaultType, ~ v.is
  PROVE  v.is = FALSE
<1>1. \A x \in [is : {TRUE}, equity : Nat, allow : BOOLEAN, closed : BOOLEAN] : x.is = TRUE
  OBVIOUS
<1>2. NoVault.is = FALSE
  BY DEF NoVault
<1> QED
  BY <1>1, <1>2, Zenon DEF VaultType

(* vault_created, vault_deposited, the deposit permission and vault_closed. *)
LEMMA VaultMoves ==
  ASSUME NEW m, NEW ch, NEW top, NEW L, NEW O, NEW twice, MemOK(m, ch, top, L, O, twice),
         ChainType(ch), NEW ev \in Events(ch),
         ev.t \in {"vault", "deposited", "permission", "closed"},
         NEW ch2, ch2 = ChainStep(ch, ev), NEW top2, NextTop(ch, ch2, top, top2),
         NEW m2, m2 = apply_global_event(m, ev, ch2)
  PROVE  MemOK(m2, ch2, top2, L, O, twice) /\ Moved(m, m2, ev)
<1> DEFINE w == ch2.vault
           t == ev.t
<1>1. ChainMoves(ch, ev, ch2)
  BY ChainShape, Zenon
<1>2. /\ ch2.events = ch.events /\ ch2.resolved = ch.resolved /\ ch2.spots = ch.spots
      /\ ch2.credited = ch.credited /\ w = VaultStep(ch.vault, t)
  BY <1>1 DEF ChainMoves, Fills
<1>3. MemType(m) /\ MemExact(m, ch, top, L, twice)
  BY RowsOfExact DEF MemOK
<1>4. ch.vault \in VaultType /\ (t = "vault" \/ ch.vault.is)
  BY EventCases DEF ChainType
<1>5. /\ t = "vault" => w = NewVault
      /\ t = "deposited" => w.allow = ch.vault.allow /\ w.closed = ch.vault.closed
      /\ t = "permission" => w.equity = ch.vault.equity /\ w.closed = ch.vault.closed
      /\ t = "closed" => w.equity = ch.vault.equity /\ w.allow = FALSE /\ w.closed = TRUE
      /\ w \in VaultType /\ w.is
  <2>1. VaultTurns(ch.vault, t, w)
    BY <1>2, <1>4, VaultShape, Zenon
  <2> QED
    BY <2>1 DEF VaultTurns
<1>6. top2.vault.is
  BY <1>5, TopHasVault
<1>7. m.vault \in VaultType /\ m.hold \in Nat /\ DOMAIN m = Fields
  BY <1>3 DEF MemType
<1>8. HoldExact(m.hold, ch2, L, twice)
  BY <1>2, <1>3, PartsStay DEF MemExact
<1>9. w \in [is : {TRUE}, equity : Nat, allow : BOOLEAN, closed : BOOLEAN]
  BY <1>5, VaultFields
<1>10. t # "spot" /\ Vault \in Touched(ev)
  BY DEF Touched, Fills
<1>11. ASSUME NEW x \in VaultType, VaultExact(x, ch2, top2, L), m2 = [m EXCEPT !.vault = x]
       PROVE  MemOK(m2, ch2, top2, L, O, twice) /\ Moved(m, m2, ev)
  <2>1. /\ DOMAIN m2 = Fields /\ m2.markets = m.markets /\ m2.slugs = m.slugs /\ m2.s2m = m.s2m
        /\ m2.names = m.names /\ m2.vault = x /\ m2.hold = m.hold
    BY <1>7, <1>11 DEF Fields
  <2> QED
    BY <1>2, <1>7, <1>8, <1>10, <1>11, <2>1, VaultOnly
<1>12. CASE t = "vault"
  <2>1. m2 = [m EXCEPT !.vault = NewVault]
    BY <1>12 DEF apply_global_event, index_vault_created, upsert_vault, Fills
  <2>2. VaultExact(w, ch2, top2, L)
    BY <1>5, <1>6 DEF VaultExact, VaultNear
  <2> QED
    BY <1>5, <1>11, <1>12, <2>1, <2>2
<1>13. CASE t # "vault"
  <2>1. m2 = update_vault(m, ch2, t)
    BY <1>13 DEF apply_global_event, Fills
  <2>2. ch.vault.is
    BY <1>4, <1>13
  <2>3. ASSUME Vault \notin L
        PROVE  m.vault.is /\ VaultNear(m.vault, ch.vault, top.vault) /\ top.vault.is
    <3>1. VaultNear(m.vault, ch.vault, top.vault)
      BY <1>3, <2>3 DEF MemExact, VaultExact
    <3>2. top.vault.is
      BY <1>5, <2>2, TopHasVault
    <3> QED
      BY <2>2, <3>1, <3>2 DEF VaultNear
  <2>4. CASE ~ m.vault.is
    <3>1. m2 = m
      <4>1. m.vault.is = FALSE
        BY <1>7, <2>4, NoVaultFacts
      <4> QED
        BY <2>1, <4>1 DEF update_vault
    <3>2. VaultExact(m.vault, ch2, top2, L)
      BY <2>3, <2>4 DEF VaultExact
    <3> QED
      BY <1>2, <1>3, <1>7, <1>8, <1>10, <3>1, <3>2, VaultOnly
  <2>5. CASE m.vault.is
    <3>1. m.vault \in [is : {TRUE}, equity : Nat, allow : BOOLEAN, closed : BOOLEAN]
      BY <1>7, <2>5, VaultFields
    <3>2. Vault \notin L =>
            /\ m.vault.equity = top.vault.equity \/ m.vault.equity = ch.vault.equity
            /\ m.vault.allow = top.vault.allow \/ m.vault.allow = ch.vault.allow
            /\ m.vault.closed = top.vault.closed \/ m.vault.closed = ch.vault.closed
      BY <2>3 DEF VaultNear
    <3>3. top2.vault = top.vault \/ (top.vault = ch.vault /\ top2.vault = w)
      BY DEF NextTop
    <3>4. ASSUME NEW x, x.is, Vault \notin L =>
                   /\ x.equity = top2.vault.equity \/ x.equity = w.equity
                   /\ x.allow = top2.vault.allow \/ x.allow = w.allow
                   /\ x.closed = top2.vault.closed \/ x.closed = w.closed
          PROVE  VaultExact(x, ch2, top2, L)
      <4>1. SUFFICES ASSUME Vault \notin L
                     PROVE  VaultNear(x, w, top2.vault)
        BY DEF VaultExact
      <4>2. x.is = TRUE
        <5>1. CASE x.is = top2.vault.is
          BY <1>6, <3>4, <5>1
        <5> QED
          BY <3>4
      <4> QED
        BY <1>5, <1>6, <3>4, <4>1 DEF VaultNear
    <3>5. CASE t = "deposited"
      <4>1. m2 = [m EXCEPT !.vault.equity = w.equity]
        BY <2>1, <2>5, <3>5 DEF update_vault
      <4>2. PICK x : x = [m.vault EXCEPT !.equity = w.equity]
        OBVIOUS
      <4>3. m2 = [m EXCEPT !.vault = x]
        BY <4>1, <4>2
      <4>4. /\ x \in [is : {TRUE}, equity : Nat, allow : BOOLEAN, closed : BOOLEAN]
            /\ x.equity = w.equity /\ x.allow = m.vault.allow /\ x.closed = m.vault.closed
        BY <1>9, <3>1, <4>2
      <4>5. VaultExact(x, ch2, top2, L)
        BY <1>5, <3>2, <3>3, <3>4, <3>5, <4>4
      <4> QED
        BY <1>11, <4>3, <4>4, <4>5 DEF VaultType
    <3>6. CASE t = "permission"
      <4>1. m2 = [m EXCEPT !.vault.allow = w.allow]
        BY <2>1, <2>5, <3>6 DEF update_vault
      <4>2. PICK x : x = [m.vault EXCEPT !.allow = w.allow]
        OBVIOUS
      <4>3. m2 = [m EXCEPT !.vault = x]
        BY <4>1, <4>2
      <4>4. /\ x \in [is : {TRUE}, equity : Nat, allow : BOOLEAN, closed : BOOLEAN]
            /\ x.equity = m.vault.equity /\ x.allow = w.allow /\ x.closed = m.vault.closed
        BY <1>9, <3>1, <4>2
      <4>5. VaultExact(x, ch2, top2, L)
        BY <1>5, <3>2, <3>3, <3>4, <3>6, <4>4
      <4> QED
        BY <1>11, <4>3, <4>4, <4>5 DEF VaultType
    <3>7. CASE t = "closed"
      <4>1. m2 = [m EXCEPT !.vault.closed = TRUE, !.vault.allow = FALSE]
        BY <2>1, <2>5, <3>7 DEF update_vault
      <4>2. PICK x : x = [m.vault EXCEPT !.closed = TRUE, !.allow = FALSE]
        OBVIOUS
      <4>3. m2 = [m EXCEPT !.vault = x]
        BY <1>7, <4>1, <4>2 DEF Fields
      <4>4. /\ x \in [is : {TRUE}, equity : Nat, allow : BOOLEAN, closed : BOOLEAN]
            /\ x.equity = m.vault.equity /\ x.allow = FALSE /\ x.closed = TRUE
        BY <3>1, <4>2
      <4>5. VaultExact(x, ch2, top2, L)
        BY <1>5, <3>2, <3>3, <3>4, <3>7, <4>4
      <4> QED
        BY <1>11, <4>3, <4>4, <4>5 DEF VaultType
    <3> QED
      BY <1>13, <3>5, <3>6, <3>7
  <2> QED
    BY <2>4, <2>5
<1> QED
  BY <1>12, <1>13

(* What is good stays so when more is known to be lost. *)
LEMMA ExactWeaken ==
  ASSUME NEW rows, NEW ch, NEW top, NEW L, NEW twice, NEW L2, L \subseteq L2,
         RowsExact(rows, ch, top, L, twice)
  PROVE  RowsExact(rows, ch, top, L2, twice)
BY DEF RowsExact, EventsNear, VaultExact, HoldExact

(* The same of a memory. *)
LEMMA MemWeaken ==
  ASSUME NEW m, NEW ch, NEW top, NEW L, NEW O, NEW twice, MemOK(m, ch, top, L, O, twice),
         NEW L2, L \subseteq L2
  PROVE  MemOK(m, ch, top, L2, O, twice)
<1>1. RowsExact(RowsOf(m), ch, top, L2, twice)
  BY ExactWeaken DEF MemOK
<1>2. NoEvent(L2) => NoEvent(L)
  BY DEF NoEvent
<1>3. SpotsIn(m, ch, L2)
  BY DEF MemOK, SpotsIn
<1> QED
  BY <1>1, <1>2, <1>3 DEF MemOK

(* Fills of the vault. *)
LEMMA FillMoves ==
  ASSUME NEW m, NEW ch, NEW top, NEW L, NEW O, NEW twice, MemOK(m, ch, top, L, O, twice),
         ChainType(ch), NEW ev \in Events(ch), ev.t \in {"bought", "sold"},
         NEW ch2, ch2 = ChainStep(ch, ev), NEW top2, NextTop(ch, ch2, top, top2),
         NEW m2, m2 = apply_global_event(m, ev, ch2)
  PROVE  MemOK(m2, ch2, top2, L, O, twice) /\ Moved(m, m2, ev)
<1> DEFINE t == ev.t
<1>1. ChainMoves(ch, ev, ch2)
  BY ChainShape, Zenon
<1>2. /\ ch2.events = ch.events /\ ch2.resolved = ch.resolved /\ ch2.spots = ch.spots
      /\ ch2.vault = ch.vault /\ (ev.n # 0 => ch2.credited = ch.credited)
      /\ ev.n = 0 /\ t = "bought" => ch2.credited = ch.credited + 1
      /\ ev.n = 0 /\ t = "sold" => ch2.credited = Clamped(ch.credited)
  BY <1>1 DEF ChainMoves
<1>3. MemType(m) /\ MemExact(m, ch, top, L, twice)
  BY RowsOfExact DEF MemOK
<1>4. m.vault \in VaultType /\ m.hold \in Nat /\ DOMAIN m = Fields
  BY <1>3 DEF MemType
<1>5. m2 = IF ev.n = 1 THEN m ELSE apply_vault_fill_to_portfolio(m, t)
  BY DEF apply_global_event, index_fill, Fills
<1>6. VaultExact(m.vault, ch2, top2, L)
  BY <1>2, <1>3, PartsStay DEF MemExact
<1>7. ch.credited \in Nat /\ ch.vault.is /\ ev.n \in {0, 1}
  BY EventCases DEF ChainType
<1>8. Vault \notin L => m.vault.is
  <2>1. top.vault.is
    BY <1>2, <1>7, TopHasVault
  <2> QED
    BY <1>3, <1>7, <2>1 DEF MemExact, VaultExact, VaultNear
<1>9. t # "spot" /\ (ev.n = 0 => Holding \in Touched(ev))
  BY DEF Touched, Fills
<1>10. Vault \notin L /\ Holding \notin L /\ twice = 0 => m.hold = ch.credited
  BY <1>3 DEF MemExact, HoldExact
<1>13. CASE ev.n = 1
  <2>1. m2 = m /\ ch2.credited = ch.credited
    BY <1>2, <1>5, <1>13
  <2>2. HoldExact(m.hold, ch2, L, twice)
    BY <1>10, <2>1 DEF HoldExact
  <2> QED
    BY <1>2, <1>4, <1>6, <1>9, <2>1, <2>2, VaultOnly
<1>11. CASE ev.n = 0 /\ ~ m.vault.is
  <2>1. m2 = m
    <3>1. m.vault.is = FALSE
      BY <1>4, <1>11, NoVaultFacts
    <3> QED
      BY <1>5, <3>1 DEF apply_vault_fill_to_portfolio
  <2>2. HoldExact(m.hold, ch2, L, twice)
    BY <1>8, <1>11 DEF HoldExact
  <2> QED
    BY <1>2, <1>4, <1>6, <1>9, <2>1, <2>2, VaultOnly
<1>12. CASE ev.n = 0 /\ m.vault.is
  <2>1. PICK h \in Nat :
            /\ m2 = [m EXCEPT !.hold = h]
            /\ t = "bought" => h = m.hold + 1
            /\ t = "sold" => h = Clamped(m.hold)
    <3>1. CASE t = "bought"
      <4>1. m2 = [m EXCEPT !.hold = m.hold + 1]
        BY <1>5, <1>12, <3>1 DEF apply_vault_fill_to_portfolio
      <4>2. PICK h \in Nat : h = m.hold + 1
        BY <1>4
      <4>3. m2 = [m EXCEPT !.hold = h]
        BY <4>1, <4>2
      <4> QED
        BY <3>1, <4>2, <4>3
    <3>2. CASE t = "sold"
      <4>1. PICK h : h = Clamped(m.hold)
        OBVIOUS
      <4>2. m2 = [m EXCEPT !.hold = h]
        BY <1>5, <1>12, <3>2, <4>1 DEF apply_vault_fill_to_portfolio
      <4>3. h \in Nat
        BY <1>4, <4>1 DEF Clamped
      <4> QED
        BY <3>2, <4>1, <4>2, <4>3
    <3> QED
      BY <3>1, <3>2
  <2>2. /\ DOMAIN m2 = Fields /\ m2.markets = m.markets /\ m2.slugs = m.slugs /\ m2.s2m = m.s2m
        /\ m2.names = m.names /\ m2.vault = m.vault /\ m2.hold = h
    BY <1>4, <2>1 DEF Fields
  <2>3. HoldExact(h, ch2, L, twice)
    BY <1>2, <1>4, <1>7, <1>10, <1>12, <2>1 DEF HoldExact
  <2> QED
    BY <1>2, <1>4, <1>6, <1>9, <1>12, <2>1, <2>2, <2>3, VaultOnly
<1> QED
  BY <1>7, <1>11, <1>12, <1>13

(* A fill of an order that the index does not have leaves the holding behind. *)
LEMMA ForgottenFill ==
  ASSUME NEW m, NEW ch, NEW top, NEW L, NEW O, NEW twice, MemOK(m, ch, top, L, O, twice),
         ChainType(ch), NEW ev \in Events(ch), ev.t \in Fills,
         NEW ch2, ch2 = ChainStep(ch, ev), NEW top2, NextTop(ch, ch2, top, top2),
         NEW e, e.t = ev.t, e.n = 1, NEW m2, m2 = apply_global_event(m, e, ch2),
         NEW L2, L2 = L \union {Holding}
  PROVE  MemOK(m2, ch2, top2, L2, O, twice) /\ Moved(m, m2, e)
<1>1. ChainMoves(ch, ev, ch2)
  BY ChainShape, Zenon
<1>2. /\ ch2.events = ch.events /\ ch2.resolved = ch.resolved /\ ch2.spots = ch.spots
      /\ ch2.vault = ch.vault /\ e.t # "spot"
  BY <1>1 DEF ChainMoves, Fills
<1>3. m2 = m
  BY DEF apply_global_event, index_fill, Fills
<1>4. MemOK(m, ch, top, L2, O, twice)
  BY MemWeaken
<1>5. MemType(m) /\ MemExact(m, ch, top, L2, twice)
  BY <1>4, RowsOfExact DEF MemOK
<1>6. VaultExact(m.vault, ch2, top2, L2) /\ HoldExact(m.hold, ch2, L2, twice)
  BY <1>2, <1>5, PartsStay DEF MemExact, HoldExact
<1> QED
  BY <1>2, <1>3, <1>4, <1>5, <1>6, VaultOnly DEF MemType

(* Every block keeps a good memory good. *)
LEMMA Applied ==
  ASSUME NEW m, NEW ch, NEW top, NEW L, NEW O, NEW twice, MemOK(m, ch, top, L, O, twice),
         ChainType(ch), NEW ev \in Events(ch), NEW ch2, ch2 = ChainStep(ch, ev),
         NEW top2, NextTop(ch, ch2, top, top2), NEW m2, m2 = apply_global_event(m, ev, ch2)
  PROVE  MemOK(m2, ch2, top2, L, O, twice) /\ Moved(m, m2, ev)
<1>1. CASE ev.t \in {"spot", "order"}
  BY <1>1, SpotStep
<1>2. CASE ev.t = "event"
  BY <1>2, CreatedStep
<1>3. CASE ev.t = "resolved"
  BY <1>3, ResolvedStep
<1>4. CASE ev.t \in {"vault", "deposited", "permission", "closed"}
  BY <1>4, VaultMoves
<1>5. CASE ev.t \in {"bought", "sold"}
  BY <1>5, FillMoves
<1> QED
  BY <1>1, <1>2, <1>3, <1>4, <1>5, EventCases
-----------------------------------------------------------------------------
(* Rows and memory. *)

(* Rows that are exact up to fewer exceptions are exact up to more. *)
LEMMA RowsWeaken ==
  ASSUME NEW rows, NEW ch, NEW top, NEW L, NEW O, NEW twice, RowsOK(rows, ch, top, L, O, twice),
         NEW L2, NEW O2, L \subseteq L2, O \subseteq O2
  PROVE  RowsOK(rows, ch, top, L2, O2, twice)
<1>1. NoEvent(L2) => NoEvent(L)
  BY DEF NoEvent
<1>2. RowsExact(rows, ch, top, L2, twice)
  BY ExactWeaken DEF RowsOK
<1> QED
  BY <1>1, <1>2 DEF RowsOK, ContestedIn

(* Rows that agree with a good memory are good, but for the stale ones. *)
LEMMA Stored ==
  ASSUME NEW m, NEW ch, NEW top, NEW L, NEW O, NEW twice, MemOK(m, ch, top, L, O, twice),
         NEW rows, RowsType(rows), NEW X, Agree(rows, m, X, O)
  PROVE  RowsOK(rows, ch, top, L \union X, O \union ShellsOf(X), twice)
<1>1. /\ MemType(m) /\ (NoEvent(L) => SlugFound(m)) /\ Bound(m, O)
      /\ RowsExact(RowsOf(m), ch, top, L, twice)
  BY DEF MemOK
<1>2. \A id : id \notin {Shell(s) : s \in Spot} \union X => Same(rows, RowsOf(m), id)
  BY DEF Agree
<1>3. /\ \A e \in Event : EventId(e) \in MarketId /\ EventId(e) \notin {Shell(s) : s \in Spot}
      /\ Vault \notin {Shell(s) : s \in Spot} /\ Holding \notin {Shell(s) : s \in Spot}
  BY IdFacts
<1>4. \A id \in MarketId : Same(m.markets, RowsOf(m), id)
  BY <1>1, RowsOfDomain
<1>5. NoEvent(L \union X) => SlugsDiffer(rows)
  <2>1. SUFFICES ASSUME NoEvent(L \union X), NEW e \in Event, NEW f \in Event,
                        EventId(e) \in DOMAIN rows, EventId(f) \in DOMAIN rows,
                        rows[EventId(e)].slug = rows[EventId(f)].slug
                 PROVE  e = f
    BY DEF SlugsDiffer
  <2>2. SlugFound(m)
    BY <1>1, <2>1 DEF NoEvent
  <2>3. Same(rows, m.markets, EventId(e)) /\ Same(rows, m.markets, EventId(f))
    BY <1>2, <1>3, <1>4, <2>1 DEF NoEvent, Same
  <2> QED
    BY <2>1, <2>2, <2>3 DEF SlugFound, Same
<1>6. ContestedIn(rows, O \union ShellsOf(X))
  <2>1. SUFFICES ASSUME NEW s \in Spot, Shell(s) \in DOMAIN rows, EventId(Owner(s)) \in DOMAIN rows,
                        s \notin O, Shell(s) \notin X
                 PROVE  FALSE
    BY DEF ContestedIn, ShellsOf
  <2>2. Shell(s) \in DOMAIN m.markets
    BY <2>1 DEF Agree
  <2>3. Owner(s) \in Event /\ s \in Legs(Owner(s))
    BY LegFacts
  <2>4. EventId(Owner(s)) \in DOMAIN m.markets
    BY <2>1, <2>3 DEF Agree
  <2> QED
    BY <1>1, <2>1, <2>2, <2>3, <2>4 DEF Bound
<1>7. RowsExact(rows, ch, top, L \union X, twice)
  <2>1. \A e \in Event : EventId(e) \notin X => StateOf(rows, e) = StateOf(RowsOf(m), e)
    BY <1>2, <1>3 DEF StateOf, Same
  <2>2. Vault \notin X => VaultOf(rows) = VaultOf(RowsOf(m))
    BY <1>2, <1>3 DEF VaultOf, Same
  <2>3. Holding \notin X => HoldOf(rows) = HoldOf(RowsOf(m))
    BY <1>2, <1>3 DEF HoldOf, Same
  <2> QED
    BY <1>1, <2>1, <2>2, <2>3 DEF RowsExact, EventsNear, VaultExact, HoldExact
<1> QED
  BY <1>5, <1>6, <1>7 DEF RowsOK

(* The parts of a memory that is loaded from rows with the given shells and *)
(* events, of which the bound spots lead to their events.                   *)
LoadedFrom(m, rows, shells, evs, bound) ==
  /\ DOMAIN m = Fields
  /\ DOMAIN m.markets = (DOMAIN rows \intersect MarketId) \ {Shell(s) : s \in bound}
  /\ \A id \in DOMAIN m.markets : m.markets[id] = rows[id]
  /\ DOMAIN m.slugs = {rows[EventId(e)].slug : e \in evs}
  /\ \A x \in DOMAIN m.slugs :
       m.slugs[x] = CHOOSE e \in evs : rows[EventId(e)].slug = x
  /\ DOMAIN m.s2m = shells \union bound
  /\ \A s \in DOMAIN m.s2m : m.s2m[s] = IF s \in bound THEN EventId(Owner(s)) ELSE Shell(s)
  /\ m.names = <<>> /\ m.vault = VaultOf(rows) /\ m.hold = HoldOf(rows)

(* Loaded has these parts. *)
LEMMA LoadedShape ==
  ASSUME NEW t, NEW late, NEW m, m = Loaded(t, late), NEW rows, rows = t.rows,
         NEW shells, shells = {s \in Spot : Shell(s) \in DOMAIN rows},
         NEW evs, evs = {e \in Event : EventId(e) \in DOMAIN rows},
         NEW bound, bound = (UNION {Legs(e) : e \in evs}) \ late
  PROVE  LoadedFrom(m, rows, shells, evs, bound)
<1>1. PICK mk, sl, sm :
        /\ mk = [id \in (DOMAIN rows \intersect MarketId) \ {Shell(s) : s \in bound} |-> rows[id]]
        /\ sl = [x \in {rows[EventId(e)].slug : e \in evs} |->
                   CHOOSE e \in evs : rows[EventId(e)].slug = x]
        /\ sm = [s \in shells \union bound |-> IF s \in bound THEN EventId(Owner(s)) ELSE Shell(s)]
  OBVIOUS
<1>2. upsert_markets(rows, late) = [Empty EXCEPT !.markets = mk, !.slugs = sl, !.s2m = sm]
  BY <1>1 DEF upsert_markets
<1>3. PICK um : um = upsert_markets(rows, late)
  OBVIOUS
<1>4. /\ DOMAIN um = Fields /\ um.markets = mk /\ um.slugs = sl /\ um.s2m = sm
      /\ um.names = <<>>
  BY <1>2, <1>3 DEF Empty, Fields
<1>5. m = [um EXCEPT !.vault = VaultOf(rows), !.hold = HoldOf(rows)]
  BY <1>3 DEF Loaded, VaultOf, HoldOf, import_vault_portfolio
<1>6. PICK v, h : v = VaultOf(rows) /\ h = HoldOf(rows)
  OBVIOUS
<1>7. /\ DOMAIN m = Fields /\ m.markets = mk /\ m.slugs = sl /\ m.s2m = sm /\ m.names = <<>>
      /\ m.vault = v /\ m.hold = h
  BY <1>4, <1>5, <1>6 DEF Fields
<1> QED
  BY <1>1, <1>6, <1>7 DEF LoadedFrom

(* A memory that is loaded from good rows is good. *)
LEMMA LoadedOK ==
  ASSUME NEW t, NEW ch, NEW top, NEW L, NEW O, NEW twice, RowsOK(t.rows, ch, top, L, O, twice),
         NEW late, late \subseteq Contested(t), NEW m, m = Loaded(t, late),
         NEW L2, L2 = L \union {Shell(s) : s \in ch.spots}
  PROVE  MemOK(m, ch, top, L2, O, twice) /\ Agree(t.rows, m, {}, O)
<1>1. PICK rows, shells, evs, bound :
        /\ rows = t.rows
        /\ shells = {s \in Spot : Shell(s) \in DOMAIN rows}
        /\ evs = {e \in Event : EventId(e) \in DOMAIN rows}
        /\ bound = (UNION {Legs(e) : e \in evs}) \ late
  OBVIOUS
<1>2. /\ DOMAIN m = Fields
      /\ DOMAIN m.markets = (DOMAIN rows \intersect MarketId) \ {Shell(s) : s \in bound}
      /\ \A id \in DOMAIN m.markets : m.markets[id] = rows[id]
      /\ DOMAIN m.slugs = {rows[EventId(e)].slug : e \in evs}
      /\ \A x \in DOMAIN m.slugs :
           m.slugs[x] = CHOOSE e \in evs : rows[EventId(e)].slug = x
      /\ DOMAIN m.s2m = shells \union bound
      /\ \A s \in DOMAIN m.s2m : m.s2m[s] = IF s \in bound THEN EventId(Owner(s)) ELSE Shell(s)
      /\ m.names = <<>> /\ m.vault = VaultOf(rows) /\ m.hold = HoldOf(rows)
  <2>1. LoadedFrom(m, rows, shells, evs, bound)
    BY <1>1, LoadedShape, Zenon
  <2> QED
    BY <2>1 DEF LoadedFrom
<1>3. /\ RowsType(rows) /\ (NoEvent(L) => SlugsDiffer(rows)) /\ ContestedIn(rows, O)
      /\ RowsExact(rows, ch, top, L, twice)
  BY <1>1 DEF RowsOK
<1>4. late \subseteq O
  BY <1>1, <1>3 DEF Contested, ContestedIn
<1>5. /\ \A e \in Event : EventId(e) \in MarketId /\ EventId(e).k # "spot"
      /\ \A s \in Spot : Shell(s) \in MarketId
      /\ \A e, s : EventId(e) # Shell(s)
      /\ \A s, r : Shell(s) = Shell(r) => s = r
  BY IdFacts
<1>6. bound \subseteq Spot /\ \A s \in bound : Owner(s) \in evs /\ Owner(s) \in Event
  BY <1>1, LegFacts
<1>7. \A e \in Event : Same(rows, m.markets, EventId(e))
  BY <1>2, <1>5 DEF Same
<1>8. \A s \in Spot : Shell(s) \in DOMAIN m.markets <=> Shell(s) \in DOMAIN rows /\ s \notin bound
  BY <1>2, <1>5
<1>9. VaultOf(rows) \in VaultType /\ HoldOf(rows) \in Nat
  <2>1. NoVault \in VaultType
    BY DEF VaultType
  <2>2. VaultOf(rows) \in VaultType
    BY <1>3, <2>1 DEF RowsType, VaultOf
  <2>3. HoldOf(rows) \in Nat
    BY <1>3 DEF RowsType, HoldOf
  <2> QED
    BY <2>2, <2>3
<1>10. MemType(m)
  <2>1. MarketsType(m.markets)
    BY <1>2, <1>3 DEF MarketsType, RowsType
  <2>2. DOMAIN m.s2m \subseteq Spot
    BY <1>1, <1>2, <1>6
  <2>3. \A s \in DOMAIN m.s2m : m.s2m[s] \in MarketId
    BY <1>2, <1>5, <1>6, <2>2
  <2> QED
    BY <1>2, <1>9, <2>1, <2>2, <2>3 DEF MemType, NamesType
<1>11. SlugBack(m)
  <2>1. ASSUME NEW x \in DOMAIN m.slugs
        PROVE  /\ m.slugs[x] \in Event /\ EventId(m.slugs[x]) \in DOMAIN m.markets
               /\ m.markets[EventId(m.slugs[x])].slug = x
    <3>1. \E e \in evs : rows[EventId(e)].slug = x
      BY <1>2, <2>1
    <3>2. m.slugs[x] \in evs /\ rows[EventId(m.slugs[x])].slug = x
      BY <1>2, <2>1, <3>1
    <3> QED
      BY <1>1, <1>7, <3>2 DEF Same
  <2> QED
    BY <2>1 DEF SlugBack
<1>12. NoEvent(L2) => SlugFound(m)
  <2>1. SUFFICES ASSUME NoEvent(L2), NEW e \in Event, EventId(e) \in DOMAIN m.markets
                 PROVE  /\ m.markets[EventId(e)].slug \in DOMAIN m.slugs
                        /\ m.slugs[m.markets[EventId(e)].slug] = e
    BY DEF SlugFound
  <2>2. SlugsDiffer(rows)
    BY <1>3, <2>1 DEF NoEvent
  <2>3. e \in evs /\ m.markets[EventId(e)].slug = rows[EventId(e)].slug
    BY <1>1, <1>7, <2>1 DEF Same
  <2>4. PICK x : x = rows[EventId(e)].slug
    OBVIOUS
  <2>5. x \in DOMAIN m.slugs
    BY <1>2, <2>3, <2>4
  <2>6. m.slugs[x] \in evs /\ rows[EventId(m.slugs[x])].slug = x
    BY <1>2, <2>3, <2>4, <2>5
  <2>7. m.slugs[x] = e
    BY <1>1, <2>2, <2>3, <2>4, <2>6 DEF SlugsDiffer
  <2> QED
    BY <2>3, <2>4, <2>5, <2>7
<1>13. Bound(m, O)
  <2>1. ASSUME NEW e \in Event, EventId(e) \in DOMAIN m.markets, NEW s \in Legs(e), s \notin O
        PROVE  s \in DOMAIN m.s2m /\ m.s2m[s] = EventId(e) /\ Shell(s) \notin DOMAIN m.markets
    <3>1. e \in evs
      BY <1>1, <1>7, <2>1 DEF Same
    <3>2. s \in bound
      <4>1. \A r : r \in bound <=> r \notin late /\ \E f \in evs : r \in Legs(f)
        BY <1>1
      <4>2. s \notin late
        BY <1>4, <2>1
      <4> QED
        BY <2>1, <3>1, <4>1, <4>2
    <3>3. Owner(s) = e
      BY <1>6, <2>1, <3>2, LegFacts
    <3> QED
      BY <1>2, <1>6, <1>8, <3>2, <3>3
  <2> QED
    BY <2>1 DEF Bound
<1>14. SpotsIn(m, ch, L2)
  BY DEF SpotsIn
<1>15. RowsExact(RowsOf(m), ch, top, L2, twice)
  <2>1. RowsExact(rows, ch, top, L2, twice)
    BY <1>3, ExactWeaken
  <2>2. \A e \in Event : StateOf(m.markets, e) = StateOf(rows, e)
    BY <1>7 DEF StateOf, Same
  <2>3. MemExact(m, ch, top, L2, twice)
    BY <1>2, <2>1, <2>2 DEF RowsExact, MemExact, EventsNear
  <2> QED
    BY <1>10, <2>3, RowsOfExact
<1>16. MemOK(m, ch, top, L2, O, twice)
  BY <1>10, <1>11, <1>12, <1>13, <1>14, <1>15 DEF MemOK
<1>17. \A e \in Event : EventId(e) \in DOMAIN rows => EventId(e) \in DOMAIN m.markets
  BY <1>7 DEF Same
<1>18. ASSUME NEW id, id \notin {Shell(s) : s \in Spot}
       PROVE  Same(rows, RowsOf(m), id)
  <2>1. CASE id \in MarketId
    <3>1. PICK e \in Event : id = EventId(e)
      BY <1>18, <2>1, IdFacts
    <3> QED
      BY <1>7, <1>10, <2>1, <3>1, RowsOfDomain DEF Same
  <2>2. CASE id = Vault
    <3>1. Vault \in DOMAIN rows => rows[Vault].is /\ VaultOf(rows) = rows[Vault]
      BY <1>3 DEF RowsType, VaultOf
    <3>2. Vault \notin DOMAIN rows => ~ VaultOf(rows).is
      BY DEF VaultOf, NoVault
    <3>5. m.vault = VaultOf(rows)
      BY <1>2
    <3>6. /\ Vault \in DOMAIN RowsOf(m) <=> m.vault.is
          /\ m.vault.is => RowsOf(m)[Vault] = m.vault
      BY <1>10, RowsOfDomain
    <3>3. Vault \in DOMAIN RowsOf(m) <=> VaultOf(rows).is
      BY <3>5, <3>6
    <3>4. VaultOf(rows).is => RowsOf(m)[Vault] = VaultOf(rows)
      BY <3>5, <3>6
    <3> QED
      BY <2>2, <3>1, <3>2, <3>3, <3>4 DEF Same
  <2>3. CASE id = Holding
    <3>1. /\ Holding \in DOMAIN RowsOf(m) <=> HoldOf(rows) > 0
          /\ HoldOf(rows) > 0 => RowsOf(m)[Holding] = [amount |-> HoldOf(rows)]
      BY <1>2, <1>10, RowsOfDomain
    <3>2. Holding \in DOMAIN rows =>
            HoldOf(rows) > 0 /\ rows[Holding] = [amount |-> HoldOf(rows)]
      BY <1>3 DEF RowsType, HoldOf
    <3>3. Holding \notin DOMAIN rows => ~ (HoldOf(rows) > 0)
      BY DEF HoldOf
    <3> QED
      BY <2>3, <3>1, <3>2, <3>3 DEF Same
  <2>4. CASE id \notin MarketId \union {Vault, Holding}
    BY <1>3, <1>10, <2>4, RowsOfDomain DEF Same, RowsType
  <2> QED
    BY <2>1, <2>2, <2>3, <2>4
<1>19. ASSUME NEW s \in Spot, Shell(s) \in DOMAIN rows, s \notin O
       PROVE  Shell(s) \in DOMAIN m.markets
  <2>1. s \notin bound
    BY <1>1, <1>3, <1>6, <1>19 DEF ContestedIn
  <2> QED
    BY <1>8, <1>19, <2>1
<1> QED
  BY <1>1, <1>16, <1>17, <1>18, <1>19 DEF Agree

(* The rows that a write set leaves. *)
LEMMA WrittenShape ==
  ASSUME NEW t, NEW b, NEW ev, NEW m, NEW m2, NEW w, w = WriteSetOf(b, ev, m, m2),
         NEW t2, t2 = Written(t, w)
  PROVE  /\ t2.n = b /\ w.n = b
         /\ DOMAIN w.rows = Touched(ev) \intersect DOMAIN RowsOf(m2)
         /\ w.del = DOMAIN RowsOf(m) \ DOMAIN RowsOf(m2)
         /\ DOMAIN t2.rows = (DOMAIN t.rows \ w.del) \union DOMAIN w.rows
         /\ \A id \in DOMAIN t2.rows :
              t2.rows[id] = IF id \in DOMAIN w.rows THEN RowsOf(m2)[id] ELSE t.rows[id]
<1>1. PICK r : r = [id \in Touched(ev) \intersect DOMAIN RowsOf(m2) |-> RowsOf(m2)[id]]
  OBVIOUS
<1>2. w = [n |-> b, rows |-> r, del |-> DOMAIN RowsOf(m) \ DOMAIN RowsOf(m2)]
  BY <1>1 DEF WriteSetOf
<1>3. w.n = b /\ w.rows = r /\ w.del = DOMAIN RowsOf(m) \ DOMAIN RowsOf(m2)
  BY <1>2
<1>4. PICK k : k = Drop(t.rows, w.del)
  OBVIOUS
<1>5. DOMAIN k = DOMAIN t.rows \ w.del /\ \A id \in DOMAIN k : k[id] = t.rows[id]
  BY <1>4 DEF Drop
<1>6. t2 = [n |-> w.n, rows |-> [id \in DOMAIN k \union DOMAIN w.rows |->
                                   IF id \in DOMAIN w.rows THEN w.rows[id] ELSE k[id]]]
  BY <1>4 DEF Written
<1>7. /\ t2.n = w.n /\ DOMAIN t2.rows = DOMAIN k \union DOMAIN w.rows
      /\ \A id \in DOMAIN t2.rows : t2.rows[id] = IF id \in DOMAIN w.rows THEN w.rows[id] ELSE k[id]
  BY <1>6
<1> QED
  BY <1>1, <1>3, <1>5, <1>7

(* What was stale and is not written by w stays so. *)
Leaves(X, w, X2) == X \ (DOMAIN w.rows \union w.del) \subseteq X2

(* A live block takes the tables along with the memory. *)
LEMMA WrittenAgree ==
  ASSUME NEW t, NEW b, NEW ev, NEW m, NEW m2, MemType(m), MemType(m2), Moved(m, m2, ev),
         NEW X, NEW O, Agree(t.rows, m, X, O), RowsType(t.rows),
         NEW w, w = WriteSetOf(b, ev, m, m2), NEW t2, t2 = Written(t, w),
         NEW X2, Leaves(X, w, X2)
  PROVE  Agree(t2.rows, m2, X2, O) /\ RowsType(t2.rows)
<1>1. /\ DOMAIN w.rows = Touched(ev) \intersect DOMAIN RowsOf(m2)
      /\ w.del = DOMAIN RowsOf(m) \ DOMAIN RowsOf(m2)
      /\ DOMAIN t2.rows = (DOMAIN t.rows \ w.del) \union DOMAIN w.rows
      /\ \A id \in DOMAIN t2.rows :
           t2.rows[id] = IF id \in DOMAIN w.rows THEN RowsOf(m2)[id] ELSE t.rows[id]
  BY WrittenShape
<1>2. PICK new : new = RowsOf(m2)
  OBVIOUS
<1>3. RowsType(new)
  BY <1>2, RowsOfExact
<1>4. RowsType(t2.rows)
  BY <1>1, <1>2, <1>3 DEF RowsType
<1>5. /\ \A e \in Event : EventId(e) \in MarketId
      /\ \A s \in Spot : Shell(s) \in MarketId
  BY IdFacts
<1>6. \A id \in MarketId : (id \in DOMAIN m2.markets <=> id \in DOMAIN new)
                             /\ (id \in DOMAIN m.markets <=> id \in DOMAIN RowsOf(m))
  BY <1>2, RowsOfDomain DEF Same
<1>7. ASSUME NEW e \in Event, EventId(e) \in DOMAIN t2.rows
      PROVE  EventId(e) \in DOMAIN m2.markets
  <2>1. CASE EventId(e) \in DOMAIN w.rows
    BY <1>1, <1>2, <1>5, <1>6, <2>1
  <2>2. CASE EventId(e) \in DOMAIN t.rows
    BY <2>2 DEF Agree, Moved
  <2> QED
    BY <1>1, <1>7, <2>1, <2>2
<1>8. ASSUME NEW id, id \notin {Shell(s) : s \in Spot} \union X2
      PROVE  Same(t2.rows, new, id)
  <2>1. CASE id \in DOMAIN w.rows
    BY <1>1, <1>2, <2>1 DEF Same
  <2>2. CASE id \notin DOMAIN w.rows /\ id \in w.del
    BY <1>1, <1>2, <2>2 DEF Same
  <2>3. CASE id \notin DOMAIN w.rows /\ id \notin w.del
    <3>1. id \notin {Shell(s) : s \in Spot} \union X
      BY <1>8, <2>3 DEF Leaves
    <3>2. Same(t.rows, RowsOf(m), id)
      BY <3>1 DEF Agree
    <3>3. Same(t2.rows, t.rows, id)
      BY <1>1, <2>3 DEF Same
    <3>4. CASE id \notin Touched(ev)
      <4>1. Same(RowsOf(m), new, id)
        BY <1>2, <1>8, <3>4 DEF Moved
      <4> QED
        BY <3>2, <3>3, <4>1 DEF Same
    <3>5. CASE id \in Touched(ev)
      <4>1. id \notin DOMAIN new /\ id \notin DOMAIN RowsOf(m)
        BY <1>1, <1>2, <2>3, <3>5
      <4> QED
        BY <3>2, <3>3, <4>1 DEF Same
    <3> QED
      BY <3>4, <3>5
  <2> QED
    BY <2>1, <2>2, <2>3
<1>9. ASSUME NEW s \in Spot, Shell(s) \notin X2, Shell(s) \in DOMAIN t2.rows, s \notin O
      PROVE  Shell(s) \in DOMAIN m2.markets
  <2>1. CASE Shell(s) \in DOMAIN w.rows
    BY <1>1, <1>2, <1>5, <1>6, <2>1
  <2>2. CASE Shell(s) \notin DOMAIN w.rows
    <3>1. Shell(s) \in DOMAIN t.rows /\ Shell(s) \notin w.del /\ Shell(s) \notin X
      BY <1>1, <1>9, <2>2 DEF Leaves
    <3>2. Shell(s) \in DOMAIN m.markets
      BY <1>9, <3>1 DEF Agree
    <3> QED
      BY <1>1, <1>2, <1>5, <1>6, <3>1, <3>2
  <2> QED
    BY <2>1, <2>2
<1>10. Agree(t2.rows, m2, X2, O)
  BY <1>2, <1>7, <1>8, <1>9 DEF Agree
<1> QED
  BY <1>4, <1>10

(* A replayed block leaves the tables behind, in what it changes. *)
LEMMA ReplayedAgree ==
  ASSUME NEW rows, NEW ev, NEW m, NEW m2, MemType(m), MemType(m2), Moved(m, m2, ev),
         NEW X, NEW O, Agree(rows, m, X, O),
         NEW X2, X \subseteq X2, Changed(RowsOf(m), RowsOf(m2)) \subseteq X2
  PROVE  Agree(rows, m2, X2, O)
<1>1. PICK old, new : old = RowsOf(m) /\ new = RowsOf(m2)
  OBVIOUS
<1>2. \A id : id \notin X2 => Same(old, new, id)
  BY <1>1 DEF Changed, Same
<1>3. \A s \in Spot : Shell(s) \in MarketId
  BY IdFacts
<1>4. \A id \in MarketId : (id \in DOMAIN m2.markets <=> id \in DOMAIN new)
                             /\ (id \in DOMAIN m.markets <=> id \in DOMAIN old)
  BY <1>1, RowsOfDomain DEF Same
<1>5. \A e \in Event : EventId(e) \in DOMAIN rows => EventId(e) \in DOMAIN m2.markets
  BY DEF Agree, Moved
<1>6. ASSUME NEW id, id \notin {Shell(s) : s \in Spot} \union X2
      PROVE  Same(rows, new, id)
  <2>1. Same(rows, old, id)
    BY <1>1, <1>6 DEF Agree
  <2> QED
    BY <1>2, <1>6, <2>1 DEF Same
<1>7. ASSUME NEW s \in Spot, Shell(s) \notin X2, Shell(s) \in DOMAIN rows, s \notin O
      PROVE  Shell(s) \in DOMAIN m2.markets
  <2>1. Shell(s) \in DOMAIN m.markets
    BY <1>7 DEF Agree
  <2> QED
    BY <1>2, <1>3, <1>4, <1>7, <2>1 DEF Same
<1> QED
  BY <1>1, <1>5, <1>6, <1>7 DEF Agree

(* The rows of a memory that are no shells. *)
Shellless(m) == [id \in {x \in DOMAIN RowsOf(m) : x.k # "spot"} |-> RowsOf(m)[id]]

(* The rows of a memory agree with it, with or without the shells. *)
LEMMA OwnRowsAgree ==
  ASSUME NEW m, MemType(m), NEW O, NEW rows,
         \/ rows = RowsOf(m)
         \/ rows = Shellless(m)
  PROVE  Agree(rows, m, {}, O) /\ RowsType(rows)
<1>1. PICK old : old = RowsOf(m)
  OBVIOUS
<1>2. /\ DOMAIN rows \subseteq DOMAIN old /\ \A id \in DOMAIN rows : rows[id] = old[id]
      /\ \A id \in DOMAIN old : id.k # "spot" => id \in DOMAIN rows
  BY <1>1 DEF Shellless
<1>3. RowsType(old)
  BY <1>1, RowsOfExact
<1>4. RowsType(rows)
  BY <1>2, <1>3 DEF RowsType
<1>5. /\ \A e \in Event : EventId(e) \in MarketId /\ EventId(e).k # "spot"
      /\ \A s \in Spot : Shell(s) \in MarketId
      /\ Vault.k # "spot" /\ Holding.k # "spot"
  BY IdFacts
<1>6. \A id \in MarketId : id \in DOMAIN m.markets <=> id \in DOMAIN old
  BY <1>1, RowsOfDomain DEF Same
<1>7. ASSUME NEW id, id \notin {Shell(s) : s \in Spot}
      PROVE  Same(rows, old, id)
  <2>1. id \in DOMAIN old => id.k # "spot"
    BY <1>3, <1>5, <1>7, IdFacts DEF RowsType
  <2> QED
    BY <1>2, <2>1 DEF Same
<1> QED
  BY <1>1, <1>2, <1>4, <1>5, <1>6, <1>7 DEF Agree
-----------------------------------------------------------------------------
(* Sequences of any values. *)

(* A sequence is one over its own elements. *)
LEMMA SeqAny ==
  ASSUME NEW S, NEW r \in Seq(S)
  PROVE  AnySeq(r)
<1>1. PICK R : R = {r[j] : j \in 1..Len(r)}
  OBVIOUS
<1>2. \A i \in 1..Len(r) : r[i] \in R
  BY <1>1
<1>3. r \in Seq(R)
  BY <1>2
<1> QED
  BY <1>1, <1>3 DEF AnySeq

(* Length and domain of a sequence. *)
LEMMA SeqFacts ==
  ASSUME NEW q, AnySeq(q)
  PROVE  Len(q) \in Nat /\ DOMAIN q = 1..Len(q) /\ (Len(q) = 0 <=> q = <<>>)
<1>1. PICK S : q \in Seq(S)
  BY DEF AnySeq
<1> QED
  BY <1>1

(* The empty sequence. *)
LEMMA SeqEmpty == AnySeq(<<>>) /\ Len(<<>>) = 0
<1>1. <<>> \in Seq({<<>>[i] : i \in 1..0})
  OBVIOUS
<1>2. Len(<<>>) = 0
  OBVIOUS
<1> QED
  BY <1>1, <1>2 DEF AnySeq

(* Sequence r is q and one more value. *)
Longer(q, x, r) ==
  /\ AnySeq(r) /\ Len(r) = Len(q) + 1 /\ r[Len(q) + 1] = x
  /\ \A i \in 1..Len(q) : r[i] = q[i]

(* What Append does. *)
LEMMA SeqAppend ==
  ASSUME NEW q, AnySeq(q), NEW x, NEW r, r = Append(q, x)
  PROVE  Longer(q, x, r)
<1>1. PICK S : S = {q[i] : i \in 1..Len(q)}
  OBVIOUS
<1>2. q \in Seq(S) /\ Len(q) \in Nat
  BY <1>1, SeqFacts DEF AnySeq
<1>3. PICK T : T = S \union {x}
  OBVIOUS
<1>4. q \in Seq(T) /\ x \in T
  BY <1>2, <1>3
<1>5. /\ r \in Seq(T) /\ Len(r) = Len(q) + 1 /\ r[Len(q) + 1] = x
      /\ \A i \in 1..Len(q) : r[i] = q[i]
  BY <1>4
<1>6. AnySeq(r)
  BY <1>5, SeqAny
<1> QED
  BY <1>5, <1>6 DEF Longer

(* What Head and Tail do. *)
LEMMA SeqTail ==
  ASSUME NEW q, AnySeq(q), q # <<>>, NEW r, r = Tail(q)
  PROVE  /\ AnySeq(r) /\ Len(r) = Len(q) - 1 /\ Head(q) = q[1] /\ Len(q) \in Nat \ {0}
         /\ \A i \in 1..Len(r) : r[i] = q[i + 1]
<1>1. PICK S : q \in Seq(S)
  BY DEF AnySeq
<1>0. r \in Seq(S)
  BY <1>1
<1>2. /\ r \in Seq(S) /\ Len(r) = Len(q) - 1 /\ Head(q) = q[1] /\ Len(q) \in Nat \ {0}
      /\ \A i \in 1..Len(r) : r[i] = q[i + 1]
  BY <1>1
<1>3. AnySeq(r)
  BY <1>0, SeqAny
<1> QED
  BY <1>2, <1>3

-----------------------------------------------------------------------------
(* Small facts for the steps. *)

(* Later is reflexive and transitive. *)
LEMMA LaterFacts ==
  /\ \A a : Later(a, a)
  /\ \A a, b, c : Later(a, b) /\ Later(b, c) => Later(a, c)
<1>1. \A a : Later(a, a)
  BY DEF Later
<1>2. ASSUME NEW a, NEW b, NEW c, Later(a, b), Later(b, c)
      PROVE  Later(a, c)
  BY <1>2 DEF Later
<1> QED
  BY <1>1, <1>2

(* Once a block was applied again, nothing is said of the holding. *)
LEMMA TwiceWeaken ==
  ASSUME NEW ch, NEW top, NEW L, NEW O, NEW x
  PROVE  /\ \A m : MemOK(m, ch, top, L, O, 0) => MemOK(m, ch, top, L, O, x)
         /\ \A rows : RowsOK(rows, ch, top, L, O, 0) => RowsOK(rows, ch, top, L, O, x)
<1>1. \A rows : RowsExact(rows, ch, top, L, 0) => RowsExact(rows, ch, top, L, x)
  BY DEF RowsExact, HoldExact
<1> QED
  BY <1>1 DEF MemOK, RowsOK

(* A memory at the last block, when the blocks up to it come again. *)
LEMMA AgainOK ==
  ASSUME NEW m, NEW ch, NEW old, Later(old, ch), NEW L, NEW O, NEW x, x # 0,
         MemOK(m, ch, ch, L, O, 0)
  PROVE  MemOK(m, old, ch, L, O, x)
<1>1. SpotsIn(m, old, L)
  BY DEF MemOK, SpotsIn, Later
<1>2. EventsNear(RowsOf(m), old, ch, L)
  BY DEF MemOK, RowsExact, EventsNear
<1>3. VaultExact(VaultOf(RowsOf(m)), old, ch, L)
  <2>1. SUFFICES ASSUME Vault \notin L
                 PROVE  VaultNear(VaultOf(RowsOf(m)), old.vault, ch.vault)
    BY DEF VaultExact
  <2>2. VaultNear(VaultOf(RowsOf(m)), ch.vault, ch.vault)
    BY <2>1 DEF MemOK, RowsExact, VaultExact
  <2> QED
    BY <2>2 DEF VaultNear
<1>4. HoldExact(HoldOf(RowsOf(m)), old, L, x)
  BY DEF HoldExact
<1> QED
  BY <1>1, <1>2, <1>3, <1>4 DEF MemOK, RowsExact

(* Rows that agree with a memory, when it gets more spot markets. *)
LEMMA KeptAgree ==
  ASSUME NEW rows, NEW m, NEW m2, MemType(m), MemType(m2), Kept(m, m2), NEW X, NEW O,
         Agree(rows, m, X, O), NEW O2, O \subseteq O2
  PROVE  Agree(rows, m2, X, O2)
<1>1. PICK new : new = RowsOf(m2)
  OBVIOUS
<1>2. \A id : id \notin {Shell(s) : s \in Spot} => Same(RowsOf(m), new, id)
  BY <1>1, KeptRows
<1>3. ASSUME NEW id, id \notin {Shell(s) : s \in Spot} \union X
      PROVE  Same(rows, new, id)
  <2>1. Same(rows, RowsOf(m), id)
    BY <1>3 DEF Agree
  <2> QED
    BY <1>2, <1>3, <2>1 DEF Same
<1>4. DOMAIN m.markets \subseteq DOMAIN m2.markets
  BY DEF Kept
<1> QED
  BY <1>1, <1>3, <1>4 DEF Agree

(* The changes that a write set leaves are among the earlier ones. *)
LEMMA StaleFacts ==
  /\ \A n : Stale({}, n) = {}
  /\ ShellsOf({}) = {}
  /\ \A U, V, n : U \subseteq V => Stale(U, n) \subseteq Stale(V, n)
  /\ \A X, Y : X \subseteq Y => ShellsOf(X) \subseteq ShellsOf(Y)
  /\ \A U, n, id : id \in Stale(U, n) <=> \E u \in U : u[1] <= n /\ u[2] = id
BY DEF Stale, ShellsOf

(* The write sets p2 are p and one more. *)
OneMore(t, U, p, w, p2) ==
  /\ AnySeq(p2) /\ Len(p2) = Len(p) + 1
  /\ \A i \in 0..Len(p) : AfterOf(t, p2, i) = AfterOf(t, p, i) /\ LeftOf(U, p2, i) = LeftOf(U, p, i)
  /\ AfterOf(t, p2, Len(p2)) = Written(AfterOf(t, p, Len(p)), w)
  /\ LeftOf(U, p2, Len(p2)) = Remaining(LeftOf(U, p, Len(p)), w)

(* The write sets on their way, when one more comes. *)
LEMMA AfterAppend ==
  ASSUME NEW t, NEW U, NEW p, AnySeq(p), Len(p) \in 0..1, NEW w, NEW p2, p2 = Append(p, w)
  PROVE  OneMore(t, U, p, w, p2)
<1>0. Longer(p, w, p2)
  BY SeqAppend, Zenon
<1>1. /\ AnySeq(p2) /\ Len(p2) = Len(p) + 1 /\ p2[Len(p) + 1] = w
      /\ \A i \in 1..Len(p) : p2[i] = p[i]
  BY <1>0 DEF Longer
<1> HIDE DEF AnySeq
<1>2. CASE Len(p) = 0
  BY <1>1, <1>2 DEF AfterOf, LeftOf, OneMore
<1>3. CASE Len(p) = 1
  <2>1. p2[1] = p[1] /\ p2[2] = w /\ Len(p2) = 2
    BY <1>1, <1>3
  <2>2. \A i \in 0..Len(p) : i = 0 \/ i = 1
    BY <1>3
  <2>3. \A i \in 0..Len(p) : AfterOf(t, p2, i) = AfterOf(t, p, i) /\ LeftOf(U, p2, i) = LeftOf(U, p, i)
    BY <2>1, <2>2 DEF AfterOf, LeftOf
  <2> QED
    BY <1>1, <1>3, <2>1, <2>3 DEF AfterOf, LeftOf, OneMore
<1> QED
  BY <1>2, <1>3

(* The write sets p2 are p without the first, which is written. *)
OneLess(t, U, p, p2) ==
  /\ AnySeq(p2) /\ Len(p2) = Len(p) - 1 /\ Len(p) \in 1..2 /\ Head(p) = p[1]
  /\ \A i \in 1..Len(p2) : p2[i] = p[i + 1]
  /\ \A i \in 0..Len(p2) :
       /\ AfterOf(Written(t, Head(p)), p2, i) = AfterOf(t, p, i + 1)
       /\ LeftOf(Remaining(U, Head(p)), p2, i) = LeftOf(U, p, i + 1)

(* The same when one is written. *)
LEMMA AfterTail ==
  ASSUME NEW t, NEW U, NEW p, AnySeq(p), p # <<>>, Len(p) \in 0..2, NEW p2, p2 = Tail(p)
  PROVE  OneLess(t, U, p, p2)
<1>1. /\ AnySeq(p2) /\ Len(p2) = Len(p) - 1 /\ Head(p) = p[1] /\ Len(p) \in Nat \ {0}
      /\ \A i \in 1..Len(p2) : p2[i] = p[i + 1]
  BY SeqTail
<1>2. ASSUME NEW i \in 0..Len(p2)
      PROVE  /\ AfterOf(Written(t, p[1]), p2, i) = AfterOf(t, p, i + 1)
             /\ LeftOf(Remaining(U, p[1]), p2, i) = LeftOf(U, p, i + 1)
  <2>1. CASE i = 0
    BY <2>1 DEF AfterOf, LeftOf
  <2>2. CASE i = 1
    <3>1. p2[1] = p[2]
      BY <1>1, <1>2, <2>2
    <3> QED
      BY <2>2, <3>1 DEF AfterOf, LeftOf
  <2> QED
    BY <1>1, <1>2, <2>1, <2>2
<1> QED
  BY <1>1, <1>2 DEF OneLess

(* Without write sets. *)
LEMMA AfterNone ==
  /\ \A t, p : AfterOf(t, p, 0) = t
  /\ \A U, p : LeftOf(U, p, 0) = U
BY DEF AfterOf, LeftOf

(* Write sets that are applied leave no more unmirrored rows than there were. *)
LEMMA LeftSubset ==
  ASSUME NEW U, NEW p, NEW i \in 0..2
  PROVE  LeftOf(U, p, i) \subseteq U
<1>1. \A V, w : Remaining(V, w) \subseteq V
  BY DEF Remaining
<1>2. CASE i = 0
  BY <1>2 DEF LeftOf
<1>3. CASE i = 1
  BY <1>1, <1>3 DEF LeftOf
<1>4. CASE i = 2
  <2>1. LeftOf(U, p, i) = Remaining(Remaining(U, p[1]), p[2])
    BY <1>4 DEF LeftOf
  <2> QED
    BY <1>1, <2>1
<1> QED
  BY <1>2, <1>3, <1>4

(* Tables are as good when more is lost, and on a longer chain. *)
LEMMA TableStays ==
  ASSUME NEW t, NEW U, NEW l, NEW L, NEW O, NEW a, TableAt(t, U, l, L, O, a),
         NEW U2, NEW l2, NEW L2, NEW O2, U \subseteq U2, L \subseteq L2, O \subseteq O2,
         ChainOf(l2, t.n) = ChainOf(l, t.n), ChainOf(l2, Top(t.n, a)) = ChainOf(l, Top(t.n, a))
  PROVE  TableAt(t, U2, l2, L2, O2, a)
<1>1. PICK X, X2 : X = Stale(U, t.n) /\ X2 = Stale(U2, t.n)
  OBVIOUS
<1>2. X \subseteq X2 /\ ShellsOf(X) \subseteq ShellsOf(X2)
  BY <1>1, StaleFacts
<1>3. RowsOK(t.rows, ChainOf(l, t.n), ChainOf(l, Top(t.n, a)), L \union X, O \union ShellsOf(X), a)
  BY <1>1 DEF TableAt
<1>4. RowsOK(t.rows, ChainOf(l, t.n), ChainOf(l, Top(t.n, a)), L2 \union X2, O2 \union ShellsOf(X2), a)
  BY <1>2, <1>3, RowsWeaken
<1> QED
  BY <1>1, <1>4 DEF TableAt

-----------------------------------------------------------------------------
(* The steps. *)

(* The greater of the head and the last block applied again. *)
LEMMA TopFacts ==
  ASSUME NEW n \in Nat, NEW a \in Nat, NEW N \in Nat, n <= N, a <= N
  PROVE  Top(n, a) \in 0..N /\ n <= Top(n, a) /\ Top(n, 0) = n
BY DEF Top

(* The labels of the tables and write sets are blocks of the chain. *)
LEMMA LabelFacts ==
  ASSUME Counters, NEW i \in 0..Len(pending)
  PROVE  AfterOf(tables, pending, i).n \in 0..Len(log)
<1>1. \A t, w : Written(t, w).n = w.n
  BY DEF Written
<1>2. Len(pending) \in 0..2 /\ tables.n \in 0..Len(log)
      /\ \A j \in 1..Len(pending) : pending[j].n \in 0..Len(log)
  BY DEF Counters
<1>3. CASE i = 0
  BY <1>2, <1>3 DEF AfterOf
<1>4. CASE i = 1
  <2>1. AfterOf(tables, pending, i) = Written(tables, pending[1])
    BY <1>4 DEF AfterOf
  <2> QED
    BY <1>1, <1>2, <1>4, <2>1
<1>5. CASE i = 2
  <2>1. AfterOf(tables, pending, i) = Written(Written(tables, pending[1]), pending[2])
    BY <1>5 DEF AfterOf
  <2> QED
    BY <1>1, <1>2, <1>5, <2>1
<1> QED
  BY <1>2, <1>3, <1>4, <1>5

(* The empty chain and the empty memory. *)
LEMMA InitOK ==
  ASSUME Init
  PROVE  IInv
<1>1. ChainType(Genesis)
  BY DEF ChainType, Genesis, VaultType, NoVault
<1>2. MemType(Empty)
  BY DEF MemType, Empty, Fields, MarketsType, VaultType, NamesType
<1>3. MemOK(Empty, Genesis, Genesis, {}, {}, 0)
  <2>1. SlugBack(Empty) /\ SlugFound(Empty) /\ Bound(Empty, {}) /\ SpotsIn(Empty, Genesis, {})
    BY DEF SlugBack, SlugFound, Bound, SpotsIn, Empty, Genesis
  <2>2. MemExact(Empty, Genesis, Genesis, {}, 0)
    <3>1. EventsNear(Empty.markets, Genesis, Genesis, {})
      BY DEF EventsNear, StateOf, ChainState, Empty, Genesis
    <3>2. VaultExact(Empty.vault, Genesis, Genesis, {})
      BY DEF VaultExact, VaultNear, Empty, Genesis, NoVault
    <3>3. HoldExact(Empty.hold, Genesis, {}, 0)
      BY DEF HoldExact, Empty, Genesis
    <3> QED
      BY <3>1, <3>2, <3>3 DEF MemExact
  <2> QED
    BY <1>2, <2>1, <2>2, RowsOfExact DEF MemOK
<1>4. /\ log = <<>> /\ head = 0 /\ phase = "live" /\ mem = Empty /\ pending = <<>>
      /\ tables = [n |-> 0, rows |-> <<>>] /\ http = NoHandler /\ starts = 0
      /\ again = 0 /\ unmirrored = {} /\ lost = {} /\ orphans = {}
  BY DEF Init
<1>5. AnySeq(log) /\ AnySeq(pending) /\ Len(log) = 0 /\ Len(pending) = 0
  BY <1>4, SeqEmpty
<1>6. \A l : ChainOf(l, 0) = Genesis /\ PeerOf(l, 0) = Empty
  BY DEF ChainOf, PeerOf
<1>7. LogOK
  BY <1>1, <1>3, <1>5, <1>6, LaterFacts DEF LogOK, LogIs
<1>8. Counters
  BY <1>4, <1>5 DEF Counters, HandlerOK, SetsOK
<1>9. Top(0, 0) = 0
  BY DEF Top
<1>10. MemoryOK
  <2>1. ChainOf(log, head) = Genesis /\ ChainOf(log, Top(head, again)) = Genesis
    BY <1>4, <1>6, <1>9
  <2>2. NamesIn(mem.names, Genesis)
    BY DEF Genesis, NamesIn
  <2> QED
    BY <1>3, <1>4, <2>1, <2>2 DEF MemoryOK
<1>11. Agree(<<>>, Empty, {}, {}) /\ RowsType(<<>>)
  <2>1. DOMAIN <<>> = {}
    OBVIOUS
  <2>2. DOMAIN RowsOf(Empty) = {}
    BY DEF RowsOf, Empty, NoVault
  <2> QED
    BY <2>1, <2>2 DEF Agree, RowsType, Same
<1>12. RowsOK(<<>>, Genesis, Genesis, {} \union {}, {} \union ShellsOf({}), 0)
  BY <1>3, <1>11, Stored
<1>13. TablesOK
  <2>1. tables.n = 0 /\ tables.rows = <<>>
    BY <1>4
  <2>2. Stale(unmirrored, tables.n) = {}
    BY <1>4, StaleFacts
  <2>3. /\ ChainOf(log, tables.n) = Genesis /\ ChainOf(log, Top(tables.n, again)) = Genesis
        /\ lost = {} /\ orphans = {} /\ again = 0
    BY <1>4, <1>6, <1>9, <2>1
  <2>4. TableAt(tables, unmirrored, log, lost, orphans, again)
    BY <1>12, <2>1, <2>2, <2>3, Zenon DEF TableAt
  <2>5. ASSUME NEW i \in 0..Len(pending)
        PROVE  AfterOf(tables, pending, i) = tables /\ LeftOf(unmirrored, pending, i) = unmirrored
    BY <1>5, <2>5, AfterNone
  <2> QED
    BY <2>4, <2>5 DEF TablesOK
<1>14. MirrorOK
  <2>1. AfterOf(tables, pending, Len(pending)) = tables /\ LeftOf(unmirrored, pending, Len(pending)) = {}
    BY <1>4, <1>5, AfterNone
  <2>2. Stale({}, head) = {} /\ tables.rows = <<>>
    BY <1>4, StaleFacts
  <2> QED
    BY <1>4, <1>11, <2>1, <2>2 DEF MirrorOK
<1> QED
  BY <1>7, <1>8, <1>10, <1>13, <1>14 DEF IInv

(* A good log that has one more block than l. *)
Grown(l, l2) ==
  /\ LogIs(l2) /\ Len(l2) = Len(l) + 1
  /\ \A b \in 0..Len(l) : ChainOf(l2, b) = ChainOf(l, b)

(* The chain grows by a block, with the chain and the peer after it. *)
LEMMA LogGrows ==
  ASSUME NEW l, LogIs(l), NEW ev \in Events(ChainOf(l, Len(l))),
         NEW ch, ch = ChainStep(ChainOf(l, Len(l)), ev),
         NEW peer, peer = apply_global_event(PeerOf(l, Len(l)), ev, ch),
         NEW x, x = [ev |-> ev, ch |-> ch, peer |-> peer],
         NEW l2, l2 = Append(l, x)
  PROVE  Grown(l, l2)
<1>1. /\ AnySeq(l)
      /\ \A b \in 1..Len(l) : /\ l[b].ev \in Events(ChainOf(l, b - 1))
                              /\ l[b].ch = ChainStep(ChainOf(l, b - 1), l[b].ev)
      /\ \A b \in 0..Len(l) :
           /\ ChainType(ChainOf(l, b))
           /\ MemOK(PeerOf(l, b), ChainOf(l, b), ChainOf(l, b), {}, {}, 0)
      /\ \A a, b \in 0..Len(l) : a <= b => Later(ChainOf(l, a), ChainOf(l, b))
  BY DEF LogIs
<1>2. PICK n : n = Len(l)
  OBVIOUS
<1>3. n \in Nat
  BY <1>1, <1>2, SeqFacts
<1>4. Longer(l, x, l2)
  BY <1>1, SeqAppend, Zenon
<1>5. /\ AnySeq(l2) /\ Len(l2) = n + 1 /\ l2[n + 1] = x
      /\ \A i \in 1..n : l2[i] = l[i]
  BY <1>2, <1>4 DEF Longer
<1>6. x.ev = ev /\ x.ch = ch /\ x.peer = peer
  OBVIOUS
<1>7. \A b \in 0..n : ChainOf(l2, b) = ChainOf(l, b) /\ PeerOf(l2, b) = PeerOf(l, b)
  BY <1>3, <1>5 DEF ChainOf, PeerOf
<1>8. ChainOf(l2, n + 1) = ch /\ PeerOf(l2, n + 1) = peer
  BY <1>3, <1>5, <1>6 DEF ChainOf, PeerOf
<1>9. n \in 0..n
  BY <1>3
<1>10. ChainType(ch) /\ Later(ChainOf(l, n), ch)
  BY <1>1, <1>2, <1>9, ChainGrows
<1>11. MemOK(peer, ch, ch, {}, {}, 0)
  <2>1. PICK c, m : c = ChainOf(l, n) /\ m = PeerOf(l, n)
    OBVIOUS
  <2>2. MemOK(m, c, c, {}, {}, 0) /\ ChainType(c)
    BY <1>1, <1>2, <1>9, <2>1
  <2>3. NextTop(c, ch, c, ch)
    BY DEF NextTop
  <2>4. ev \in Events(c) /\ ch = ChainStep(c, ev) /\ peer = apply_global_event(m, ev, ch)
    BY <1>2, <2>1
  <2> QED
    BY <2>2, <2>3, <2>4, Applied
<1>12. ASSUME NEW b \in 1..(n + 1)
       PROVE  /\ l2[b].ev \in Events(ChainOf(l2, b - 1))
              /\ l2[b].ch = ChainStep(ChainOf(l2, b - 1), l2[b].ev)
  <2>1. CASE b = n + 1
    <3>1. b - 1 = n
      BY <1>3, <2>1
    <3>2. ChainOf(l2, b - 1) = ChainOf(l, n)
      BY <1>7, <1>9, <3>1
    <3> QED
      BY <1>2, <1>5, <1>6, <2>1, <3>2
  <2>2. CASE b # n + 1
    <3>1. b \in 1..n /\ b - 1 \in 0..n
      BY <1>3, <1>12, <2>2
    <3>2. ChainOf(l2, b - 1) = ChainOf(l, b - 1) /\ l2[b] = l[b]
      BY <1>5, <1>7, <3>1
    <3> QED
      BY <1>1, <1>2, <3>1, <3>2
  <2> QED
    BY <2>1, <2>2
<1>13. ASSUME NEW b \in 0..(n + 1)
       PROVE  /\ ChainType(ChainOf(l2, b))
              /\ MemOK(PeerOf(l2, b), ChainOf(l2, b), ChainOf(l2, b), {}, {}, 0)
  <2>1. CASE b = n + 1
    BY <1>8, <1>10, <1>11, <2>1
  <2>2. CASE b # n + 1
    <3>1. b \in 0..n
      BY <1>3, <1>13, <2>2
    <3> QED
      BY <1>1, <1>2, <1>7, <3>1
  <2> QED
    BY <2>1, <2>2
<1>14. ASSUME NEW a \in 0..(n + 1), NEW b \in 0..(n + 1), a <= b
       PROVE  Later(ChainOf(l2, a), ChainOf(l2, b))
  <2>1. CASE a = n + 1
    <3>1. b = n + 1
      BY <1>3, <1>14, <2>1
    <3> QED
      BY <2>1, <3>1, LaterFacts
  <2>2. CASE a # n + 1
    <3>1. a \in 0..n /\ a <= n
      BY <1>3, <1>14, <2>2
    <3>2. CASE b = n + 1
      <4>1. Later(ChainOf(l, a), ChainOf(l, n))
        BY <1>1, <1>2, <1>9, <3>1
      <4>2. Later(ChainOf(l, a), ch)
        BY <1>10, <4>1, LaterFacts
      <4> QED
        BY <1>7, <1>8, <3>1, <3>2, <4>2
    <3>3. CASE b # n + 1
      <4>1. b \in 0..n
        BY <1>3, <1>14, <3>3
      <4> QED
        BY <1>1, <1>2, <1>7, <1>14, <3>1, <4>1
    <3> QED
      BY <3>2, <3>3
  <2> QED
    BY <2>1, <2>2
<1> QED
  BY <1>2, <1>5, <1>7, <1>12, <1>13, <1>14 DEF LogIs, Grown

(* The first block of the log that memory, tables and write sets refer to. *)
LEMMA BlockFacts ==
  ASSUME LogOK, Counters
  PROVE  /\ Len(log) \in Nat /\ head \in 0..Len(log) /\ Top(head, again) \in 0..Len(log)
         /\ \A i \in 0..Len(pending) :
              /\ AfterOf(tables, pending, i).n \in 0..Len(log)
              /\ Top(AfterOf(tables, pending, i).n, again) \in 0..Len(log)
<1>1. Len(log) \in Nat
  BY SeqFacts DEF LogOK, LogIs
<1>2. head \in 0..Len(log) /\ again \in 0..Len(log)
  BY DEF Counters
<1>3. \A i \in 0..Len(pending) : AfterOf(tables, pending, i).n \in 0..Len(log)
  BY LabelFacts
<1>4. \A n \in 0..Len(log) : Top(n, again) \in 0..Len(log)
  BY <1>1, <1>2 DEF Top
<1> QED
  BY <1>1, <1>2, <1>3, <1>4

(* Produce: what is known of the earlier blocks stays. *)
LEMMA ProduceOK ==
  ASSUME IInv, NEW e \in Events(ChainAt(Len(log))), Produce(e)
  PROVE  IInv'
<1>1. LogOK /\ Counters /\ MemoryOK /\ TablesOK /\ MirrorOK
  BY DEF IInv
<1>2. PICK ch, peer, x, l2 : /\ ch = ChainStep(ChainOf(log, Len(log)), e)
                             /\ peer = apply_global_event(PeerOf(log, Len(log)), e, ch)
                             /\ x = [ev |-> e, ch |-> ch, peer |-> peer]
                             /\ l2 = Append(log, x) /\ l2 = log'
  BY DEF Produce, ChainAt, ChainOf, PeerAt, PeerOf
<1>3. e \in Events(ChainOf(log, Len(log)))
  BY DEF ChainAt, ChainOf
<1>4. /\ LogIs(l2) /\ Len(l2) = Len(log) + 1
      /\ \A b \in 0..Len(log) : ChainOf(l2, b) = ChainOf(log, b)
  <2>1. LogIs(log)
    BY <1>1 DEF LogOK
  <2>2. Grown(log, l2)
    BY <1>2, <1>3, <2>1, LogGrows, Zenon
  <2> QED
    BY <2>2 DEF Grown
<1>5. /\ head' = head /\ phase' = phase /\ mem' = mem /\ pending' = pending /\ tables' = tables
      /\ http' = http /\ starts' = starts /\ again' = again /\ unmirrored' = unmirrored
      /\ lost' = lost /\ orphans' = orphans
  BY DEF Produce, ghosts
<1>6. /\ Len(log) \in Nat /\ head \in 0..Len(log) /\ Top(head, again) \in 0..Len(log)
      /\ \A i \in 0..Len(pending) :
           /\ AfterOf(tables, pending, i).n \in 0..Len(log)
           /\ Top(AfterOf(tables, pending, i).n, again) \in 0..Len(log)
  BY <1>1, BlockFacts
<1>7. LogOK'
  BY <1>2, <1>4 DEF LogOK
<1>8. Counters'
  <2>1. \A n \in 0..Len(log) : n \in 0..Len(l2)
    BY <1>4, <1>6
  <2>2. HandlerOK(http) /\ SetsOK(pending, head)
    BY <1>1 DEF Counters
  <2> QED
    BY <1>1, <1>2, <1>5, <2>1, <2>2 DEF Counters
<1>9. MemoryOK'
  <2>1. ChainOf(l2, head) = ChainOf(log, head) /\ ChainOf(l2, Top(head, again)) = ChainOf(log, Top(head, again))
    BY <1>4, <1>6
  <2> QED
    BY <1>1, <1>2, <1>5, <2>1 DEF MemoryOK
<1>10. TablesOK'
  <2>1. ASSUME NEW i \in 0..Len(pending)
        PROVE  TableAt(AfterOf(tables, pending, i), LeftOf(unmirrored, pending, i), l2, lost, orphans, again)
    <3>1. PICK t, U : t = AfterOf(tables, pending, i) /\ U = LeftOf(unmirrored, pending, i)
      OBVIOUS
    <3>2. TableAt(t, U, log, lost, orphans, again)
      BY <1>1, <2>1, <3>1 DEF TablesOK
    <3>3. ChainOf(l2, t.n) = ChainOf(log, t.n) /\ ChainOf(l2, Top(t.n, again)) = ChainOf(log, Top(t.n, again))
      BY <1>4, <1>6, <2>1, <3>1
    <3> QED
      BY <3>1, <3>2, <3>3, TableStays
  <2> QED
    BY <1>2, <1>5, <2>1 DEF TablesOK
<1>11. MirrorOK'
  BY <1>1, <1>5 DEF MirrorOK
<1> QED
  BY <1>7, <1>8, <1>9, <1>10, <1>11 DEF IInv

(* What the next block, as the index takes it, makes of the memory. *)
Stepped(m2, e, L) ==
  /\ MemOK(m2, ChainOf(log, head + 1), ChainOf(log, Top(head + 1, again)), L, orphans, again)
  /\ Moved(mem, m2, e)
  /\ starts = 0 => NamesIn(m2.names, ChainOf(log, head + 1))

(* It is good at that block, whether it comes for the first time or again. *)
LEMMA StepFacts ==
  ASSUME LogOK, Counters, MemoryOK, head < Len(log), NEW e \in Seen(log[head + 1].ev),
         NEW m2, m2 = apply_global_event(mem, e, log[head + 1].ch),
         NEW L, L = IF e = log[head + 1].ev THEN lost ELSE lost \union {Holding}
  PROVE  Stepped(m2, e, L)
<1>1. PICK n, ev, ch, ch2, top, top2 :
        /\ n = head /\ ev = log[n + 1].ev /\ ch = ChainOf(log, n) /\ ch2 = ChainOf(log, n + 1)
        /\ top = ChainOf(log, Top(n, again)) /\ top2 = ChainOf(log, Top(n + 1, again))
  OBVIOUS
<1>2. Len(log) \in Nat /\ n \in 0..Len(log) /\ again \in 0..Len(log)
  BY <1>1, BlockFacts DEF Counters
<1>3. n + 1 \in 1..Len(log) /\ n + 1 \in 0..Len(log) /\ n + 1 # 0 /\ (n + 1) - 1 = n
  BY <1>1, <1>2
<1>4. ev \in Events(ch) /\ log[n + 1].ch = ChainStep(ch, ev)
  BY <1>1, <1>3 DEF LogOK, LogIs
<1>5. ch2 = log[n + 1].ch
  BY <1>1, <1>3 DEF ChainOf
<1>6. ChainType(ch)
  BY <1>1, <1>2 DEF LogOK, LogIs
<1>7. NextTop(ch, ch2, top, top2)
  <2>1. CASE n < again
    <3>1. Top(n, again) = again /\ Top(n + 1, again) = again /\ n + 1 <= again
      BY <1>2, <2>1 DEF Top
    <3>2. Later(ch2, top)
      BY <1>1, <1>2, <1>3, <3>1 DEF LogOK, LogIs
    <3> QED
      BY <1>1, <3>1, <3>2 DEF NextTop
  <2>2. CASE ~ (n < again)
    <3>1. Top(n, again) = n /\ Top(n + 1, again) = n + 1
      BY <1>2, <2>2 DEF Top
    <3> QED
      BY <1>1, <3>1 DEF NextTop
  <2> QED
    BY <2>1, <2>2
<1>8. MemOK(mem, ch, top, lost, orphans, again)
  BY <1>1 DEF MemoryOK
<1>9. ch2 = ChainStep(ch, ev) /\ m2 = apply_global_event(mem, e, ch2)
  BY <1>1, <1>4, <1>5
<1>10. MemOK(m2, ch2, top2, L, orphans, again) /\ Moved(mem, m2, e)
  <2>1. CASE e = ev
    <3>1. L = lost
      BY <1>1, <2>1
    <3> QED
      BY <1>4, <1>6, <1>7, <1>8, <1>9, <2>1, <3>1, Applied
  <2>2. CASE e # ev
    <3>1. L = lost \union {Holding}
      BY <1>1, <2>2
    <3>2. ev.t \in Fills /\ e = [ev EXCEPT !.n = 1]
      BY <1>1, <2>2 DEF Seen
    <3>3. e.t = ev.t /\ e.n = 1
      BY <1>4, <3>2, EventParts
    <3>4. ev \in Events(ch) /\ ev.t \in Fills
      BY <1>4, <3>2
    <3> QED
      BY <1>6, <1>7, <1>8, <1>9, <3>1, <3>3, <3>4, ForgottenFill
  <2> QED
    BY <2>1, <2>2
<1>11. ASSUME starts = 0
       PROVE  NamesIn(m2.names, ch2)
  <2>1. NamesIn(mem.names, ch)
    BY <1>1, <1>11 DEF MemoryOK
  <2>2. ChainMoves(ch, ev, ch2)
    BY <1>4, <1>6, <1>9, ChainShape, Zenon
  <2>3. ch2.spots = IF ev.t = "spot" THEN ch.spots \union {ev.n} ELSE ch.spots
    BY <2>2 DEF ChainMoves
  <2>4. e = ev
    BY <1>1, <1>2, <1>11 DEF Seen
  <2>5. /\ DOMAIN mem.names \subseteq DOMAIN m2.names
        /\ ev.t = "spot" => NameOf[ev.n] = NoName \/ NameOf[ev.n] \in DOMAIN m2.names
    BY <1>10, <2>4 DEF Moved
  <2> QED
    BY <2>1, <2>3, <2>5 DEF NamesIn
<1> QED
  BY <1>1, <1>10, <1>11 DEF Stepped

(* Steps that change nothing of what the invariant relates. *)
LEMMA StaysOK ==
  ASSUME IInv, UNCHANGED <<log, head, mem, pending, tables, again, unmirrored, lost, orphans>>,
         phase' \in {"live", "replay", "catchup", "tail"}, HandlerOK(http'),
         starts' \in Nat, starts <= starts',
         phase' # "live" => pending = <<>> /\ starts' > 0
  PROVE  IInv'
<1>1. LogOK /\ Counters /\ MemoryOK /\ TablesOK /\ MirrorOK
  BY DEF IInv
<1>2. LogOK' /\ TablesOK' /\ MirrorOK'
  BY <1>1 DEF LogOK, TablesOK, MirrorOK
<1>3. Counters'
  BY <1>1 DEF Counters, HandlerOK
<1>4. MemoryOK'
  <2>1. starts \in Nat
    BY <1>1 DEF Counters
  <2>2. starts' = 0 => starts = 0
    BY <2>1
  <2> QED
    BY <1>1, <2>2 DEF MemoryOK
<1> QED
  BY <1>2, <1>3, <1>4 DEF IInv

(* A handler takes a spot market and its name, or none. *)
LEMMA HandlerStarts ==
  ASSUME IInv, NEW s \in Spot, HttpOrder(s) \/ HttpScan(s)
  PROVE  HandlerOK(http')
<1>1. NamesType(mem.names)
  BY DEF IInv, MemoryOK, MemOK, MemType
<1>2. PICK name : http' = [s |-> s, name |-> name, at |-> "name"] /\ name \in {NoName, NameOf[s]}
  <2>1. CASE HttpOrder(s)
    <3>1. CASE \E x \in DOMAIN mem.names : mem.names[x] = s
      <4>1. PICK x : x = CHOOSE y \in DOMAIN mem.names : mem.names[y] = s
        OBVIOUS
      <4>2. x \in DOMAIN mem.names /\ mem.names[x] = s
        BY <3>1, <4>1
      <4>3. KnownName(mem, s) = x /\ NameOf[s] = x
        BY <1>1, <3>1, <4>1, <4>2 DEF KnownName, NamesType
      <4> QED
        BY <2>1, <4>3 DEF HttpOrder
    <3>2. CASE ~ \E x \in DOMAIN mem.names : mem.names[x] = s
      <4>1. KnownName(mem, s) = NoName
        BY <3>2 DEF KnownName
      <4> QED
        BY <2>1, <4>1 DEF HttpOrder
    <3> QED
      BY <3>1, <3>2
  <2>2. CASE HttpScan(s)
    BY <2>2 DEF HttpScan
  <2> QED
    BY <2>1, <2>2
<1>3. PICK h : h = http'
  OBVIOUS
<1>4. DOMAIN h = {"s", "name", "at"} /\ h.s = s /\ h.name = name /\ h.at = "name"
  BY <1>2, <1>3
<1>5. HandlerOK(h)
  BY <1>2, <1>4 DEF HandlerOK
<1> QED
  BY <1>3, <1>5

(* ReplayEnds, StartCatchup, the start of a handler and steps of other variables. *)
LEMMA QuietOK ==
  ASSUME IInv, \/ ReplayEnds \/ StartCatchup \/ UNCHANGED vars
               \/ \E s \in Spot : HttpOrder(s) \/ HttpScan(s)
  PROVE  IInv'
<1>1. /\ phase \in {"live", "replay", "catchup", "tail"} /\ HandlerOK(http) /\ starts \in Nat
      /\ (phase # "live" => pending = <<>> /\ starts > 0)
  BY DEF IInv, Counters
<1>2. ASSUME http' = http
      PROVE  HandlerOK(http')
  BY <1>1, <1>2
<1>3. CASE ReplayEnds
  BY <1>1, <1>2, <1>3, StaysOK DEF ReplayEnds, ghosts
<1>4. CASE StartCatchup
  BY <1>1, <1>2, <1>4, StaysOK DEF StartCatchup, ghosts
<1>5. ASSUME NEW s \in Spot, HttpOrder(s) \/ HttpScan(s)
      PROVE  IInv'
  <2>1. /\ UNCHANGED <<log, head, mem, pending, tables, again, unmirrored, lost, orphans>>
        /\ phase' = phase /\ starts' = starts
    BY <1>5 DEF HttpOrder, HttpScan, ghosts
  <2>2. HandlerOK(http')
    BY <1>5, HandlerStarts
  <2> QED
    BY <1>1, <2>1, <2>2, StaysOK
<1>6. CASE UNCHANGED vars
  BY <1>1, <1>2, <1>6, StaysOK DEF vars
<1> QED
  BY <1>3, <1>4, <1>5, <1>6

(* Apply: the write set takes the tables along. *)
LEMMA ApplyOK ==
  ASSUME IInv, NEW e, Apply(e)
  PROVE  IInv'
<1>1. LogOK /\ Counters /\ MemoryOK /\ TablesOK /\ MirrorOK
  BY DEF IInv
<1>2. PICK n, L, m2, w, p2, k :
        /\ n = head /\ L = (IF e = log[n + 1].ev THEN lost ELSE lost \union {Holding}) /\ L = lost'
        /\ m2 = apply_global_event(mem, e, log[n + 1].ch) /\ m2 = mem'
        /\ w = WriteSetOf(n + 1, e, mem, m2)
        /\ p2 = Append(pending, w) /\ p2 = pending' /\ k = Len(pending)
  BY DEF Apply
<1>3. /\ n < Len(log) /\ k < 2 /\ head' = n + 1 /\ phase = "live" /\ e \in Seen(log[n + 1].ev)
      /\ log' = log /\ phase' = phase /\ tables' = tables /\ http' = http /\ starts' = starts
      /\ again' = again /\ unmirrored' = unmirrored /\ orphans' = orphans /\ lost \subseteq L
  BY <1>2 DEF Apply, ghosts, MaxPending
<1>4. Stepped(m2, e, L)
  BY <1>1, <1>2, <1>3, StepFacts
<1>5. /\ MemOK(m2, ChainOf(log, n + 1), ChainOf(log, Top(n + 1, again)), L, orphans, again)
      /\ Moved(mem, m2, e) /\ (starts = 0 => NamesIn(m2.names, ChainOf(log, n + 1)))
  BY <1>2, <1>4 DEF Stepped
<1>6. MemType(mem) /\ MemType(m2)
  BY <1>1, <1>5 DEF MemoryOK, MemOK
<1>7. n \in Nat /\ Len(log) \in Nat /\ n + 1 \in 0..Len(log)
  BY <1>1, <1>2, <1>3, BlockFacts
<1>8. AnySeq(pending) /\ k \in 0..1
  BY <1>1, <1>2, <1>3 DEF Counters
<1>9. /\ AnySeq(p2) /\ Len(p2) = k + 1
      /\ \A i \in 0..k : /\ AfterOf(tables, p2, i) = AfterOf(tables, pending, i)
                         /\ LeftOf(unmirrored, p2, i) = LeftOf(unmirrored, pending, i)
      /\ AfterOf(tables, p2, k + 1) = Written(AfterOf(tables, pending, k), w)
      /\ LeftOf(unmirrored, p2, k + 1) = Remaining(LeftOf(unmirrored, pending, k), w)
  <2>1. Len(pending) \in 0..1
    BY <1>2, <1>8
  <2>2. OneMore(tables, unmirrored, pending, w, p2)
    BY <1>2, <1>8, <2>1, AfterAppend, Zenon
  <2>3. Len(p2) = k + 1
    BY <1>2, <2>2 DEF OneMore
  <2> QED
    BY <1>2, <2>2, <2>3 DEF OneMore
<1>10. PICK t, t2, U, U2, X, X2 :
         /\ t = AfterOf(tables, pending, k) /\ t2 = Written(t, w)
         /\ U = LeftOf(unmirrored, pending, k) /\ U2 = Remaining(U, w)
         /\ X = Stale(U, n) /\ X2 = Stale(U2, n + 1)
  OBVIOUS
<1>11. Leaves(X, w, X2)
  <2>1. ASSUME NEW id \in X, id \notin DOMAIN w.rows \union w.del
        PROVE  id \in X2
    <3>1. PICK u \in U : u[1] <= n /\ u[2] = id
      BY <1>10, <2>1, StaleFacts
    <3>2. U \subseteq unmirrored
      BY <1>8, <1>10, LeftSubset
    <3>3. u[1] \in Nat
      BY <1>1, <3>1, <3>2 DEF Counters
    <3>4. u[1] <= n + 1
      BY <1>7, <3>1, <3>3
    <3>5. u \in U2
      BY <1>10, <2>1, <3>1 DEF Remaining
    <3> QED
      BY <1>10, <3>1, <3>4, <3>5, StaleFacts
  <2> QED
    BY <2>1 DEF Leaves
<1>12. Agree(t.rows, mem, X, orphans) /\ RowsType(t.rows)
  <2>1. Agree(t.rows, mem, X, orphans)
    BY <1>1, <1>2, <1>10 DEF MirrorOK
  <2>2. k \in 0..Len(pending)
    BY <1>2, <1>8
  <2>3. TableAt(t, U, log, lost, orphans, again)
    BY <1>1, <1>10, <2>2 DEF TablesOK
  <2>4. RowsType(t.rows)
    BY <2>3 DEF TableAt, RowsOK
  <2> QED
    BY <2>1, <2>4
<1>13. Agree(t2.rows, m2, X2, orphans) /\ RowsType(t2.rows)
  <2>1. w = WriteSetOf(n + 1, e, mem, m2) /\ t2 = Written(t, w)
    BY <1>2, <1>10
  <2> QED
    BY <1>5, <1>6, <1>11, <1>12, <2>1, WrittenAgree, Zenon
<1>14. t2.n = n + 1 /\ w.n = n + 1
  BY <1>2, <1>10, WrittenShape
<1>15. TableAt(t2, U2, log, L, orphans, again)
  <2>1. RowsOK(t2.rows, ChainOf(log, n + 1), ChainOf(log, Top(n + 1, again)),
               L \union X2, orphans \union ShellsOf(X2), again)
    BY <1>5, <1>13, Stored
  <2> QED
    BY <1>10, <1>14, <2>1 DEF TableAt
<1>16. TablesOK'
  <2>1. ASSUME NEW i \in 0..Len(p2)
        PROVE  TableAt(AfterOf(tables, p2, i), LeftOf(unmirrored, p2, i), log, L, orphans, again)
    <3>1. CASE i = k + 1
      BY <1>9, <1>10, <1>15, <3>1
    <3>2. CASE i # k + 1
      <4>1. i \in 0..k
        BY <1>8, <1>9, <2>1, <3>2
      <4>2. PICK ti, Ui : ti = AfterOf(tables, pending, i) /\ Ui = LeftOf(unmirrored, pending, i)
        OBVIOUS
      <4>3. TableAt(ti, Ui, log, lost, orphans, again)
        BY <1>1, <1>2, <4>1, <4>2 DEF TablesOK
      <4>4. TableAt(ti, Ui, log, L, orphans, again)
        BY <1>3, <4>3, TableStays
      <4> QED
        BY <1>9, <4>1, <4>2, <4>4
    <3> QED
      BY <3>1, <3>2
  <2> QED
    BY <1>2, <1>3, <2>1 DEF TablesOK
<1>17. MirrorOK'
  BY <1>2, <1>3, <1>9, <1>10, <1>13 DEF MirrorOK
<1>18. MemoryOK'
  BY <1>2, <1>3, <1>5 DEF MemoryOK
<1>19. Counters'
  <2>1. Longer(pending, w, p2)
    BY <1>2, <1>8, SeqAppend, Zenon
  <2>2. /\ \A i \in 1..k : p2[i] = pending[i] /\ pending[i].n \in 0..Len(log)
      /\ \A i \in 1..k : pending[i].n \in 0..n /\ \A f \in Event : EventId(f) \notin pending[i].del
    BY <1>1, <1>2, <2>1 DEF Longer, Counters, SetsOK
  <2>3. \A i \in 1..Len(p2) : i = k + 1 \/ i \in 1..k
    BY <1>8, <1>9
  <2>4. p2[k + 1] = w /\ w.n \in 0..Len(log) /\ w.n \in 0..(n + 1)
    BY <1>2, <1>7, <1>14, <2>1 DEF Longer
  <2>5. \A i \in 1..Len(p2) : p2[i].n \in 0..Len(log)
    BY <2>2, <2>3, <2>4
  <2>6. SetsOK(p2, n + 1)
    <3>1. \A f \in Event : EventId(f) \notin w.del
      <4>1. SUFFICES ASSUME NEW f \in Event, EventId(f) \in DOMAIN RowsOf(mem)
                     PROVE  EventId(f) \in DOMAIN RowsOf(m2)
        BY <1>2, <1>10, WrittenShape
      <4>2. EventId(f) \in DOMAIN mem.markets
        BY <1>6, <4>1, IdFacts, RowsOfDomain DEF Same
      <4> QED
        BY <1>5, <1>6, <4>2, IdFacts, RowsOfDomain DEF Same, Moved
    <3>2. \A i \in 1..Len(p2) : p2[i].n \in 0..(n + 1) /\ \A f \in Event : EventId(f) \notin p2[i].del
      BY <1>7, <2>2, <2>3, <2>4, <3>1
    <3>3. Len(p2) = 2 => p2[1].n <= p2[2].n
      <4>1. ASSUME Len(p2) = 2
            PROVE  k = 1 /\ 1 \in 1..k /\ k + 1 = 2
        BY <1>8, <1>9, <4>1
      <4> QED
        BY <1>7, <1>14, <2>2, <2>4, <4>1
    <3> QED
      BY <3>2, <3>3 DEF SetsOK
  <2>7. Len(p2) \in 0..2
    BY <1>8, <1>9
  <2>8. HandlerOK(http)
    BY <1>1 DEF Counters
  <2> QED
    BY <1>1, <1>2, <1>3, <1>7, <1>9, <2>5, <2>6, <2>7, <2>8 DEF Counters
<1>20. LogOK'
  BY <1>1, <1>3 DEF LogOK
<1> QED
  BY <1>16, <1>17, <1>18, <1>19, <1>20 DEF IInv

(* Replay: the changes are remembered as not stored. *)
LEMMA ReplayOK ==
  ASSUME IInv, NEW e, Replay(e)
  PROVE  IInv'
<1>1. LogOK /\ Counters /\ MemoryOK /\ TablesOK /\ MirrorOK
  BY DEF IInv
<1>2. PICK n, L, m2, C, U, U2 :
        /\ n = head /\ L = (IF e = log[n + 1].ev THEN lost ELSE lost \union {Holding}) /\ L = lost'
        /\ m2 = apply_global_event(mem, e, log[n + 1].ch) /\ m2 = mem'
        /\ C = Changed(RowsOf(mem), RowsOf(m2))
        /\ U = unmirrored /\ U2 = U \union ({n + 1} \X C) /\ U2 = unmirrored'
  BY DEF Replay
<1>3. /\ n < Len(log) /\ head' = n + 1 /\ phase # "live" /\ e \in Seen(log[n + 1].ev)
      /\ log' = log /\ phase' = phase /\ pending' = pending /\ tables' = tables /\ http' = http
      /\ starts' = starts /\ again' = again /\ orphans' = orphans /\ lost \subseteq L
  BY <1>2 DEF Replay
<1>4. Stepped(m2, e, L)
  BY <1>1, <1>2, <1>3, StepFacts
<1>5. /\ MemOK(m2, ChainOf(log, n + 1), ChainOf(log, Top(n + 1, again)), L, orphans, again)
      /\ Moved(mem, m2, e) /\ (starts = 0 => NamesIn(m2.names, ChainOf(log, n + 1)))
  BY <1>2, <1>4 DEF Stepped
<1>6. MemType(mem) /\ MemType(m2)
  BY <1>1, <1>5 DEF MemoryOK, MemOK
<1>7. n \in Nat /\ Len(log) \in Nat /\ n + 1 \in 0..Len(log)
  BY <1>1, <1>2, <1>3, BlockFacts
<1>8. pending = <<>> /\ Len(pending) = 0
  BY <1>1, <1>3, SeqEmpty DEF Counters
<1>9. /\ AfterOf(tables, pending, 0) = tables /\ LeftOf(U, pending, 0) = U
      /\ LeftOf(U2, pending, 0) = U2
  BY AfterNone
<1>10. PICK X, X2 : X = Stale(U, n) /\ X2 = Stale(U2, n + 1)
  OBVIOUS
<1>11. X \subseteq X2
  <2>1. ASSUME NEW id \in X
        PROVE  id \in X2
    <3>1. PICK u \in U : u[1] <= n /\ u[2] = id
      BY <1>10, <2>1, StaleFacts
    <3>2. u[1] \in Nat
      BY <1>1, <1>2, <3>1 DEF Counters
    <3>3. u[1] <= n + 1 /\ u \in U2
      BY <1>2, <1>7, <3>1, <3>2
    <3> QED
      BY <1>10, <3>1, <3>3, StaleFacts
  <2> QED
    BY <2>1
<1>12. C \subseteq X2
  <2>1. ASSUME NEW id \in C
        PROVE  id \in X2
    <3>1. <<n + 1, id>> \in U2 /\ <<n + 1, id>>[1] = n + 1 /\ <<n + 1, id>>[2] = id
      BY <1>2, <2>1
    <3>2. n + 1 <= n + 1
      BY <1>7
    <3> QED
      BY <1>10, <3>1, <3>2, StaleFacts
  <2> QED
    BY <2>1
<1>13. Agree(tables.rows, mem, X, orphans)
  BY <1>1, <1>2, <1>8, <1>9, <1>10 DEF MirrorOK
<1>14. Agree(tables.rows, m2, X2, orphans)
  BY <1>2, <1>5, <1>6, <1>11, <1>12, <1>13, ReplayedAgree
<1>15. MirrorOK'
  BY <1>2, <1>3, <1>8, <1>9, <1>10, <1>14 DEF MirrorOK
<1>16. TablesOK'
  <2>1. TableAt(tables, U, log, lost, orphans, again)
    BY <1>1, <1>2, <1>8, <1>9 DEF TablesOK
  <2>2. U \subseteq U2
    BY <1>2
  <2>3. TableAt(tables, U2, log, L, orphans, again)
    BY <1>3, <2>1, <2>2, TableStays
  <2>4. \A i \in 0..Len(pending) : i = 0
    BY <1>8
  <2> QED
    BY <1>2, <1>3, <1>9, <2>3, <2>4 DEF TablesOK
<1>17. MemoryOK'
  BY <1>2, <1>3, <1>5 DEF MemoryOK
<1>18. Counters'
  <2>1. \A u \in U2 : u[1] \in Nat
    <3>1. \A u \in U : u[1] \in Nat
      BY <1>1, <1>2 DEF Counters
    <3>2. \A u \in {n + 1} \X C : u[1] = n + 1
      OBVIOUS
    <3> QED
      BY <1>2, <1>7, <3>1, <3>2
  <2>2. SetsOK(pending, n + 1) /\ HandlerOK(http)
    BY <1>1, <1>8 DEF Counters, SetsOK
  <2> QED
    BY <1>1, <1>2, <1>3, <1>7, <2>1, <2>2 DEF Counters
<1>19. LogOK'
  BY <1>1, <1>3 DEF LogOK
<1> QED
  BY <1>15, <1>16, <1>17, <1>18, <1>19 DEF IInv

(* With no write set on its way the tables are what they are. *)
LEMMA NothingPending ==
  ASSUME NEW p, p = <<>>
  PROVE  /\ Len(p) = 0
         /\ \A t, U : \A i \in 0..Len(p) : AfterOf(t, p, i) = t /\ LeftOf(U, p, i) = U
         /\ \A t, U : AfterOf(t, p, Len(p)) = t /\ LeftOf(U, p, Len(p)) = U
<1>1. Len(p) = 0
  BY SeqEmpty
<1>2. \A i \in 0..Len(p) : i = 0
  BY <1>1
<1> QED
  BY <1>1, <1>2, AfterNone

(* Tables in which every change is stored. *)
LEMMA FreshTable ==
  ASSUME NEW t, NEW l, NEW L, NEW O, NEW a,
         RowsOK(t.rows, ChainOf(l, t.n), ChainOf(l, Top(t.n, a)), L, O, a)
  PROVE  TableAt(t, {}, l, L, O, a)
<1>1. PICK ch, top, X : ch = ChainOf(l, t.n) /\ top = ChainOf(l, Top(t.n, a)) /\ X = Stale({}, t.n)
  OBVIOUS
<1>2. RowsOK(t.rows, ch, top, L, O, a)
  BY <1>1
<1>3. L \subseteq L \union X /\ O \subseteq O \union ShellsOf(X)
  OBVIOUS
<1>4. RowsOK(t.rows, ch, top, L \union X, O \union ShellsOf(X), a)
  BY <1>2, <1>3, RowsWeaken
<1> QED
  BY <1>1, <1>4 DEF TableAt

(* Rows that agree still do when more is known to be stale. *)
LEMMA AgreeWeaken ==
  ASSUME NEW rows, NEW m, NEW X, NEW O, Agree(rows, m, X, O), NEW X2, X \subseteq X2
  PROVE  Agree(rows, m, X2, O)
BY DEF Agree

(* FullWrite: the rows of the memory replace the tables. *)
LEMMA FullWriteOK ==
  ASSUME IInv, FullWrite
  PROVE  IInv'
<1>1. LogOK /\ Counters /\ MemoryOK /\ TablesOK /\ MirrorOK
  BY DEF IInv
<1>2. PICK t2 : t2 = tables'
  OBVIOUS
<1>3. /\ pending = <<>> /\ t2 = [n |-> head, rows |-> RowsOf(mem)] /\ phase' = "live"
      /\ unmirrored' = {} /\ log' = log /\ head' = head /\ mem' = mem /\ pending' = pending
      /\ http' = http /\ starts' = starts /\ again' = again /\ lost' = lost /\ orphans' = orphans
  BY <1>2 DEF FullWrite
<1>4. t2.n = head /\ t2.rows = RowsOf(mem)
  BY <1>3
<1>5. PICK ch, top : ch = ChainOf(log, head) /\ top = ChainOf(log, Top(head, again))
  OBVIOUS
<1>6. MemOK(mem, ch, top, lost, orphans, again)
  BY <1>1, <1>5 DEF MemoryOK
<1>7. MemType(mem)
  BY <1>6 DEF MemOK
<1>8. Agree(t2.rows, mem, {}, orphans) /\ RowsType(t2.rows)
  BY <1>4, <1>7, OwnRowsAgree
<1>9. RowsOK(t2.rows, ch, top, lost, orphans, again)
  <2>1. RowsOK(t2.rows, ch, top, lost \union {}, orphans \union ShellsOf({}), again)
    BY <1>6, <1>8, Stored
  <2>2. lost \union {} = lost /\ orphans \union ShellsOf({}) = orphans
    BY StaleFacts
  <2> QED
    BY <2>1, <2>2
<1>10. TableAt(t2, {}, log, lost, orphans, again)
  BY <1>4, <1>5, <1>9, FreshTable
<1>11. TablesOK'
  BY <1>2, <1>3, <1>10, NothingPending DEF TablesOK
<1>12. MirrorOK'
  <2>1. Stale({}, head) = {}
    BY StaleFacts
  <2>2. AfterOf(t2, pending, Len(pending)) = t2 /\ LeftOf({}, pending, Len(pending)) = {}
    BY <1>3, NothingPending
  <2> QED
    BY <1>2, <1>3, <1>8, <2>1, <2>2 DEF MirrorOK
<1>13. Counters'
  <2>1. HandlerOK(http) /\ SetsOK(pending, head)
    BY <1>1 DEF Counters
  <2> QED
    BY <1>1, <1>2, <1>3, <1>4, <2>1 DEF Counters
<1>14. LogOK' /\ MemoryOK'
  BY <1>1, <1>3 DEF LogOK, MemoryOK
<1> QED
  BY <1>11, <1>12, <1>13, <1>14 DEF IInv

(* Overlap: the memory of the last block stands for the blocks before it. *)
LEMMA OverlapOK ==
  ASSUME IInv, NEW k \in 0..head, Overlap(k)
  PROVE  IInv'
<1>1. LogOK /\ Counters /\ MemoryOK /\ TablesOK /\ MirrorOK
  BY DEF IInv
<1>2. /\ phase = "live" /\ starts > 0 /\ k < head /\ again = 0 /\ pending = <<>>
      /\ tables = [n |-> head, rows |-> RowsOf(mem)] /\ again' = head /\ head' = k
      /\ log' = log /\ phase' = phase /\ mem' = mem /\ pending' = pending /\ tables' = tables
      /\ http' = http /\ starts' = starts /\ unmirrored' = unmirrored /\ lost' = lost
      /\ orphans' = orphans
  BY DEF Overlap
<1>3. Len(log) \in Nat /\ head \in 0..Len(log) /\ k \in 0..Len(log) /\ head # 0 /\ k <= head
  BY <1>1, <1>2, BlockFacts
<1>4. Top(head, 0) = head /\ Top(k, head) = head /\ Top(head, head) = head
  BY <1>2, <1>3 DEF Top
<1>5. PICK ch, old, n : ch = ChainOf(log, head) /\ old = ChainOf(log, k) /\ n = head
  OBVIOUS
<1>6. MemOK(mem, ch, ch, lost, orphans, 0)
  BY <1>1, <1>2, <1>4, <1>5 DEF MemoryOK
<1>7. Later(old, ch)
  BY <1>1, <1>3, <1>5 DEF LogOK, LogIs
<1>8. MemOK(mem, old, ch, lost, orphans, n)
  BY <1>3, <1>5, <1>6, <1>7, AgainOK
<1>9. MemoryOK'
  <2>1. starts # 0
    BY <1>1, <1>2 DEF Counters
  <2> QED
    BY <1>2, <1>4, <1>5, <1>8, <2>1 DEF MemoryOK
<1>10. tables.n = head /\ tables.rows = RowsOf(mem)
  BY <1>2
<1>11. PICK X : X = Stale(unmirrored, head)
  OBVIOUS
<1>12. RowsOK(tables.rows, ch, ch, lost \union X, orphans \union ShellsOf(X), n)
  <2>1. TableAt(tables, unmirrored, log, lost, orphans, again)
    BY <1>1, <1>2, NothingPending DEF TablesOK
  <2>2. RowsOK(tables.rows, ch, ch, lost \union X, orphans \union ShellsOf(X), 0)
    BY <1>2, <1>4, <1>5, <1>10, <1>11, <2>1 DEF TableAt
  <2> QED
    BY <2>2, TwiceWeaken
<1>13. TableAt(tables, unmirrored, log, lost, orphans, n)
  BY <1>4, <1>5, <1>10, <1>11, <1>12 DEF TableAt
<1>14. TablesOK'
  BY <1>2, <1>5, <1>13, NothingPending DEF TablesOK
<1>15. Agree(tables.rows, mem, Stale(unmirrored, k), orphans)
  <2>1. MemType(mem)
    BY <1>6 DEF MemOK
  <2>2. Agree(tables.rows, mem, {}, orphans)
    BY <1>10, <2>1, OwnRowsAgree
  <2> QED
    BY <2>2, AgreeWeaken
<1>16. MirrorOK'
  <2>1. /\ AfterOf(tables, pending, Len(pending)) = tables
        /\ LeftOf(unmirrored, pending, Len(pending)) = unmirrored
    BY <1>2, NothingPending
  <2> QED
    BY <1>2, <1>15, <2>1 DEF MirrorOK
<1>17. Counters'
  <2>1. HandlerOK(http) /\ SetsOK(pending, k)
    BY <1>1, <1>2, SeqEmpty DEF Counters, SetsOK
  <2> QED
    BY <1>1, <1>2, <1>3, <2>1 DEF Counters
<1>18. LogOK'
  BY <1>1, <1>2 DEF LogOK
<1> QED
  BY <1>9, <1>14, <1>16, <1>17, <1>18 DEF IInv

(* The write sets that are left keep their order. *)
LEMMA SetsTail ==
  ASSUME NEW p, NEW p2, NEW h, SetsOK(p, h), Len(p) \in 1..2, Len(p2) = Len(p) - 1,
         \A i \in 1..Len(p2) : p2[i] = p[i + 1]
  PROVE  SetsOK(p2, h)
<1>1. Len(p2) # 2 /\ \A i \in 1..Len(p2) : i + 1 \in 1..Len(p)
  OBVIOUS
<1> QED
  BY <1>1 DEF SetsOK

(* Commit: the tables become what they were known to become. *)
LEMMA CommitOK ==
  ASSUME IInv, Commit
  PROVE  IInv'
<1>1. LogOK /\ Counters /\ MemoryOK /\ TablesOK /\ MirrorOK
  BY DEF IInv
<1>2. PICK p, p2, t2, U2 :
        /\ p = pending /\ p2 = Tail(p) /\ p2 = pending'
        /\ t2 = Written(tables, Head(p)) /\ t2 = tables'
        /\ U2 = Remaining(unmirrored, Head(p)) /\ U2 = unmirrored'
  BY DEF Commit
<1>3. /\ p # <<>> /\ log' = log /\ head' = head /\ phase' = phase /\ mem' = mem /\ http' = http
      /\ starts' = starts /\ again' = again /\ lost' = lost /\ orphans' = orphans
  BY <1>2 DEF Commit
<1>4. AnySeq(p) /\ Len(p) \in 0..2
  BY <1>1, <1>2 DEF Counters
<1>5. /\ AnySeq(p2) /\ Len(p2) = Len(p) - 1 /\ Len(p) \in 1..2 /\ Head(p) = p[1]
      /\ \A i \in 1..Len(p2) : p2[i] = p[i + 1]
      /\ \A i \in 0..Len(p2) : /\ AfterOf(t2, p2, i) = AfterOf(tables, p, i + 1)
                               /\ LeftOf(U2, p2, i) = LeftOf(unmirrored, p, i + 1)
  <2>1. OneLess(tables, unmirrored, p, p2)
    BY <1>2, <1>3, <1>4, AfterTail, Zenon
  <2> QED
    BY <1>2, <2>1 DEF OneLess
<1>6. TablesOK'
  <2>1. ASSUME NEW i \in 0..Len(p2)
        PROVE  TableAt(AfterOf(t2, p2, i), LeftOf(U2, p2, i), log, lost, orphans, again)
    <3>1. i + 1 \in 0..Len(p)
      BY <1>5, <2>1
    <3>2. TableAt(AfterOf(tables, p, i + 1), LeftOf(unmirrored, p, i + 1), log, lost, orphans, again)
      BY <1>1, <1>2, <3>1 DEF TablesOK
    <3> QED
      BY <1>5, <2>1, <3>2
  <2> QED
    BY <1>2, <1>3, <2>1 DEF TablesOK
<1>7. MirrorOK'
  <2>1. Len(p2) \in 0..Len(p2) /\ Len(p2) + 1 = Len(p)
    BY <1>5
  <2>2. /\ AfterOf(t2, p2, Len(p2)) = AfterOf(tables, p, Len(p))
        /\ LeftOf(U2, p2, Len(p2)) = LeftOf(unmirrored, p, Len(p))
    BY <1>5, <2>1
  <2> QED
    BY <1>1, <1>2, <1>3, <2>2 DEF MirrorOK
<1>8. Counters'
  <2>1. t2.n = p[1].n
    BY <1>2, <1>5 DEF Written
  <2>2. t2.n \in 0..Len(log)
    BY <1>1, <1>2, <1>5, <2>1 DEF Counters
  <2>3. ASSUME NEW i \in 1..Len(p2)
        PROVE  p2[i].n \in 0..Len(log)
    <3>1. i + 1 \in 1..Len(p) /\ p2[i] = p[i + 1]
      BY <1>5, <2>3
    <3> QED
      BY <1>1, <1>2, <3>1 DEF Counters
  <2>4. U2 \subseteq unmirrored
    BY <1>2 DEF Remaining
  <2>5. Len(p2) \in 0..2
    BY <1>5
  <2>6. phase = "live"
    BY <1>1, <1>2, <1>3 DEF Counters
  <2>7. HandlerOK(http) /\ SetsOK(p2, head)
    BY <1>1, <1>2, <1>4, <1>5, SetsTail DEF Counters
  <2> QED
    BY <1>1, <1>2, <1>3, <1>5, <2>2, <2>3, <2>4, <2>5, <2>6, <2>7 DEF Counters
<1>9. LogOK' /\ MemoryOK'
  BY <1>1, <1>3 DEF LogOK, MemoryOK
<1> QED
  BY <1>6, <1>7, <1>8, <1>9 DEF IInv

(* Rows s are rows t but for the keys in K, and have no event that t lacks. *)
Behind(s, t, K) ==
  /\ RowsType(s) /\ \A id : id \notin K => Same(s, t, id)
  /\ \A e \in Event : EventId(e) \in DOMAIN s => EventId(e) \in DOMAIN t

(* They are as good, when the keys in K are lost. *)
LEMMA BehindOK ==
  ASSUME NEW s, NEW t, NEW K, Behind(s, t, K),
         NEW ch, NEW top, NEW L, NEW O, NEW twice, RowsOK(t, ch, top, L, O, twice),
         NEW L2, L \subseteq L2, \A id \in K : id \in L2 \/ \E r \in Spot : id = Shell(r),
         NEW O2, O \subseteq O2, ShellsOf(K) \subseteq O2
  PROVE  RowsOK(s, ch, top, L2, O2, twice)
<1>1. /\ \A e, r : EventId(e) # Shell(r) /\ Vault # Shell(r) /\ Holding # Shell(r)
      /\ \A r \in Spot : Owner(r) \in Event
  BY IdFacts, LegFacts
<1>2. \A id : id \notin K => Same(s, t, id)
  BY DEF Behind
<1>3. \A e \in Event : EventId(e) \notin L2 => EventId(e) \notin K
  BY <1>1
<1>4. NoEvent(L2) => SlugsDiffer(s)
  <2>1. SUFFICES ASSUME NoEvent(L2)
                 PROVE  SlugsDiffer(s)
    OBVIOUS
  <2>2. SlugsDiffer(t)
    BY <2>1 DEF RowsOK, NoEvent
  <2>3. \A e \in Event : Same(s, t, EventId(e))
    BY <1>2, <1>3, <2>1 DEF NoEvent
  <2> QED
    BY <2>2, <2>3 DEF SlugsDiffer, Same
<1>5. ContestedIn(s, O2)
  <2>1. SUFFICES ASSUME NEW r \in Spot, Shell(r) \in DOMAIN s, EventId(Owner(r)) \in DOMAIN s
                 PROVE  r \in O2
    BY DEF ContestedIn
  <2>2. CASE Shell(r) \in K
    BY <2>2 DEF ShellsOf
  <2>3. CASE Shell(r) \notin K
    <3>1. Shell(r) \in DOMAIN t /\ EventId(Owner(r)) \in DOMAIN t
      BY <1>1, <1>2, <2>1, <2>3 DEF Behind, Same
    <3> QED
      BY <3>1 DEF RowsOK, ContestedIn
  <2> QED
    BY <2>2, <2>3
<1>6. RowsExact(s, ch, top, L2, twice)
  <2>1. RowsExact(t, ch, top, L2, twice)
    BY ExactWeaken DEF RowsOK
  <2>2. \A e \in Event : EventId(e) \notin L2 => StateOf(s, e) = StateOf(t, e)
    BY <1>2, <1>3 DEF StateOf, Same
  <2>3. Vault \notin L2 => VaultOf(s) = VaultOf(t)
    BY <1>1, <1>2 DEF VaultOf, Same
  <2>4. Holding \notin L2 => HoldOf(s) = HoldOf(t)
    BY <1>1, <1>2 DEF HoldOf, Same
  <2> QED
    BY <2>1, <2>2, <2>3, <2>4 DEF RowsExact, EventsNear, VaultExact, HoldExact
<1> QED
  BY <1>4, <1>5, <1>6 DEF RowsOK, Behind

(* And they agree with a memory, when the keys in K are stale. *)
LEMMA BehindAgree ==
  ASSUME NEW s, NEW t, NEW K, Behind(s, t, K), NEW m, NEW X, NEW O, Agree(t, m, X, O),
         NEW X2, K \subseteq X2, X \subseteq X2
  PROVE  Agree(s, m, X2, O)
<1>1. \A id : id \notin X2 => Same(s, t, id)
  BY DEF Behind
<1>2. \A e \in Event : EventId(e) \in DOMAIN s => EventId(e) \in DOMAIN m.markets
  BY DEF Behind, Agree
<1>3. ASSUME NEW id, id \notin {Shell(r) : r \in Spot} \union X2
      PROVE  Same(s, RowsOf(m), id)
  <2>1. Same(t, RowsOf(m), id)
    BY <1>3 DEF Agree
  <2> QED
    BY <1>1, <1>3, <2>1 DEF Same
<1>4. ASSUME NEW r \in Spot, Shell(r) \notin X2, Shell(r) \in DOMAIN s, r \notin O
      PROVE  Shell(r) \in DOMAIN m.markets
  <2>1. Shell(r) \in DOMAIN t /\ Shell(r) \notin X
    BY <1>1, <1>4 DEF Same
  <2> QED
    BY <1>4, <2>1 DEF Agree
<1> QED
  BY <1>2, <1>3, <1>4 DEF Agree

(* The keys of a write set. *)
KeysOf(w) == DOMAIN w.rows \union w.del

(* The parts of the tables after a write set. *)
LEMMA WrittenParts ==
  ASSUME NEW t, NEW w, NEW t2, t2 = Written(t, w)
  PROVE  /\ t2.n = w.n
         /\ DOMAIN t2.rows = (DOMAIN t.rows \ w.del) \union DOMAIN w.rows
         /\ \A id \in DOMAIN t2.rows :
              t2.rows[id] = IF id \in DOMAIN w.rows THEN w.rows[id] ELSE t.rows[id]
<1>1. PICK k : k = Drop(t.rows, w.del)
  OBVIOUS
<1>2. DOMAIN k = DOMAIN t.rows \ w.del /\ \A id \in DOMAIN k : k[id] = t.rows[id]
  BY <1>1 DEF Drop
<1>3. t2 = [n |-> w.n, rows |-> [id \in DOMAIN k \union DOMAIN w.rows |->
                                   IF id \in DOMAIN w.rows THEN w.rows[id] ELSE k[id]]]
  BY <1>1 DEF Written
<1>4. /\ t2.n = w.n /\ DOMAIN t2.rows = DOMAIN k \union DOMAIN w.rows
      /\ \A id \in DOMAIN t2.rows : t2.rows[id] = IF id \in DOMAIN w.rows THEN w.rows[id] ELSE k[id]
  BY <1>3
<1> QED
  BY <1>2, <1>4

(* Tables to which a write set has not come, and no later one or one. *)
LEMMA Skipped ==
  ASSUME NEW t, NEW w, NEW v, RowsType(t.rows), \A e \in Event : EventId(e) \notin w.del,
         NEW t1, t1 = Written(t, w), NEW t2, t2 = Written(t1, v), NEW s2, s2 = Written(t, v)
  PROVE  /\ RowsType(t1.rows) => Behind(t.rows, t1.rows, KeysOf(w))
         /\ RowsType(t2.rows) => Behind(s2.rows, t2.rows, KeysOf(w) \ KeysOf(v))
<1>1. /\ DOMAIN t1.rows = (DOMAIN t.rows \ w.del) \union DOMAIN w.rows
      /\ \A id \in DOMAIN t1.rows :
           t1.rows[id] = IF id \in DOMAIN w.rows THEN w.rows[id] ELSE t.rows[id]
  BY WrittenParts
<1>2. /\ DOMAIN t2.rows = (DOMAIN t1.rows \ v.del) \union DOMAIN v.rows
      /\ \A id \in DOMAIN t2.rows :
           t2.rows[id] = IF id \in DOMAIN v.rows THEN v.rows[id] ELSE t1.rows[id]
  BY WrittenParts
<1>3. /\ DOMAIN s2.rows = (DOMAIN t.rows \ v.del) \union DOMAIN v.rows
      /\ \A id \in DOMAIN s2.rows :
           s2.rows[id] = IF id \in DOMAIN v.rows THEN v.rows[id] ELSE t.rows[id]
  BY WrittenParts
<1>4. ASSUME RowsType(t1.rows)
      PROVE  Behind(t.rows, t1.rows, KeysOf(w))
  <2>1. \A id : id \notin KeysOf(w) => Same(t.rows, t1.rows, id)
    BY <1>1 DEF KeysOf, Same
  <2>2. \A e \in Event : EventId(e) \in DOMAIN t.rows => EventId(e) \in DOMAIN t1.rows
    BY <1>1
  <2> QED
    BY <2>1, <2>2 DEF Behind
<1>5. ASSUME RowsType(t2.rows)
      PROVE  Behind(s2.rows, t2.rows, KeysOf(w) \ KeysOf(v))
  <2>1. \A id : id \in DOMAIN v.rows => Same(s2.rows, t2.rows, id)
    BY <1>2, <1>3 DEF Same
  <2>2. \A id : id \notin DOMAIN v.rows /\ id \in v.del => Same(s2.rows, t2.rows, id)
    BY <1>2, <1>3 DEF Same
  <2>3. \A id : id \notin KeysOf(v) /\ id \notin KeysOf(w) => Same(s2.rows, t2.rows, id)
    BY <1>1, <1>2, <1>3 DEF Same, KeysOf
  <2>4. \A id : id \notin KeysOf(w) \ KeysOf(v) => Same(s2.rows, t2.rows, id)
    BY <2>1, <2>2, <2>3 DEF KeysOf
  <2>5. \A e \in Event : EventId(e) \in DOMAIN s2.rows => EventId(e) \in DOMAIN t2.rows
    BY <1>1, <1>2, <1>3
  <2>6. \A id \in DOMAIN s2.rows : (id \in DOMAIN t2.rows /\ s2.rows[id] = t2.rows[id])
                                   \/ (id \in DOMAIN t.rows /\ s2.rows[id] = t.rows[id])
    BY <1>2, <1>3
  <2>7. RowsType(s2.rows)
    BY <1>5, <2>6 DEF RowsType
  <2> QED
    BY <2>4, <2>5, <2>7 DEF Behind
<1> QED
  BY <1>4, <1>5

(* A write set that is lost leaves the tables good, its keys apart. *)
LEMMA TableSkips ==
  ASSUME NEW t, NEW w, NEW v, NEW l, NEW L, NEW O, NEW a, RowsType(t.rows),
         \A e \in Event : EventId(e) \notin w.del, w.n <= v.n,
         NEW t2, t2 = Written(Written(t, w), v), NEW s2, s2 = Written(t, v),
         NEW U, TableAt(t2, Remaining(Remaining(U, w), v), l, L, O, a),
         NEW U2, U2 = Remaining(U \union ({w.n} \X KeysOf(w)), v)
  PROVE  TableAt(s2, U2, l, L, O, a) /\ Behind(s2.rows, t2.rows, KeysOf(w) \ KeysOf(v))
<1>1. PICK K, n, X, X2, R : /\ K = KeysOf(w) \ KeysOf(v) /\ n = v.n
                            /\ R = Remaining(Remaining(U, w), v)
                            /\ X = Stale(R, n) /\ X2 = Stale(U2, n)
  OBVIOUS
<1>2. t2.n = n /\ s2.n = n
  BY <1>1, WrittenParts
<1>3. RowsOK(t2.rows, ChainOf(l, n), ChainOf(l, Top(n, a)), L \union X, O \union ShellsOf(X), a)
  BY <1>1, <1>2 DEF TableAt
<1>4. Behind(s2.rows, t2.rows, K)
  <2>1. RowsType(t2.rows)
    BY <1>3 DEF RowsOK
  <2> QED
    BY <1>1, <2>1, Skipped
<1>5. X \subseteq X2 /\ ShellsOf(X) \subseteq ShellsOf(X2)
  <2>1. R \subseteq U2
    BY <1>1 DEF Remaining
  <2>2. Stale(R, n) \subseteq Stale(U2, n)
    BY <2>1 DEF Stale
  <2>3. X \subseteq X2
    BY <1>1, <2>2
  <2> QED
    BY <2>3 DEF ShellsOf
<1>6. K \subseteq X2 /\ ShellsOf(K) \subseteq ShellsOf(X2)
  <2>1. ASSUME NEW id \in K
        PROVE  id \in X2
    <3>1. PICK u : u = <<w.n, id>>
      OBVIOUS
    <3>2. u \in U2 /\ u[1] = w.n /\ u[2] = id
      BY <1>1, <2>1, <3>1 DEF Remaining, KeysOf
    <3> QED
      BY <1>1, <3>2, StaleFacts
  <2> QED
    BY <2>1, StaleFacts
<1>7. RowsOK(s2.rows, ChainOf(l, n), ChainOf(l, Top(n, a)), L \union X2, O \union ShellsOf(X2), a)
  <2>1. /\ L \union X \subseteq L \union X2 /\ O \union ShellsOf(X) \subseteq O \union ShellsOf(X2)
        /\ ShellsOf(K) \subseteq O \union ShellsOf(X2) /\ \A id \in K : id \in L \union X2
    BY <1>5, <1>6
  <2> QED
    BY <1>3, <1>4, <2>1, BehindOK
<1> QED
  BY <1>1, <1>2, <1>4, <1>7 DEF TableAt

(* CommitFails: the keys of the write set are stale. *)
LEMMA CommitFailsOK ==
  ASSUME IInv, CommitFails
  PROVE  IInv'
<1>1. LogOK /\ Counters /\ MemoryOK /\ TablesOK /\ MirrorOK
  BY DEF IInv
<1>2. PICK p, w, p2, K, U, U2, n :
        /\ p = pending /\ w = Head(p) /\ p2 = Tail(p) /\ p2 = pending' /\ K = KeysOf(w)
        /\ U = unmirrored /\ U2 = U \union ({w.n} \X K) /\ U2 = unmirrored' /\ n = head
  BY DEF CommitFails, KeysOf
<1>3. /\ p # <<>> /\ log' = log /\ head' = head /\ phase' = phase /\ mem' = mem /\ http' = http
      /\ starts' = starts /\ again' = again /\ lost' = lost /\ orphans' = orphans
      /\ tables' = tables
  BY <1>2 DEF CommitFails
<1>4. AnySeq(p) /\ Len(p) \in 0..2 /\ SetsOK(p, n) /\ n \in Nat
  BY <1>1, <1>2 DEF Counters
<1>5. /\ AnySeq(p2) /\ Len(p2) = Len(p) - 1 /\ Len(p) \in 1..2 /\ w = p[1]
      /\ \A i \in 1..Len(p2) : p2[i] = p[i + 1]
  <2>1. OneLess(tables, U, p, p2)
    BY <1>2, <1>3, <1>4, AfterTail, Zenon
  <2> QED
    BY <1>2, <2>1 DEF OneLess
<1>6. w.n \in Nat /\ w.n <= n /\ \A e \in Event : EventId(e) \notin w.del
  <2>1. 1 \in 1..Len(p)
    BY <1>5
  <2> QED
    BY <1>4, <1>5, <2>1 DEF SetsOK
<1>7. \A i \in 0..Len(p) : TableAt(AfterOf(tables, p, i), LeftOf(U, p, i), log, lost, orphans, again)
  BY <1>1, <1>2 DEF TablesOK
<1>8. TableAt(tables, U, log, lost, orphans, again)
  <2>1. 0 \in 0..Len(p)
    BY <1>5
  <2> QED
    BY <1>7, <2>1, AfterNone
<1>9. TableAt(tables, U2, log, lost, orphans, again) /\ RowsType(tables.rows)
  <2>1. U \subseteq U2 /\ lost \subseteq lost /\ orphans \subseteq orphans
    BY <1>2
  <2>2. RowsType(tables.rows)
    BY <1>8 DEF TableAt, RowsOK
  <2> QED
    BY <1>8, <2>1, <2>2, TableStays, Zenon
<1>10. \A V, k : V \subseteq U2 /\ k \in KeysOf(w) /\ <<w.n, k>> \in V => k \in Stale(V, n)
  <2>1. SUFFICES ASSUME NEW V, NEW k, <<w.n, k>> \in V
                 PROVE  k \in Stale(V, n)
    OBVIOUS
  <2>2. PICK u \in V : u[1] = w.n /\ u[2] = k
    BY <2>1
  <2> QED
    BY <1>6, <2>2, StaleFacts
<1>11. /\ \A i \in 0..Len(p2) :
            TableAt(AfterOf(tables, p2, i), LeftOf(U2, p2, i), log, lost, orphans, again)
       /\ Agree(AfterOf(tables, p2, Len(p2)).rows, mem, Stale(LeftOf(U2, p2, Len(p2)), n), orphans)
  <2>1. CASE Len(p) = 1
    <3>1. Len(p2) = 0 /\ (\A i \in 0..Len(p2) : i = 0) /\ 1 \in 0..Len(p)
      BY <1>5, <2>1
    <3>2. PICK t1, R, X, X2 : /\ t1 = Written(tables, w) /\ R = Remaining(U, w)
                              /\ X = Stale(R, n) /\ X2 = Stale(U2, n)
      OBVIOUS
    <3>3. AfterOf(tables, p, 1) = t1 /\ LeftOf(U, p, 1) = R
      BY <1>5, <3>2 DEF AfterOf, LeftOf
    <3>4. Agree(t1.rows, mem, X, orphans)
      BY <1>1, <1>2, <2>1, <3>2, <3>3 DEF MirrorOK
    <3>5. RowsType(t1.rows)
      BY <1>7, <3>1, <3>3 DEF TableAt, RowsOK
    <3>6. Behind(tables.rows, t1.rows, K)
      BY <1>2, <1>6, <1>9, <3>2, <3>5, Skipped
    <3>7. X \subseteq X2
      <4>1. R \subseteq U2
        BY <1>2, <3>2 DEF Remaining
      <4> QED
        BY <3>2, <4>1, StaleFacts
    <3>8. K \subseteq X2
      <4>1. \A k \in K : <<w.n, k>> \in U2
        BY <1>2
      <4> QED
        BY <1>2, <1>10, <3>2, <4>1
    <3>9. Agree(tables.rows, mem, X2, orphans)
      BY <3>4, <3>6, <3>7, <3>8, BehindAgree
    <3> QED
      BY <1>9, <3>1, <3>2, <3>9, AfterNone
  <2>2. CASE Len(p) = 2
    <3>1. PICK v, t2, s2, R, R2, X, X2 :
            /\ v = p[2] /\ t2 = Written(Written(tables, w), v) /\ s2 = Written(tables, v)
            /\ R = Remaining(Remaining(U, w), v) /\ R2 = Remaining(U2, v)
            /\ X = Stale(R, n) /\ X2 = Stale(R2, n)
      OBVIOUS
    <3>2. /\ Len(p2) = 1 /\ (\A i \in 0..Len(p2) : i = 0 \/ i = 1) /\ 2 \in 0..Len(p)
          /\ p2[1] = v /\ w.n <= v.n
      <4>1. Len(p2) = 1 /\ 1 \in 1..Len(p2) /\ 1 + 1 = 2
        BY <1>5, <2>2
      <4>2. p2[1] = v
        BY <1>5, <3>1, <4>1
      <4>3. w.n <= v.n
        BY <1>4, <1>5, <2>2, <3>1 DEF SetsOK
      <4> QED
        BY <2>2, <4>1, <4>2, <4>3
    <3>3. AfterOf(tables, p, 2) = t2 /\ LeftOf(U, p, 2) = R
      BY <1>5, <3>1 DEF AfterOf, LeftOf
    <3>4. AfterOf(tables, p2, 1) = s2 /\ LeftOf(U2, p2, 1) = R2
      BY <3>1, <3>2 DEF AfterOf, LeftOf
    <3>5. TableAt(t2, R, log, lost, orphans, again)
      BY <1>7, <3>2, <3>3
    <3>6. TableAt(s2, R2, log, lost, orphans, again) /\ Behind(s2.rows, t2.rows, K \ KeysOf(v))
      <4>1. K = KeysOf(w) /\ R2 = Remaining(U \union ({w.n} \X KeysOf(w)), v)
        BY <1>2, <3>1
      <4>2. RowsType(tables.rows) /\ (\A e \in Event : EventId(e) \notin w.del) /\ w.n <= v.n
        BY <1>6, <1>9, <3>2
      <4>3. t2 = Written(Written(tables, w), v) /\ s2 = Written(tables, v)
        BY <3>1
      <4>4. TableAt(t2, Remaining(Remaining(U, w), v), log, lost, orphans, again)
        BY <3>1, <3>5
      <4> QED
        BY <4>1, <4>2, <4>3, <4>4, TableSkips
    <3>7. Agree(t2.rows, mem, X, orphans)
      BY <1>1, <1>2, <2>2, <3>1, <3>3 DEF MirrorOK
    <3>8. X \subseteq X2
      <4>1. R \subseteq R2
        BY <1>2, <3>1 DEF Remaining
      <4> QED
        BY <3>1, <4>1, StaleFacts
    <3>9. K \ KeysOf(v) \subseteq X2
      <4>1. \A k \in K \ KeysOf(v) : <<w.n, k>> \in R2
        BY <1>2, <3>1 DEF Remaining, KeysOf
      <4>2. R2 \subseteq U2
        BY <3>1 DEF Remaining
      <4> QED
        BY <1>2, <1>10, <3>1, <4>1, <4>2
    <3>10. Agree(s2.rows, mem, X2, orphans)
      BY <3>6, <3>7, <3>8, <3>9, BehindAgree
    <3> QED
      BY <1>9, <3>1, <3>2, <3>4, <3>6, <3>10, AfterNone
  <2> QED
    BY <1>5, <2>1, <2>2
<1>12. TablesOK' /\ MirrorOK'
  BY <1>2, <1>3, <1>11 DEF TablesOK, MirrorOK
<1>13. Counters'
  <2>1. ASSUME NEW i \in 1..Len(p2)
        PROVE  p2[i].n \in 0..Len(log)
    <3>1. i + 1 \in 1..Len(p) /\ p2[i] = p[i + 1]
      BY <1>5, <2>1
    <3> QED
      BY <1>1, <1>2, <3>1 DEF Counters
  <2>2. Len(p2) \in 0..2
    BY <1>5
  <2>3. phase = "live"
    BY <1>1, <1>2, <1>3 DEF Counters
  <2>4. HandlerOK(http) /\ SetsOK(p2, n)
    BY <1>1, <1>4, <1>5, SetsTail DEF Counters
  <2>5. \A u \in U2 : u[1] \in Nat
    <3>1. \A u \in U : u[1] \in Nat
      BY <1>1, <1>2 DEF Counters
    <3>2. \A u \in {w.n} \X K : u[1] = w.n
      OBVIOUS
    <3> QED
      BY <1>2, <1>6, <3>1, <3>2
  <2> QED
    BY <1>1, <1>2, <1>3, <1>5, <2>1, <2>2, <2>3, <2>4, <2>5 DEF Counters
<1>14. LogOK' /\ MemoryOK'
  BY <1>1, <1>3 DEF LogOK, MemoryOK
<1> QED
  BY <1>12, <1>13, <1>14 DEF IInv

(* Restart: what is loaded is as good as the tables. *)
LEMMA RestartOK ==
  ASSUME IInv, NEW late \in SUBSET Contested(tables), Restart(late)
  PROVE  IInv'
<1>1. LogOK /\ Counters /\ MemoryOK /\ TablesOK /\ MirrorOK
  BY DEF IInv
<1>2. PICK n, X, ch, top, m2, L, O, L2 :
        /\ n = tables.n /\ X = Stale(unmirrored, n) /\ ch = ChainOf(log, n)
        /\ top = ChainOf(log, Top(n, again)) /\ m2 = Loaded(tables, late)
        /\ L = lost \union X /\ O = orphans \union ShellsOf(X)
        /\ L2 = L \union {Shell(s) : s \in ch.spots}
  OBVIOUS
<1>3. /\ mem' = m2 /\ head' = n /\ phase' = "replay" /\ pending' = <<>> /\ http' = NoHandler
      /\ starts' = starts + 1 /\ lost' = L2 /\ orphans' = O /\ unmirrored' = {}
      /\ log' = log /\ tables' = tables /\ again' = again
  <2>1. ch = ChainAt(n)
    BY <1>2 DEF ChainAt, ChainOf
  <2> QED
    BY <1>2, <2>1 DEF Restart, ShellsOf
<1>4. RowsOK(tables.rows, ch, top, L, O, again)
  <2>1. 0 \in 0..Len(pending)
    BY <1>1 DEF Counters
  <2>2. TableAt(AfterOf(tables, pending, 0), LeftOf(unmirrored, pending, 0), log, lost, orphans, again)
    BY <1>1, <2>1 DEF TablesOK
  <2>3. TableAt(tables, unmirrored, log, lost, orphans, again)
    BY <2>2, AfterNone
  <2> QED
    BY <1>2, <2>3 DEF TableAt
<1>5. MemOK(m2, ch, top, L2, O, again) /\ Agree(tables.rows, m2, {}, O)
  BY <1>2, <1>4, LoadedOK, Zenon
<1>6. starts' \in Nat /\ starts' > 0 /\ starts' # 0
  BY <1>1, <1>3 DEF Counters
<1>7. MemoryOK'
  BY <1>2, <1>3, <1>5, <1>6 DEF MemoryOK
<1>8. TableAt(tables, {}, log, L2, O, again)
  <2>1. RowsOK(tables.rows, ch, top, L2, O, again)
    BY <1>2, <1>4, RowsWeaken
  <2> QED
    BY <1>2, <2>1, FreshTable
<1>9. TablesOK'
  BY <1>3, <1>8, NothingPending DEF TablesOK
<1>10. MirrorOK'
  <2>1. Stale({}, n) = {}
    BY StaleFacts
  <2>2. AfterOf(tables, <<>>, Len(<<>>)) = tables /\ LeftOf({}, <<>>, Len(<<>>)) = {}
    BY NothingPending
  <2> QED
    BY <1>3, <1>5, <2>1, <2>2 DEF MirrorOK
<1>11. Counters'
  <2>1. AnySeq(<<>>) /\ Len(<<>>) = 0
    BY SeqEmpty
  <2>2. HandlerOK(NoHandler) /\ SetsOK(<<>>, n)
    BY <2>1 DEF HandlerOK, SetsOK
  <2> QED
    BY <1>1, <1>2, <1>3, <1>6, <2>1, <2>2 DEF Counters
<1>12. LogOK'
  BY <1>1, <1>3 DEF LogOK
<1> QED
  BY <1>7, <1>9, <1>10, <1>11, <1>12 DEF IInv

(* The keys that a peer got wrong. *)
Wrong(gone, old, shells) == gone \union old \union {Shell(s) : s \in shells}

(* The tables of a peer are the rows of the chain, but for those keys. *)
LEMMA PeerBehind ==
  ASSUME NEW c, MemType(PeerAt(c)), NEW gone \in SUBSET PeerKeys(c),
         NEW old \in SUBSET PeerKeys(c), NEW shells \in SUBSET Spot,
         NEW t, t = PeerTables(c, gone, old, shells),
         NEW K, K = Wrong(gone, old, shells)
  PROVE  t.n = c /\ Behind(t.rows, Shellless(PeerAt(c)), K) /\ ShellsOf(K) \subseteq shells
<1> DEFINE m == PeerAt(c)
           ideal == Shellless(m)
<1>0. K = gone \union old \union {Shell(s) : s \in shells}
  BY DEF Wrong
<1>1. PICK rows, keys, kept : /\ rows = RowsOf(m) /\ keys = {id \in DOMAIN rows : id.k # "spot"}
                              /\ kept = keys \ gone
  OBVIOUS
<1>2. PeerKeys(c) = keys
  BY <1>1 DEF PeerKeys
<1>3. /\ t.n = c /\ DOMAIN t.rows = kept \union {Shell(s) : s \in shells}
      /\ \A id \in DOMAIN t.rows :
           t.rows[id] = IF id \notin kept THEN ShellRow
                        ELSE IF id \in old THEN Outdated(id, rows[id]) ELSE rows[id]
  BY <1>1, <1>2 DEF PeerTables
<1>4. RowsType(rows)
  BY <1>1, RowsOfExact
<1>5. /\ \A e, s : EventId(e) # Shell(s) /\ EventId(e) # Vault /\ EventId(e) # Holding
      /\ \A s : Shell(s) # Vault /\ Shell(s) # Holding
      /\ \A s \in Spot : Shell(s).k = "spot"
      /\ \A s, r : Shell(s) = Shell(r) => s = r
      /\ Vault # Holding /\ \A s \in Spot : Shell(s) \in MarketId
  BY IdFacts
<1>6. \A s \in Spot : Shell(s) \notin keys
  BY <1>1, <1>5
<1>7. ShellsOf(K) \subseteq shells
  BY <1>0, <1>2, <1>5, <1>6 DEF ShellsOf
<1>8. ASSUME NEW id, id \notin K
      PROVE  Same(t.rows, ideal, id)
  BY <1>0, <1>1, <1>3, <1>8 DEF Same, Shellless
<1>9. \A e \in Event : EventId(e) \in DOMAIN t.rows => EventId(e) \in DOMAIN ideal
  BY <1>1, <1>3, <1>5 DEF Shellless
<1>10. RowsType(t.rows)
  <2>1. DOMAIN t.rows \subseteq MarketId \union {Vault, Holding}
    BY <1>1, <1>3, <1>4, <1>5 DEF RowsType
  <2>2. ASSUME NEW e \in Event, EventId(e) \in DOMAIN t.rows
        PROVE  t.rows[EventId(e)] \in RowType
    <3>1. EventId(e) \in kept /\ rows[EventId(e)] \in RowType
      BY <1>1, <1>3, <1>4, <1>5, <2>2 DEF RowsType
    <3>2. Outdated(EventId(e), rows[EventId(e)]) \in RowType
      BY <1>5, <3>1 DEF Outdated, Row, RowType
    <3> QED
      BY <1>3, <2>2, <3>1, <3>2
  <2>3. ASSUME NEW s \in Spot, Shell(s) \in DOMAIN t.rows
        PROVE  t.rows[Shell(s)] = ShellRow
    BY <1>1, <1>3, <1>6, <2>3
  <2>4. ASSUME Vault \in DOMAIN t.rows
        PROVE  t.rows[Vault] \in VaultType /\ t.rows[Vault].is
    <3>1. Vault \in kept /\ rows[Vault] \in VaultType /\ rows[Vault].is
      BY <1>1, <1>3, <1>4, <1>5, <2>4 DEF RowsType
    <3>2. NewVault \in VaultType /\ NewVault.is
      BY DEF NewVault, VaultType
    <3>3. t.rows[Vault] = NewVault \/ t.rows[Vault] = rows[Vault]
      <4>1. Outdated(Vault, rows[Vault]) = NewVault
        BY <1>5 DEF Outdated
      <4> QED
        BY <1>3, <2>4, <3>1, <4>1
    <3> QED
      BY <3>1, <3>2, <3>3
  <2>5. ASSUME Holding \in DOMAIN t.rows
        PROVE  t.rows[Holding] \in [amount : Nat \ {0}]
    <3>1. Holding \in kept /\ rows[Holding] \in [amount : Nat \ {0}]
      BY <1>1, <1>3, <1>4, <1>5, <2>5 DEF RowsType
    <3>2. PICK h \in Nat \ {0} : h = rows[Holding].amount + 1
      BY <3>1
    <3>3. Outdated(Holding, rows[Holding]) = [amount |-> h]
      BY <1>5, <3>2 DEF Outdated
    <3>4. t.rows[Holding] = [amount |-> h] \/ t.rows[Holding] = rows[Holding]
      BY <1>3, <2>5, <3>1, <3>3
    <3> QED
      BY <3>1, <3>2, <3>4
  <2> QED
    BY <2>1, <2>2, <2>3, <2>4, <2>5 DEF RowsType
<1> QED
  BY <1>3, <1>7, <1>8, <1>9, <1>10 DEF Behind

(* ImportSnapshot: the tables of a peer are as good as it, and so is what they load. *)
LEMMA ImportSnapshotOK ==
  ASSUME IInv, NEW c \in 1..Len(log), NEW gone \in SUBSET PeerKeys(c), NEW old \in SUBSET PeerKeys(c),
         NEW shells \in SUBSET Spot, NEW late, ImportSnapshot(c, gone, old, shells, late)
  PROVE  IInv'
<1>1. LogOK /\ Counters /\ MemoryOK /\ TablesOK /\ MirrorOK
  BY DEF IInv
<1>2. PICK ch, peer, t2, m2, L, L2, ideal, K :
        /\ ch = ChainOf(log, c) /\ peer = PeerOf(log, c) /\ t2 = tables' /\ m2 = mem'
        /\ L = gone \union old /\ L2 = L \union {Shell(s) : s \in ch.spots}
        /\ ideal = Shellless(peer)
        /\ K = Wrong(gone, old, shells)
  OBVIOUS
<1>3. /\ phase = "catchup" /\ head' = c /\ phase' = "tail" /\ again' = 0 /\ unmirrored' = {}
      /\ orphans' = shells /\ log' = log /\ pending' = pending /\ http' = http /\ starts' = starts
      /\ t2 = PeerTables(c, gone, old, shells) /\ late \subseteq Contested(t2)
      /\ m2 = Loaded(t2, late) /\ lost' = {Shell(s) : s \in ChainAt(c).spots} \union gone \union old
  BY <1>2 DEF ImportSnapshot
<1>4. c \in 0..Len(log) /\ Len(log) \in Nat /\ Top(c, 0) = c
  <2>1. Len(log) \in Nat
    BY <1>1, BlockFacts
  <2> QED
    BY <2>1 DEF Top
<1>5. lost' = L2 /\ pending = <<>> /\ starts > 0
  <2>1. ChainAt(c) = ch
    BY <1>2 DEF ChainAt, ChainOf
  <2>2. phase # "live"
    BY <1>3
  <2> QED
    BY <1>1, <1>2, <1>3, <2>1, <2>2 DEF Counters
<1>6. MemOK(peer, ch, ch, {}, {}, 0) /\ MemType(peer) /\ peer = PeerAt(c)
  <2>1. MemOK(peer, ch, ch, {}, {}, 0)
    BY <1>1, <1>2, <1>4 DEF LogOK, LogIs
  <2> QED
    BY <1>2, <2>1 DEF MemOK, PeerAt, PeerOf
<1>7. t2.n = c /\ Behind(t2.rows, ideal, K) /\ ShellsOf(K) \subseteq shells
  <2>1. /\ t2 = PeerTables(c, gone, old, shells) /\ MemType(PeerAt(c))
        /\ K = Wrong(gone, old, shells)
    BY <1>2, <1>3, <1>6
  <2>2. t2.n = c /\ Behind(t2.rows, Shellless(PeerAt(c)), K) /\ ShellsOf(K) \subseteq shells
    BY <2>1, PeerBehind
  <2> QED
    BY <1>2, <1>6, <2>2
<1>8. RowsOK(ideal, ch, ch, {}, {}, 0)
  <2>1. Agree(ideal, peer, {}, {}) /\ RowsType(ideal)
    BY <1>2, <1>6, OwnRowsAgree
  <2>2. RowsOK(ideal, ch, ch, {} \union {}, {} \union ShellsOf({}), 0)
    BY <1>6, <2>1, Stored
  <2>3. {} \union {} = {} /\ {} \union ShellsOf({}) = {}
    BY StaleFacts
  <2> QED
    BY <2>2, <2>3
<1>9. RowsOK(t2.rows, ch, ch, L, shells, 0)
  <2>1. \A id \in K : id \in L \/ \E r \in Spot : id = Shell(r)
    BY <1>2 DEF Wrong
  <2>2. PICK none : none = {}
    OBVIOUS
  <2>3. none \subseteq L /\ none \subseteq shells /\ RowsOK(ideal, ch, ch, none, none, 0)
    BY <1>8, <2>2
  <2>4. Behind(t2.rows, ideal, K) /\ ShellsOf(K) \subseteq shells
    BY <1>7
  <2> QED
    BY <2>1, <2>3, <2>4, BehindOK
<1>10. MemOK(m2, ch, ch, L2, shells, 0) /\ Agree(t2.rows, m2, {}, shells)
  BY <1>2, <1>3, <1>9, LoadedOK, Zenon
<1>11. MemoryOK'
  <2>1. starts # 0
    BY <1>1, <1>5 DEF Counters
  <2> QED
    BY <1>2, <1>3, <1>4, <1>5, <1>10, <2>1 DEF MemoryOK
<1>12. TableAt(t2, {}, log, L2, shells, 0)
  <2>1. L \subseteq L2 /\ shells \subseteq shells
    BY <1>2
  <2>2. RowsOK(t2.rows, ch, ch, L2, shells, 0)
    BY <1>9, <2>1, RowsWeaken
  <2>3. ChainOf(log, t2.n) = ch /\ ChainOf(log, Top(t2.n, 0)) = ch
    BY <1>2, <1>4, <1>7
  <2> QED
    BY <2>2, <2>3, FreshTable
<1>13. TablesOK'
  <2>1. \A i \in 0..Len(pending) : AfterOf(t2, pending, i) = t2 /\ LeftOf({}, pending, i) = {}
    BY <1>5, NothingPending
  <2> QED
    BY <1>2, <1>3, <1>5, <1>12, <2>1 DEF TablesOK
<1>14. MirrorOK'
  <2>1. Stale({}, c) = {}
    BY StaleFacts
  <2>2. AfterOf(t2, pending, Len(pending)) = t2 /\ LeftOf({}, pending, Len(pending)) = {}
    BY <1>5, NothingPending
  <2> QED
    BY <1>2, <1>3, <1>10, <2>1, <2>2 DEF MirrorOK
<1>15. Counters'
  <2>1. HandlerOK(http) /\ SetsOK(pending, c)
    BY <1>1, <1>5, SeqEmpty DEF Counters, SetsOK
  <2> QED
    BY <1>1, <1>2, <1>3, <1>4, <1>5, <1>7, <2>1 DEF Counters
<1>16. LogOK'
  BY <1>1, <1>3 DEF LogOK
<1> QED
  BY <1>11, <1>13, <1>14, <1>15, <1>16 DEF IInv

(* A handler's step that adds a shell or a name to the memory. *)
LEMMA KeptStep ==
  ASSUME IInv, UNCHANGED <<log, head, phase, pending, tables, starts, again, unmirrored, lost>>,
         HandlerOK(http'), MemType(mem'), Kept(mem, mem'), Bound(mem', orphans'),
         orphans \subseteq orphans'
  PROVE  IInv'
<1>1. LogOK /\ Counters /\ MemoryOK /\ TablesOK /\ MirrorOK
  BY DEF IInv
<1>2. PICK m2, O2, ch, top :
        /\ m2 = mem' /\ O2 = orphans'
        /\ ch = ChainOf(log, head) /\ top = ChainOf(log, Top(head, again))
  OBVIOUS
<1>3. /\ log' = log /\ head' = head /\ phase' = phase /\ pending' = pending /\ tables' = tables
      /\ starts' = starts /\ again' = again /\ unmirrored' = unmirrored /\ lost' = lost
  OBVIOUS
<1>4. MemType(m2) /\ Kept(mem, m2) /\ Bound(m2, O2) /\ orphans \subseteq O2
  BY <1>2
<1>5. MemOK(mem, ch, top, lost, orphans, again)
  BY <1>1, <1>2 DEF MemoryOK
<1>6. MemType(mem) /\ SpotsIn(mem, ch, lost)
  BY <1>5 DEF MemOK
<1>10. NextTop(ch, ch, top, top)
  <2>1. /\ Len(log) \in Nat /\ head \in 0..Len(log) /\ Top(head, again) \in 0..Len(log)
    BY <1>1, BlockFacts
  <2>2. head <= Top(head, again)
    BY <1>1, <2>1 DEF Top, Counters
  <2>3. Later(ch, top)
    BY <1>1, <1>2, <2>1, <2>2 DEF LogOK, LogIs
  <2> QED
    BY <2>3 DEF NextTop
<1>11. SpotsIn(m2, ch, lost)
  BY <1>4, <1>6 DEF SpotsIn, Kept
<1>12. MemOK(m2, ch, top, lost, O2, again)
  BY <1>4, <1>5, <1>10, <1>11, KeptOK
<1>13. MemoryOK'
  <2>1. DOMAIN mem.names \subseteq DOMAIN m2.names
    BY <1>4 DEF Kept
  <2>2. starts = 0 => NamesIn(mem.names, ch)
    BY <1>1, <1>2 DEF MemoryOK
  <2>3. starts = 0 => NamesIn(m2.names, ch)
    BY <2>1, <2>2 DEF NamesIn
  <2> QED
    BY <1>2, <1>3, <1>12, <2>3 DEF MemoryOK
<1>14. TablesOK'
  <2>1. ASSUME NEW i \in 0..Len(pending)
        PROVE  TableAt(AfterOf(tables, pending, i), LeftOf(unmirrored, pending, i), log, lost, O2, again)
    <3>1. PICK t, U : t = AfterOf(tables, pending, i) /\ U = LeftOf(unmirrored, pending, i)
      OBVIOUS
    <3>2. TableAt(t, U, log, lost, orphans, again)
      BY <1>1, <2>1, <3>1 DEF TablesOK
    <3> QED
      BY <1>4, <3>1, <3>2, TableStays
  <2> QED
    BY <1>2, <1>3, <2>1 DEF TablesOK
<1>15. MirrorOK'
  <2>1. PICK rows, X : /\ rows = AfterOf(tables, pending, Len(pending)).rows
                       /\ X = Stale(LeftOf(unmirrored, pending, Len(pending)), head)
    OBVIOUS
  <2>2. Agree(rows, mem, X, orphans)
    BY <1>1, <2>1 DEF MirrorOK
  <2>3. Agree(rows, m2, X, O2)
    BY <1>4, <1>6, <2>2, KeptAgree
  <2> QED
    BY <1>2, <1>3, <2>1, <2>3 DEF MirrorOK
<1>16. Counters'
  <2>1. SetsOK(pending, head)
    BY <1>1 DEF Counters
  <2> QED
    BY <1>1, <1>3, <2>1 DEF Counters
<1>17. LogOK'
  BY <1>1, <1>3 DEF LogOK
<1> QED
  BY <1>13, <1>14, <1>15, <1>16, <1>17 DEF IInv

(* HttpCheck: the name leads to a spot market that has it. *)
LEMMA HttpCheckOK ==
  ASSUME IInv, HttpCheck
  PROVE  IInv'
<1>1. PICK h, m2, name, s : h = http /\ m2 = mem' /\ name = h.name /\ s = h.s
  OBVIOUS
<1>2. /\ h.at = "name"
      /\ m2 = IF name = NoName THEN mem ELSE InsertName(mem, s, name)
      /\ http' = IF IsOtherLeg(mem, s) THEN NoHandler ELSE [h EXCEPT !.at = "shell"]
      /\ orphans' = orphans
      /\ UNCHANGED <<log, head, phase, pending, tables, starts, again, unmirrored, lost>>
  BY <1>1 DEF HttpCheck, ghosts
<1>3. h # NoHandler
  BY <1>2 DEF NoHandler
<1>4. /\ DOMAIN h = {"s", "name", "at"} /\ s \in Spot /\ name \in {NoName, NameOf[s]}
  BY <1>1, <1>3 DEF IInv, Counters, HandlerOK
<1>5. HandlerOK(http')
  <2>1. PICK x : x = [h EXCEPT !.at = "shell"]
    OBVIOUS
  <2>2. DOMAIN x = {"s", "name", "at"} /\ x.s = s /\ x.name = name /\ x.at = "shell"
    BY <1>1, <1>4, <2>1
  <2>3. HandlerOK(x) /\ HandlerOK(NoHandler)
    BY <1>4, <2>2 DEF HandlerOK
  <2> QED
    BY <1>2, <2>1, <2>3
<1>6. MemType(mem) /\ Bound(mem, orphans)
  BY DEF IInv, MemoryOK, MemOK
<1>7. MemType(m2) /\ Kept(mem, m2) /\ Bound(m2, orphans)
  <2>1. CASE name = NoName
    BY <1>2, <1>6, <2>1 DEF Kept, Same
  <2>2. CASE name # NoName
    BY <1>2, <1>4, <1>6, <2>2, NameInserted
  <2> QED
    BY <2>1, <2>2
<1> QED
  BY <1>1, <1>2, <1>5, <1>7, KeptStep

(* HttpInsert: a shell behind the event's back makes its spot an orphan. *)
LEMMA HttpInsertOK ==
  ASSUME IInv, HttpInsert
  PROVE  IInv'
<1>1. PICK s, m2, O2 : s = http.s /\ m2 = mem' /\ O2 = orphans'
  OBVIOUS
<1>2. /\ http.at = "shell" /\ m2 = InsertShell(mem, s) /\ http' = NoHandler
      /\ O2 = (IF IsOtherLeg(mem, s) THEN orphans \union {s} ELSE orphans)
      /\ UNCHANGED <<log, head, phase, pending, tables, starts, again, unmirrored, lost>>
  BY <1>1 DEF HttpInsert
<1>3. http # NoHandler
  BY <1>2 DEF NoHandler
<1>4. s \in Spot
  BY <1>1, <1>3 DEF IInv, Counters, HandlerOK
<1>5. MemType(mem) /\ Bound(mem, orphans)
  BY DEF IInv, MemoryOK, MemOK
<1>6. orphans \subseteq O2 /\ (IsOtherLeg(mem, s) => s \in O2)
  BY <1>2
<1>7. Bound(mem, O2)
  BY <1>5, <1>6 DEF Bound
<1>8. MemType(m2) /\ Kept(mem, m2) /\ Bound(m2, O2)
  BY <1>2, <1>4, <1>5, <1>6, <1>7, Inserted
<1>9. HandlerOK(http')
  BY <1>2 DEF HandlerOK
<1> QED
  BY <1>1, <1>2, <1>6, <1>8, <1>9, KeptStep

(* A vault that is near to one and the same chain is that chain's. *)
LEMMA VaultSame ==
  ASSUME NEW v \in VaultType, NEW w \in VaultType, VaultNear(v, w, w)
  PROVE  v = w
<1>1. NoVault.is = FALSE
  BY DEF NoVault
<1>2. v.is = w.is
  BY DEF VaultNear
<1>3. CASE v = NoVault
  <2>1. w.is = FALSE
    BY <1>1, <1>2, <1>3
  <2> QED
    BY <1>3, <2>1 DEF VaultType
<1>4. CASE v \in [is : {TRUE}, equity : Nat, allow : BOOLEAN, closed : BOOLEAN]
  <2>1. v.is = TRUE
    BY <1>4
  <2>2. w.is = TRUE
    BY <1>2, <2>1
  <2>3. w # NoVault
    BY <1>1, <2>2
  <2>4. w \in [is : {TRUE}, equity : Nat, allow : BOOLEAN, closed : BOOLEAN]
    BY <2>3 DEF VaultType
  <2>5. v.equity = w.equity /\ v.allow = w.allow /\ v.closed = w.closed
    BY <2>1 DEF VaultNear
  <2>6. v = [is |-> v.is, equity |-> v.equity, allow |-> v.allow, closed |-> v.closed]
    BY <1>4
  <2>7. w = [is |-> w.is, equity |-> w.equity, allow |-> w.allow, closed |-> w.closed]
    BY <2>4
  <2>8. v = [is |-> w.is, equity |-> w.equity, allow |-> w.allow, closed |-> w.closed]
    BY <1>2, <2>5, <2>6, Zenon
  <2> QED
    BY <2>7, <2>8, Zenon
<1> QED
  BY <1>3, <1>4 DEF VaultType

-----------------------------------------------------------------------------
(* The theorems. *)

(* The inductive invariant holds: memory and tables are worth what MemOK and *)
(* RowsOK say at every step of the apply worker, the handlers, the persist   *)
(* task, restarts and catch-ups.                                             *)
THEOREM RegistryInvariant == Spec => []IInv
<1>1. Init => IInv
  BY InitOK
<1>2. IInv /\ [Next]_vars => IInv'
  <2>1. SUFFICES ASSUME IInv, [Next]_vars
                 PROVE  IInv'
    OBVIOUS
  <2>2. ASSUME NEW e \in Events(ChainAt(Len(log))), Produce(e)
        PROVE  IInv'
    BY <2>1, <2>2, ProduceOK
  <2>3. ASSUME NEW e, Apply(e)
        PROVE  IInv'
    BY <2>1, <2>3, ApplyOK
  <2>4. ASSUME NEW e, Replay(e)
        PROVE  IInv'
    BY <2>1, <2>4, ReplayOK
  <2>5. CASE FullWrite
    BY <2>1, <2>5, FullWriteOK
  <2>6. CASE Commit
    BY <2>1, <2>6, CommitOK
  <2>7. ASSUME NEW k \in 0..head, Overlap(k)
        PROVE  IInv'
    BY <2>1, <2>7, OverlapOK
  <2>8. CASE HttpInsert
    BY <2>1, <2>8, HttpInsertOK
  <2>9. ASSUME NEW late \in SUBSET Contested(tables), Restart(late)
        PROVE  IInv'
    BY <2>1, <2>9, RestartOK
  <2>10. CASE Import
    <3>1. PICK c \in 1..Len(log), shells \in Few(Spot) : \E gone, old \in Few(PeerKeys(c)) :
             \E late : ImportSnapshot(c, gone, old, shells, late)
      BY <2>10 DEF Import
    <3>2. PICK gone \in Few(PeerKeys(c)), old \in Few(PeerKeys(c)) :
             \E late : ImportSnapshot(c, gone, old, shells, late)
      BY <3>1
    <3>3. PICK late : ImportSnapshot(c, gone, old, shells, late)
      BY <3>2
    <3>4. /\ gone \in SUBSET PeerKeys(c) /\ old \in SUBSET PeerKeys(c)
          /\ shells \in SUBSET Spot
      BY DEF Few
    <3> QED
      BY <2>1, <3>3, <3>4, ImportSnapshotOK
  <2>11. CASE \/ ReplayEnds \/ StartCatchup \/ UNCHANGED vars
              \/ \E s \in Spot : HttpOrder(s) \/ HttpScan(s)
    BY <2>1, <2>11, QuietOK
  <2>12. CASE CommitFails
    BY <2>1, <2>12, CommitFailsOK
  <2>13. CASE HttpCheck
    BY <2>1, <2>13, HttpCheckOK
  <2> QED
    BY <2>1, <2>2, <2>3, <2>4, <2>5, <2>6, <2>7, <2>8, <2>9, <2>10, <2>11, <2>12, <2>13 DEF Next
<1> QED
  BY <1>1, <1>2, PTL DEF Spec

(* slug_to_market and the slugs of the events are inverse to each other, with *)
(* any questions, events created twice and blocks applied again; only after a *)
(* restart has forgotten a change of an event may two events share a slug.    *)
THEOREM SlugsAreSound == Spec => []SlugsSound
<1>1. ASSUME IInv
      PROVE  SlugsSound
  <2>1. /\ LogOK /\ Counters /\ MemType(mem) /\ SlugBack(mem)
        /\ (NoEvent(lost) => SlugFound(mem))
    BY <1>1 DEF IInv, MemoryOK, MemOK
  <2>2. TypeOK
    <3>1. Len(pending) <= MaxPending
      BY <2>1 DEF Counters, MaxPending
    <3> QED
      BY <2>1, <3>1 DEF Counters, MemType, MarketsType, NamesType, HandlerOK, TypeOK
  <2>3. ASSUME NEW x \in DOMAIN mem.slugs
        PROVE  mem.slugs[x] \in EventsIn(mem) /\ mem.markets[EventId(mem.slugs[x])].slug = x
    BY <2>1, <2>3 DEF SlugBack, EventsIn
  <2>4. ASSUME NoEvent(lost), NEW e \in EventsIn(mem)
        PROVE  get_event_by_slug(mem, mem.markets[EventId(e)].slug) = {EventId(e)}
    <3>1. PICK x : x = mem.markets[EventId(e)].slug
      OBVIOUS
    <3>2. EventId(e) \in DOMAIN mem.markets /\ x \in DOMAIN mem.slugs /\ mem.slugs[x] = e
      BY <2>1, <2>4, <3>1 DEF SlugFound, EventsIn
    <3>3. {mem.slugs[y] : y \in {x} \intersect DOMAIN mem.slugs} = {e}
      BY <3>2
    <3>4. get_event_by_slug(mem, x) = {EventId(f) : f \in {e}} \intersect DOMAIN mem.markets
      BY <3>3 DEF get_event_by_slug
    <3> QED
      BY <3>1, <3>2, <3>4
  <2>5. SlugMapsBack
    BY <2>3, <2>4 DEF SlugMapsBack, NoEvent
  <2> QED
    BY <2>2, <2>5 DEF SlugsSound
<1> QED
  BY <1>1, RegistryInvariant, PTL

(* The legs of an event lead to it and have no shell, and every spot market of *)
(* the chain is known, whatever the order of the events, orders and handlers;  *)
(* names lead to markets that have them.                                       *)
THEOREM SpotsAreResolved == Spec => []SpotsResolve
<1>1. ASSUME IInv
      PROVE  SpotsResolve
  <2>1. /\ Bound(mem, orphans) /\ SpotsIn(mem, ChainOf(log, head), lost) /\ starts \in Nat
        /\ (starts = 0 => NamesIn(mem.names, ChainOf(log, head))) /\ NamesType(mem.names)
    BY <1>1 DEF IInv, MemoryOK, MemOK, MemType, Counters
  <2>2. LegsBound
    BY <2>1 DEF LegsBound, Bound, EventsIn, lookup_spot_market
  <2>3. ASSUME NEW s \in ChainAt(head).spots, NameOf[s] # NoName
        PROVE  /\ lookup_spot_market(mem, s) \/ Shell(s) \in lost
               /\ resolve_spot_market_key(mem, NameOf[s]) \subseteq {r \in Spot : NameOf[r] = NameOf[s]}
               /\ resolve_spot_market_key(mem, NameOf[s]) # {} \/ starts > 0
    <3>1. s \in ChainOf(log, head).spots
      BY <2>3 DEF ChainAt, ChainOf
    <3>2. lookup_spot_market(mem, s) \/ Shell(s) \in lost
      BY <2>1, <2>3, <3>1 DEF SpotsIn, lookup_spot_market
    <3>3. PICK x, R : x = NameOf[s] /\ R = resolve_spot_market_key(mem, x)
      OBVIOUS
    <3>4. \A r : r \in R <=> x \in DOMAIN mem.names /\ r = mem.names[x]
      BY <3>3 DEF resolve_spot_market_key
    <3>5. \A r \in R : r \in Spot /\ NameOf[r] = x
      BY <2>1, <3>4 DEF NamesType
    <3>6. starts > 0 \/ x \in DOMAIN mem.names
      BY <2>1, <2>3, <3>1, <3>3 DEF NamesIn
    <3> QED
      BY <3>2, <3>3, <3>4, <3>5, <3>6
  <2>4. SpotKnown
    BY <2>3 DEF SpotKnown
  <2> QED
    BY <2>2, <2>4 DEF SpotsResolve
<1> QED
  BY <1>1, RegistryInvariant, PTL

(* The tables, with the write sets on their way, hold the rows of the memory *)
(* but for shells and what replayed blocks and failed write sets changed.    *)
THEOREM MirrorLosesOnlyShells == Spec => []OnlyShellsAreVolatile
<1>1. ASSUME IInv
      PROVE  OnlyShellsAreVolatile
  <2>1. PICK t, U, X, rows :
          /\ t = TablesAfter(Len(pending)) /\ U = UnmirroredAfter(Len(pending))
          /\ X = Stale(U, head) /\ rows = RowsOf(mem)
    OBVIOUS
  <2>2. t = AfterOf(tables, pending, Len(pending)) /\ U = LeftOf(unmirrored, pending, Len(pending))
    BY <2>1 DEF TablesAfter, AfterOf, UnmirroredAfter, LeftOf
  <2>3. Agree(t.rows, mem, X, orphans)
    BY <1>1, <2>1, <2>2 DEF IInv, MirrorOK
  <2>4. RowsType(t.rows)
    <3>1. Len(pending) \in 0..Len(pending)
      BY <1>1 DEF IInv, Counters
    <3>2. TableAt(t, U, log, lost, orphans, again)
      BY <1>1, <2>2, <3>1 DEF IInv, TablesOK
    <3> QED
      BY <3>2 DEF TableAt, RowsOK
  <2>5. MemType(mem)
    BY <1>1 DEF IInv, MemoryOK, MemOK
  <2>6. RowsType(rows)
    BY <2>1, <2>5, RowsOfExact
  <2>7. ASSUME NEW id \in Changed(t.rows, rows), id \notin {u[2] : u \in U}
        PROVE  id.k = "spot" /\ (id \in DOMAIN t.rows => id.n \in orphans)
    <3>1. id \notin X
      BY <2>1, <2>7, StaleFacts
    <3>2. ~ Same(t.rows, rows, id)
      BY <2>7 DEF Changed, Same
    <3>3. PICK s \in Spot : id = Shell(s)
      BY <2>1, <2>3, <3>1, <3>2 DEF Agree
    <3>4. id.k = "spot" /\ id.n = s
      BY <3>3 DEF Shell
    <3>5. ASSUME id \in DOMAIN t.rows, s \notin orphans
          PROVE  FALSE
      <4>1. Shell(s) \in DOMAIN mem.markets
        BY <2>3, <3>1, <3>3, <3>5 DEF Agree
      <4>2. Shell(s) \in MarketId
        BY <3>3, IdFacts
      <4>3. id \in DOMAIN rows
        BY <2>1, <2>5, <3>3, <4>1, <4>2, RowsOfDomain DEF Same
      <4>4. rows[id] = ShellRow /\ t.rows[id] = ShellRow
        BY <2>4, <2>6, <3>3, <3>5, <4>3 DEF RowsType
      <4> QED
        BY <3>2, <3>5, <4>3, <4>4 DEF Same
    <3> QED
      BY <3>4, <3>5
  <2> QED
    BY <2>1, <2>7 DEF OnlyShellsAreVolatile
<1> QED
  BY <1>1, RegistryInvariant, PTL

(* The state of the events and of the vault is the chain's whenever no second   *)
(* round of blocks is under way, except for rows that a restart or a peer lost. *)
(* The holding counts the fills after which the order is still in the index,    *)
(* and so is the vault's only while no fill has ended an order.                 *)
THEOREM StateIsExact == Spec => []StateExact
<1>1. ASSUME IInv
      PROVE  StateExact
  <2>1. SUFFICES ASSUME again <= head
                 PROVE  /\ \A e \in ChainAt(head).events :
                             EventId(e) \in lost \/
                               /\ EventId(e) \in DOMAIN mem.markets
                               /\ mem.markets[EventId(e)].state =
                                    IF e \in ChainAt(head).resolved THEN "Resolved" ELSE "Active"
                        /\ Vault \in lost \/ mem.vault = ChainAt(head).vault
                        /\ Holding \in lost \/ Vault \in lost \/ again # 0
                             \/ /\ mem.hold = ChainAt(head).credited
                                /\ ChainAt(head).partial => mem.hold = ChainAt(head).hold
    BY DEF StateExact
  <2>2. PICK ch : ch = ChainAt(head)
    OBVIOUS
  <2>3. ch = ChainOf(log, head)
    BY <2>2 DEF ChainAt, ChainOf
  <2>4. Len(log) \in Nat /\ head \in 0..Len(log) /\ again \in 0..Len(log)
    BY <1>1, BlockFacts DEF IInv, Counters
  <2>5. Top(head, again) = head
    BY <2>1, <2>4 DEF Top
  <2>6. ChainType(ch)
    BY <1>1, <2>3, <2>4 DEF IInv, LogOK, LogIs
  <2>7. MemOK(mem, ch, ch, lost, orphans, again)
    BY <1>1, <2>3, <2>5 DEF IInv, MemoryOK
  <2>8. MemType(mem) /\ MemExact(mem, ch, ch, lost, again)
    BY <2>7, RowsOfExact DEF MemOK
  <2>9. ASSUME NEW e \in ch.events, EventId(e) \notin lost
        PROVE  /\ EventId(e) \in DOMAIN mem.markets
               /\ mem.markets[EventId(e)].state = IF e \in ch.resolved THEN "Resolved" ELSE "Active"
    <3>1. e \in Event
      BY <2>6, <2>9 DEF ChainType
    <3>2. StateOf(mem.markets, e) = ChainState(ch, e)
      BY <2>8, <2>9, <3>1 DEF MemExact, EventsNear
    <3>3. ChainState(ch, e) = IF e \in ch.resolved THEN "Resolved" ELSE "Active"
      BY <2>9 DEF ChainState
    <3>4. ChainState(ch, e) # "none"
      BY <3>3
    <3> QED
      BY <3>2, <3>3, <3>4 DEF StateOf
  <2>10. ASSUME Vault \notin lost
         PROVE  mem.vault = ch.vault
    <3>1. VaultNear(mem.vault, ch.vault, ch.vault)
      BY <2>8, <2>10 DEF MemExact, VaultExact
    <3>2. mem.vault \in VaultType /\ ch.vault \in VaultType
      BY <2>6, <2>8 DEF MemType, ChainType
    <3>3. PICK v, w : v = mem.vault /\ w = ch.vault
      OBVIOUS
    <3>4. VaultNear(v, w, w) /\ v \in VaultType /\ w \in VaultType
      BY <3>1, <3>2, <3>3
    <3>5. v = w
      BY <3>4, VaultSame
    <3> QED
      BY <3>3, <3>5
  <2>11. ASSUME Holding \notin lost, Vault \notin lost, again = 0
         PROVE  mem.hold = ch.credited /\ (ch.partial => mem.hold = ch.hold)
    BY <2>6, <2>8, <2>11 DEF MemExact, HoldExact, ChainType
  <2> QED
    BY <2>2, <2>9, <2>10, <2>11
<1> QED
  BY <1>1, RegistryInvariant, PTL
=============================================================================
