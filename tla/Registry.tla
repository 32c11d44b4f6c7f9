------------------------------ MODULE Registry ------------------------------
(***************************************************************************)
(* The market registry and the vaults of IndexState (upsert_market,        *)
(* register_named_spot_market, allocate_market_slug, the vault updates) as *)
(* the apply worker and an HTTP handler change them, with the rows the     *)
(* write sets carry to the tables, restarts and peer snapshots.            *)
(*                                                                         *)
(* Event market e has the spot markets Legs(e); the shell of a spot market *)
(* is the Market::Spot entry made for it.  A slug is the sequence of its   *)
(* parts, as numbers: words of the question, then a suffix.  There is one  *)
(* vault.                                                                  *)
(***************************************************************************)
EXTENDS Integers, Sequences, FiniteSets, SequencesExt

CONSTANTS Event,        \* event contracts, numbers from 1
          Question,     \* slug_from_question of the event's question
          Named,        \* spot markets with a market_created event
          NameOf,       \* name of a spot market in upper case; NoName: empty
          Mixes,        \* bound: [events, asked]: events that one chain may have and
                        \* the spot markets that handlers and peers then register
          MaxBlocks,    \* bound: blocks of the chain
          MaxStarts     \* bound: restarts and catch-ups

Legs(e) == {2 * e - 1, 2 * e}
Spot == UNION {Legs(e) : e \in Event}
Owner(s) == (s + 1) \div 2          \* the event s is a leg of
Shell(s) == [k |-> "spot", n |-> s]
EventId(e) == [k |-> "event", n |-> e]
Vault == [k |-> "vault", n |-> 0]
Holding == [k |-> "holding", n |-> 0]   \* its portfolio row
NoName == 0
MarketId == {Shell(s) : s \in Spot} \union {EventId(e) : e \in Event}

ASSUME RegistryAssumption ==
  /\ Event \subseteq Nat \ {0} /\ IsFiniteSet(Event) /\ Named \subseteq Spot
  /\ Question \in [Event -> Seq(Nat)] /\ NameOf \in [Spot -> Nat]
  /\ MaxBlocks \in Nat /\ MaxStarts \in Nat

MaxPending == 2     \* bound: write sets on their way to the tables
MaxFaults == 1      \* bound: rows that a peer's snapshot has wrong

VARIABLES
  log,        \* the chain: [ev, ch, peer] per block, ch the chain after it,
              \* peer the memory of an indexer that has applied every block to it
  head,       \* last block applied
  phase,      \* "live" | "replay" (restart) | "catchup" | "tail" (of a catch-up)
  mem,        \* markets, slug_to_market, spot_to_market, spot_by_name,
              \* the vault and its holding in vault_portfolio
  pending,    \* write sets on their way to the tables
  tables,     \* [n, rows]: label, rows of markets, vault and holding
  http,       \* a handler inside register_named_spot_market: its spot market, the
              \* name it inserts and what it does next
  starts,
  again,      \* ghost: last block applied to a memory that already had it; 0: none
  unmirrored, \* ghost: <<block, key>> of changes that were not written: replayed
              \* ones and those of a write set that failed
  lost,       \* ghost: keys whose last change a restart found nowhere, that a peer's
              \* snapshot had wrong, or that missed a fill of a forgotten order
  orphans     \* ghost: spots with a shell that their event has not removed: it came
              \* after the event, or a restart or a snapshot forgot the removal

vars == <<log, head, phase, mem, pending, tables, http, starts, again, unmirrored, lost, orphans>>
ghosts == <<again, unmirrored, lost, orphans>>

NoVault == [is |-> FALSE]
NewVault == [is |-> TRUE, equity |-> 0, allow |-> TRUE, closed |-> FALSE]
(* hold: what the vault has; credited: what the fills of orders that stay open *)
(* amount to; partial: no fill has ended its order.                            *)
Genesis == [events |-> {}, resolved |-> {}, spots |-> {}, vault |-> NoVault, hold |-> 0,
            credited |-> 0, partial |-> TRUE]

ChainAt(b) == IF b = 0 THEN Genesis ELSE log[b].ch

Kinds == {"vault", "deposited", "permission", "closed"}
Fills == {"bought", "sold"}

Clamped(n) == IF n > 0 THEN n - 1 ELSE 0

(* A fill with n = 1 ends its order, or is of a market order: stored_order_by_chain_id *)
(* does not find the order after it.                                                   *)

Events(ch) ==
  [t : {"spot"}, n : Named \ ch.spots] \union [t : {"event"}, n : Event \ ch.events]
  \union [t : {"resolved"}, n : ch.events \ ch.resolved]
  \union [t : {"order"}, n : ch.spots]
  \union {e \in [t : Kinds, n : {0}] \union [t : Fills, n : {0, 1}] :
            CASE e.t = "vault" -> ~ ch.vault.is
              [] e.t = "sold" -> ch.hold > 0
              [] e.t = "bought" -> ch.vault.is /\ ch.hold < 2
              [] OTHER -> ch.vault.is /\ ~ ch.vault.closed}

VaultStep(v, t) ==
  CASE t = "vault" -> NewVault
    [] t = "deposited" -> [v EXCEPT !.equity = @ + 1]
    [] t = "permission" -> [v EXCEPT !.allow = ~ @]
    [] t = "closed" -> [v EXCEPT !.closed = TRUE, !.allow = FALSE]

ChainStep(ch, e) ==
  CASE e.t = "spot" -> [ch EXCEPT !.spots = @ \union {e.n}]
    [] e.t = "event" -> [ch EXCEPT !.events = @ \union {e.n}]
    [] e.t = "resolved" -> [ch EXCEPT !.resolved = @ \union {e.n}]
    [] e.t = "order" -> ch
    [] e.t = "bought" -> [ch EXCEPT !.hold = @ + 1, !.partial = @ /\ e.n = 0,
                                    !.credited = IF e.n = 0 THEN @ + 1 ELSE @]
    [] e.t = "sold" -> [ch EXCEPT !.hold = @ - 1, !.partial = @ /\ e.n = 0,
                                  !.credited = IF e.n = 0 THEN Clamped(@) ELSE @]
    [] OTHER -> [ch EXCEPT !.vault = VaultStep(@, e.t)]

-----------------------------------------------------------------------------
(* Memory: functions with the present keys as their domains. *)
Empty == [markets |-> <<>>, slugs |-> <<>>, s2m |-> <<>>, names |-> <<>>, vault |-> NoVault,
          hold |-> 0]

Put(f, key, value) == [x \in DOMAIN f \union {key} |-> IF x = key THEN value ELSE f[x]]
Drop(f, keys) == [x \in DOMAIN f \ keys |-> f[x]]

Row(slug, state) == [slug |-> slug, state |-> state]
ShellRow == Row(<<>>, "Active")

(* Mutant of allocate_unique_slug: the suffix is counted once. *)
allocate_unique_slug_once(existing, base) ==
  IF base \in existing THEN Append(base, 2) ELSE base

(* The base, or the base with the first suffix that is free. *)
allocate_unique_slug(existing, base) ==
  IF base \notin existing THEN base
  ELSE Append(base, CHOOSE k \in 2..(Cardinality(existing) + 2) :
                      /\ Append(base, k) \notin existing
                      /\ \A j \in 2..(k - 1) : Append(base, j) \in existing)

(* Shells of their own go; an event under that id would stay. *)
remove_orphan_spot_shell(m, spots) == [m EXCEPT !.markets = Drop(@, {Shell(s) : s \in spots})]

(* Both legs now refer to the event. *)
bind_event_spot_legs(m, e) ==
  [remove_orphan_spot_shell(m, Legs(e)) EXCEPT
     !.s2m = [s \in DOMAIN m.s2m \union Legs(e) |->
                IF s \in Legs(e) THEN EventId(e) ELSE m.s2m[s]]]

(* upsert_market for Market::Event. *)
upsert_event(m, e, row) ==
  LET old == {slug \in DOMAIN m.slugs : m.slugs[slug] = e}
  IN  bind_event_spot_legs([m EXCEPT !.slugs = Put(Drop(@, old), row.slug, e),
                                     !.markets = Put(@, EventId(e), row)], e)

(* Mutant of IsOtherLeg: a leg of an event gets a shell as well. *)
NeverOtherLeg(m, s) == FALSE

lookup_spot_market(m, s) == s \in DOMAIN m.s2m

(* Already a leg of a market that is not a shell. *)
IsOtherLeg(m, s) == lookup_spot_market(m, s) /\ m.s2m[s] \in DOMAIN m.markets /\ m.s2m[s].k # "spot"

(* The two or_insert of register_named_spot_market. *)
InsertShell(m, s) ==
  [m EXCEPT !.s2m = IF s \in DOMAIN @ THEN @ ELSE Put(@, s, Shell(s)),
            !.markets = IF Shell(s) \in DOMAIN @ THEN @ ELSE Put(@, Shell(s), ShellRow)]

RegisterShell(m, s) == IF IsOtherLeg(m, s) THEN m ELSE InsertShell(m, s)

(* spot_by_name: the last market of a name takes it over. *)
InsertName(m, s, name) == [m EXCEPT !.names = Put(@, name, s)]

register_named_spot_market(m, s, name) ==
  IF name = NoName THEN m ELSE RegisterShell(InsertName(m, s, name), s)

(* An order on an unknown spot market registers it, under the name that already *)
(* leads to it or under its address, which no lookup by name looks for.         *)
ensure_standalone_spot_market(m, s) ==
  IF lookup_spot_market(m, s) THEN m ELSE RegisterShell(m, s)

(* Only entries with that market address change. *)
update_market_state(m, e, state) ==
  IF EventId(e) \in DOMAIN m.markets
  THEN [m EXCEPT !.markets[EventId(e)].state = state] ELSE m

index_spot_market_created(m, s) == register_named_spot_market(m, s, NameOf[s])

(* index_order_created, of which the registry sees only the market. *)
index_order_created(m, s) == ensure_standalone_spot_market(m, s)

index_market_created(m, e) ==
  upsert_event(m, e, Row(allocate_unique_slug(DOMAIN m.slugs, Question[e]), "Active"))

(* The holding, if there is one, is kept. *)
upsert_vault(m) == [m EXCEPT !.vault = NewVault]

index_vault_created(m) == upsert_vault(m)

(* update_vault_equity, update_vault_allow_deposit, mark_vault_closed: an *)
(* unknown vault is left alone.                                           *)
update_vault(m, ch, t) ==
  IF ~ m.vault.is THEN m
  ELSE CASE t = "deposited" -> [m EXCEPT !.vault.equity = ch.vault.equity]
         [] t = "permission" -> [m EXCEPT !.vault.allow = ch.vault.allow]
         [] t = "closed" -> [m EXCEPT !.vault.closed = TRUE, !.vault.allow = FALSE]

(* Sales are clamped at zero. *)
apply_vault_fill_to_portfolio(m, t) ==
  IF ~ m.vault.is THEN m
  ELSE CASE t = "bought" -> [m EXCEPT !.hold = @ + 1]
         [] t = "sold" -> [m EXCEPT !.hold = Clamped(@)]

(* Mutant of index_fill: the fill that ends an order is credited too. *)
index_every_fill(m, e) == apply_vault_fill_to_portfolio(m, e.t)

(* A fill is credited if the order is still there after update_order_fill. *)
index_fill(m, e) == IF e.n = 1 THEN m ELSE apply_vault_fill_to_portfolio(m, e.t)

apply_global_event(m, e, ch) ==
  CASE e.t = "spot" -> index_spot_market_created(m, e.n)
    [] e.t = "event" -> index_market_created(m, e.n)
    [] e.t = "resolved" -> update_market_state(m, e.n, "Resolved")
    [] e.t = "order" -> index_order_created(m, e.n)
    [] e.t = "vault" -> index_vault_created(m)
    [] e.t \in {"deposited", "permission", "closed"} -> update_vault(m, ch, e.t)
    [] e.t \in Fills -> index_fill(m, e)

(* The rows of a memory: export_markets_for_persist and the vault exports. *)
RowsOf(m) ==
  LET other == (IF m.vault.is THEN {Vault} ELSE {}) \union (IF m.hold > 0 THEN {Holding} ELSE {})
  IN  [id \in DOMAIN m.markets \union other |->
         CASE id = Vault -> m.vault [] id = Holding -> [amount |-> m.hold]
           [] OTHER -> m.markets[id]]

(* What the handler of a block stores.  register_named_spot_market has no *)
(* write set: new shells are not stored.                                  *)
Touched(e) ==
  CASE e.t \in {"event", "resolved"} -> {EventId(e.n)}
    [] e.t \in {"vault", "deposited", "permission", "closed"} -> {Vault}
    [] e.t \in Fills /\ e.n = 0 -> {Holding}
    [] OTHER -> {}

(* Mutant of WriteSetOf: a removed shell is not deleted from the tables. *)
WriteSetWithoutDelete(b, e, old, new) ==
  LET rows == RowsOf(new)
  IN  [n |-> b, rows |-> [id \in Touched(e) \intersect DOMAIN rows |-> rows[id]], del |-> {}]

(* What the block stores; removed shells and empty holdings are deleted. *)
WriteSetOf(b, e, old, new) ==
  LET rows == RowsOf(new)
  IN  [n |-> b, rows |-> [id \in Touched(e) \intersect DOMAIN rows |-> rows[id]],
       del |-> DOMAIN RowsOf(old) \ DOMAIN rows]

Written(t, w) ==
  LET kept == Drop(t.rows, w.del)
  IN  [n |-> w.n,
       rows |-> [id \in DOMAIN kept \union DOMAIN w.rows |->
                   IF id \in DOMAIN w.rows THEN w.rows[id] ELSE kept[id]]]

(* import_vault_portfolio_for_persist: no row, no holding. *)
import_vault_portfolio(t) == IF Holding \in DOMAIN t.rows THEN t.rows[Holding].amount ELSE 0

(* upsert_market, row by row, into an empty memory.  For the spots in late the *)
(* shell's row comes after the event's.  Of two events with the same slug one   *)
(* stays in slug_to_market.                                                     *)
upsert_markets(rows, late) ==
  LET shells == {s \in Spot : Shell(s) \in DOMAIN rows}
      evs == {e \in Event : EventId(e) \in DOMAIN rows}
      bound == (UNION {Legs(e) : e \in evs}) \ late
  IN  [Empty EXCEPT
         !.markets = [id \in (DOMAIN rows \intersect MarketId) \ {Shell(s) : s \in bound} |-> rows[id]],
         !.slugs = [x \in {rows[EventId(e)].slug : e \in evs} |->
                      CHOOSE e \in evs : rows[EventId(e)].slug = x],
         !.s2m = [s \in shells \union bound |->
                    IF s \in bound THEN EventId(Owner(s)) ELSE Shell(s)]]

(* load_into and apply_snapshot_to_memory. *)
Loaded(t, late) ==
  [upsert_markets(t.rows, late)
     EXCEPT !.vault = IF Vault \in DOMAIN t.rows THEN t.rows[Vault] ELSE NoVault,
            !.hold = import_vault_portfolio(t)]

Contested(t) == {s \in Spot : Shell(s) \in DOMAIN t.rows /\ EventId(Owner(s)) \in DOMAIN t.rows}

-----------------------------------------------------------------------------
NoHandler == [s |-> 0, name |-> NoName, at |-> "none"]

Init ==
  /\ log = <<>> /\ head = 0 /\ phase = "live" /\ mem = Empty
  /\ pending = <<>> /\ tables = [n |-> 0, rows |-> <<>>]
  /\ http = NoHandler /\ starts = 0
  /\ again = 0 /\ unmirrored = {} /\ lost = {} /\ orphans = {}

PeerAt(b) == IF b = 0 THEN Empty ELSE log[b].peer

Happened == {log[b].ev : b \in 1..Len(log)}
Mixed(events, spots) == \E mix \in Mixes : events \subseteq mix.events /\ spots \subseteq mix.asked

Produce(e) ==
  /\ Len(log) < MaxBlocks /\ (head = Len(log) \/ phase = "catchup")
  /\ Mixed({e} \union Happened, {})
  /\ LET ch == ChainStep(ChainAt(Len(log)), e)
     IN  log' = Append(log, [ev |-> e, ch |-> ch,
                             peer |-> apply_global_event(PeerAt(Len(log)), e, ch)])
  /\ UNCHANGED <<head, phase, mem, pending, tables, http, starts, ghosts>>

(* The event as the index takes it: after a restart or a snapshot the order of *)
(* a fill may be missing from the index, as orders have rows of their own.     *)
Seen(e) == {e} \union (IF starts > 0 /\ e.t \in Fills THEN {[e EXCEPT !.n = 1]} ELSE {})

(* A live block and its write set. *)
Apply(e) ==
  /\ phase = "live" /\ head < Len(log) /\ Len(pending) < MaxPending
  /\ head' = head + 1 /\ e \in Seen(log[head + 1].ev)
  /\ mem' = apply_global_event(mem, e, log[head + 1].ch)
  /\ pending' = Append(pending, WriteSetOf(head + 1, e, mem, mem'))
  /\ lost' = IF e = log[head + 1].ev THEN lost ELSE lost \union {Holding}
  /\ UNCHANGED <<log, phase, tables, http, starts, again, unmirrored, orphans>>

(* Keys whose rows differ. *)
Changed(old, new) ==
  {id \in DOMAIN old \union DOMAIN new :
     ~ (id \in DOMAIN old /\ id \in DOMAIN new /\ old[id] = new[id])}

(* process_block: the write set is dropped. *)
Replay(e) ==
  /\ phase \in {"replay", "tail"} /\ head < Len(log)
  /\ head' = head + 1 /\ e \in Seen(log[head + 1].ev)
  /\ mem' = apply_global_event(mem, e, log[head + 1].ch)
  /\ unmirrored' = unmirrored \union ({head + 1} \X Changed(RowsOf(mem), RowsOf(mem')))
  /\ lost' = IF e = log[head + 1].ev THEN lost ELSE lost \union {Holding}
  /\ UNCHANGED <<log, phase, pending, tables, http, starts, again, orphans>>

(* A restart goes on to live blocks; so does a catch-up whose full write fails. *)
ReplayEnds ==
  /\ phase \in {"replay", "tail"} /\ head = Len(log)
  /\ phase' = "live"
  /\ UNCHANGED <<log, head, mem, pending, tables, http, starts, ghosts>>

(* The catch-up ends with force_full_index_write. *)
FullWrite ==
  /\ pending = <<>> /\ head = Len(log) /\ head > 0
  /\ phase = "tail" \/ (phase = "live" /\ starts < MaxStarts)
  /\ tables' = [n |-> head, rows |-> RowsOf(mem)] /\ tables' # tables
  /\ phase' = "live" /\ unmirrored' = {}
  /\ UNCHANGED <<log, head, mem, pending, http, starts, again, lost, orphans>>

(* The stream still holds the blocks after k, which the catch-up has brought: *)
(* the apply worker takes them as they come, on top of what they have done.   *)
Overlap(k) ==
  /\ phase = "live" /\ starts > 0 /\ k < head /\ again = 0 /\ pending = <<>>
  /\ tables = [n |-> head, rows |-> RowsOf(mem)]
  /\ again' = head /\ head' = k
  /\ UNCHANGED <<log, phase, mem, pending, tables, http, starts, unmirrored, lost, orphans>>

(* The changes that a write set does not bring to the tables. *)
Remaining(changes, w) == {u \in changes : u[2] \notin DOMAIN w.rows \union w.del}

Commit ==
  /\ pending # <<>>
  /\ tables' = Written(tables, Head(pending)) /\ pending' = Tail(pending)
  /\ unmirrored' = Remaining(unmirrored, Head(pending))
  /\ UNCHANGED <<log, head, phase, mem, http, starts, again, lost, orphans>>

(* The write fails: its rows are gone, and the next write set moves the label. *)
CommitFails ==
  /\ pending # <<>>
  /\ LET w == Head(pending)
     IN  unmirrored' = unmirrored \union ({w.n} \X (DOMAIN w.rows \union w.del))
  /\ pending' = Tail(pending)
  /\ UNCHANGED <<log, head, phase, mem, tables, http, starts, again, lost, orphans>>

-----------------------------------------------------------------------------
(* HTTP handlers run without the apply gate, once the restart is over, on markets *)
(* of the chain that the index may not have seen yet.                             *)
Served(s) ==
  /\ LET ch == ChainAt(Len(log)) IN s \in ch.spots \union UNION {Legs(e) : e \in ch.events}
  /\ http = NoHandler /\ phase # "replay" /\ Mixed(Happened, {s})

(* A name that leads to s. *)
KnownName(m, s) ==
  IF \E x \in DOMAIN m.names : m.names[x] = s
  THEN CHOOSE x \in DOMAIN m.names : m.names[x] = s ELSE NoName

(* ensure_standalone_spot_market for an order that the handler indexes itself. *)
HttpOrder(s) ==
  /\ Served(s) /\ ~ lookup_spot_market(mem, s)
  /\ http' = [s |-> s, name |-> KnownName(mem, s), at |-> "name"]
  /\ UNCHANGED <<log, head, phase, mem, pending, tables, starts, ghosts>>

(* resolve_spot_for_name: a client asks for a name that leads nowhere, and every *)
(* market of the chain is registered, a known one too, until one has the name.   *)
HttpScan(s) ==
  /\ Served(s) /\ NameOf[s] # NoName
  /\ http' = [s |-> s, name |-> NameOf[s], at |-> "name"]
  /\ UNCHANGED <<log, head, phase, mem, pending, tables, starts, ghosts>>

(* register_named_spot_market inserts the name and looks for another leg ... *)
HttpCheck ==
  /\ http.at = "name"
  /\ mem' = IF http.name = NoName THEN mem ELSE InsertName(mem, http.s, http.name)
  /\ http' = IF IsOtherLeg(mem, http.s) THEN NoHandler ELSE [http EXCEPT !.at = "shell"]
  /\ UNCHANGED <<log, head, phase, pending, tables, starts, ghosts>>

(* ... and then inserts the shell. *)
HttpInsert ==
  /\ http.at = "shell"
  /\ mem' = InsertShell(mem, http.s)
  /\ orphans' = IF IsOtherLeg(mem, http.s) THEN orphans \union {http.s} ELSE orphans
  /\ http' = NoHandler
  /\ UNCHANGED <<log, head, phase, pending, tables, starts, again, unmirrored, lost>>

-----------------------------------------------------------------------------
(* Keys with a change by a block up to n among the given ones: the blocks after *)
(* the label n do not bring it back.                                            *)
Stale(changes, n) == {u[2] : u \in {x \in changes : x[1] <= n}}

(* Crash: the tables are loaded, the blocks after their label replayed. *)
Restart(late) ==
  /\ starts < MaxStarts /\ starts' = starts + 1
  /\ late \subseteq Contested(tables)
  /\ mem' = Loaded(tables, late)
  /\ head' = tables.n /\ phase' = "replay"
  /\ pending' = <<>> /\ http' = NoHandler
  /\ lost' = lost \union Stale(unmirrored, tables.n)
               \union {Shell(s) : s \in ChainAt(tables.n).spots}
  /\ orphans' = orphans \union {s \in Spot : Shell(s) \in Stale(unmirrored, tables.n)}
  /\ unmirrored' = {}
  /\ UNCHANGED <<log, tables, again>>

StartCatchup ==
  /\ phase = "live" /\ starts > 0 /\ starts < MaxStarts /\ pending = <<>>
  /\ phase' = "catchup" /\ starts' = starts + 1
  /\ UNCHANGED <<log, head, mem, pending, tables, http, ghosts>>

(* A row that later changes have not reached; a holding that counts a fill twice. *)
Outdated(id, row) ==
  CASE id = Vault -> NewVault
    [] id = Holding -> [amount |-> row.amount + 1]
    [] OTHER -> Row(row.slug, "Active")

PeerKeys(c) == {id \in DOMAIN RowsOf(PeerAt(c)) : id.k # "spot"}

(* The tables of a peer at block c.  A peer that has never stopped has the rows of *)
(* the chain and no shells; others have lost the rows in gone, have old versions   *)
(* of those in old and shells in their tables.                                     *)
PeerTables(c, gone, old, shells) ==
  LET rows == RowsOf(PeerAt(c))
      kept == PeerKeys(c) \ gone
  IN  [n |-> c, rows |-> [id \in kept \union {Shell(s) : s \in shells} |->
                            IF id \notin kept THEN ShellRow
                            ELSE IF id \in old THEN Outdated(id, rows[id]) ELSE rows[id]]]

ImportSnapshot(c, gone, old, shells, late) ==
  /\ phase = "catchup"
  /\ tables' = PeerTables(c, gone, old, shells)
  /\ late \subseteq Contested(tables') /\ mem' = Loaded(tables', late)
  /\ head' = c /\ phase' = "tail"
  /\ lost' = {Shell(s) : s \in ChainAt(c).spots} \union gone \union old
  /\ again' = 0 /\ unmirrored' = {} /\ orphans' = shells
  /\ UNCHANGED <<log, pending, http, starts>>

Few(S) == {x \in SUBSET S : Cardinality(x) <= MaxFaults}

Import ==
  /\ phase = "catchup"
  /\ \E c \in 1..Len(log), shells \in Few(Spot) : \E gone, old \in Few(PeerKeys(c)) :
       /\ Cardinality(gone) + Cardinality(old) + Cardinality(shells) <= MaxFaults
       /\ Mixed(Happened, shells)
       /\ \E late \in SUBSET shells : ImportSnapshot(c, gone, old, shells, late)

Next ==
  \/ \E e \in Events(ChainAt(Len(log))) : Produce(e)
  \/ head < Len(log) /\ \E e \in Seen(log[head + 1].ev) : Apply(e) \/ Replay(e)
  \/ ReplayEnds \/ FullWrite \/ Commit \/ CommitFails
  \/ \E k \in 0..head : Overlap(k)
  \/ \E s \in Spot : HttpOrder(s) \/ HttpScan(s)
  \/ HttpCheck \/ HttpInsert
  \/ \E late \in SUBSET Contested(tables) : Restart(late)
  \/ StartCatchup \/ Import

Spec == Init /\ [][Next]_vars

-----------------------------------------------------------------------------
(* Properties *)

(* Keys and references are of their kind; a holding is never negative, even *)
(* when the index has missed the purchase (a lost or replayed row).         *)
TypeOK ==
  /\ head \in 0..Len(log) /\ phase \in {"live", "replay", "catchup", "tail"}
  /\ DOMAIN mem.markets \subseteq MarketId /\ DOMAIN mem.s2m \subseteq Spot
  /\ \A s \in DOMAIN mem.s2m : mem.s2m[s] \in MarketId
  /\ \A x \in DOMAIN mem.names : mem.names[x] \in Spot
  /\ mem.hold \in Nat /\ Len(pending) <= MaxPending
  /\ http = NoHandler \/ (http.s \in Spot /\ http.name \in {NoName, NameOf[http.s]})

(* get_event_by_slug: what a link with the slug leads to. *)
get_event_by_slug(m, slug) == {EventId(e) : e \in {m.slugs[x] : x \in {slug} \intersect DOMAIN m.slugs}}
                                \intersect DOMAIN m.markets

(* The market that a name given by a client stands for. *)
resolve_spot_market_key(m, name) == {m.names[x] : x \in {name} \intersect DOMAIN m.names}

EventsIn(m) == {e \in Event : EventId(e) \in DOMAIN m.markets}

(* slug_to_market and the slugs of the event markets are inverse to each other: *)
(* no slug leads to a market that has a different one and no event is shadowed  *)
(* by another one's slug, also when a block is applied twice.  A restart that   *)
(* forgets a replayed change of an event, its new slug, may load two rows with  *)
(* the same one.                                                                *)
SlugMapsBack ==
  /\ (\A e \in Event : EventId(e) \notin lost) =>
       \A e \in EventsIn(mem) : get_event_by_slug(mem, mem.markets[EventId(e)].slug) = {EventId(e)}
  /\ \A slug \in DOMAIN mem.slugs :
       /\ mem.slugs[slug] \in EventsIn(mem)
       /\ mem.markets[EventId(mem.slugs[slug])].slug = slug

(* Every reference is to something there is, and slugs and events are inverse. *)
SlugsSound == TypeOK /\ SlugMapsBack

(* The spot markets of an indexed event lead to it and have no shell, whatever  *)
(* the order of market_created, event_contract_created and orders on them,      *)
(* except where an HTTP handler inserted its shell behind the event's back or a *)
(* restart forgot that the event had removed it.                                *)
LegsBound ==
  \A e \in EventsIn(mem) : \A s \in Legs(e) \ orphans :
    /\ lookup_spot_market(mem, s) /\ mem.s2m[s] = EventId(e)
    /\ Shell(s) \notin DOMAIN mem.markets

(* A spot market that was created with a name stays in spot_to_market, from     *)
(* which order books are hydrated, until a restart or a snapshot: shells have no *)
(* rows.  Its name leads to a market of that name, to another one if several     *)
(* have it, whoever registered last, and never to nothing before a restart.      *)
SpotKnown ==
  \A s \in ChainAt(head).spots : NameOf[s] = NoName \/
    /\ lookup_spot_market(mem, s) \/ Shell(s) \in lost
    /\ resolve_spot_market_key(mem, NameOf[s]) \subseteq {r \in Spot : NameOf[r] = NameOf[s]}
    /\ resolve_spot_market_key(mem, NameOf[s]) # {} \/ starts > 0

(* The tables, and the changes missing from them, after i write sets. *)
TablesAfter(i) ==
  CASE i = 0 -> tables
    [] i = 1 -> Written(tables, pending[1])
    [] i = 2 -> Written(Written(tables, pending[1]), pending[2])

UnmirroredAfter(i) ==
  CASE i = 0 -> unmirrored
    [] i = 1 -> Remaining(unmirrored, pending[1])
    [] i = 2 -> Remaining(Remaining(unmirrored, pending[1]), pending[2])

(* The tables, with the write sets on their way, hold the memory's rows except  *)
(* shells and what replayed blocks and failed write sets changed; a shell among *)
(* them that is gone from the memory is one that its event has not removed.     *)
OnlyShellsAreVolatile ==
  LET t == TablesAfter(Len(pending))
      missing == {u[2] : u \in UnmirroredAfter(Len(pending))}
  IN  \A id \in Changed(t.rows, RowsOf(mem)) \ missing :
        id.k = "spot" /\ (id \in DOMAIN t.rows => id.n \in orphans)

(* The state of the events and of the vault is the chain's, also after blocks   *)
(* were applied twice (while the second round lasts, an older state shows       *)
(* through), unless a restart or a peer lost a row.  The holding of the vault   *)
(* counts the fills of orders that stay open, each once while no block was      *)
(* applied twice; the fill that ends an order is never counted, so this is what *)
(* the vault has only while there was no such fill.                             *)
StateExact ==
  again <= head =>
    /\ \A e \in ChainAt(head).events :
         EventId(e) \in lost \/
           /\ EventId(e) \in DOMAIN mem.markets
           /\ mem.markets[EventId(e)].state =
                IF e \in ChainAt(head).resolved THEN "Resolved" ELSE "Active"
    /\ Vault \in lost \/ mem.vault = ChainAt(head).vault
    /\ Holding \in lost \/ Vault \in lost \/ again # 0 \/
         /\ mem.hold = ChainAt(head).credited
         /\ ChainAt(head).partial => mem.hold = ChainAt(head).hold

(* A spot market leads to its event or its shell, by address and by name. *)
SpotsResolve == LegsBound /\ SpotKnown

=============================================================================
