-------------------------- MODULE SpotOrdersProofs --------------------------
(***************************************************************************)
(* Proofs about SpotOrders: the orders, the level, the two maps and what   *)
(* the owner hears, for any set of orders and any sizes.                   *)
(*                                                                         *)
(*   Sums      SumFunction over finite sets, in whatever order it adds     *)
(*   Steady    types, what the four actors have in hand, where the node is *)
(*   Indexed   an order between two of its events, map by map              *)
(*   Joined    ids and orders, also where mark_cancelled interferes        *)
(*   Level     the book against the node's                                 *)
(*   Credited  the portfolio against the fills                             *)
(*   Told      the messages of the last event                              *)
(***************************************************************************)
EXTENDS SpotOrders, FiniteSetTheorems, WellFoundedInduction, TLAPS

-----------------------------------------------------------------------------
(* Sums.  SumFunction adds the values in the order in which CHOOSE picks the *)
(* arguments; these lemmas say that the order does not matter.               *)

Pick(s) == CHOOSE x \in s : TRUE

(* g adds up f over the subsets of S. *)
Adds(g, f, S) ==
  g = [s \in SUBSET S |-> IF s = {} THEN 0 ELSE f[Pick(s)] + g[s \ {Pick(s)}]]

(* SumFunction, unfolded: the last value of the function that adds up f. *)
LEMMA SumIs ==
  ASSUME NEW f
  PROVE  SumFunction(f) = (CHOOSE g : Adds(g, f, DOMAIN f))[DOMAIN f]
BY DEF SumFunction, SumFunctionOnSet, FoldFunctionOnSet, MapThenFoldSet, Adds, Pick

(* Pick takes a member. *)
LEMMA PickIn ==
  ASSUME NEW s, s # {}
  PROVE  Pick(s) \in s
BY DEF Pick

(* A nonempty set of natural numbers has a smallest element. *)
LEMMA Least ==
  ASSUME NEW S \in SUBSET Nat, S # {}
  PROVE  \E m \in S : \A k \in S : m <= k
<1>. DEFINE R == OpToRel(<, Nat)
<1>1. IsWellFoundedOn(R, Nat)
  BY NatLessThanWellFounded
<1>2. \A x, y \in Nat : x < y => <<x, y>> \in R
  BY DEF OpToRel
<1>. HIDE DEF R
<1>3. PICK m \in S : \A k \in S : <<k, m>> \notin R
  BY <1>1, WFMin
<1>4. \A k \in S : ~ (k < m)
  BY <1>2, <1>3, Zenon
<1>5. \A k \in S : m \in Nat /\ k \in Nat
  OBVIOUS
<1>. QED
  BY <1>4, <1>5

(* A nonempty collection of finite sets has one of least cardinality. *)
LEMMA Smallest ==
  ASSUME NEW C, C # {}, \A s \in C : IsFiniteSet(s)
  PROVE  \E s \in C : \A t \in C : Cardinality(s) <= Cardinality(t)
<1>. DEFINE N == {Cardinality(s) : s \in C}
<1>1. N \in SUBSET Nat /\ N # {}
  BY FS_CardinalityType
<1>2. PICK m \in N : \A k \in N : m <= k
  <2>. HIDE DEF N
  <2>. QED BY <1>1, Least
<1>. QED
  BY <1>2

(* Subsets of a finite set, and what removing one member does to their size. *)
LEMMA SubsetsFinite ==
  ASSUME NEW S, IsFiniteSet(S), NEW s \in SUBSET S
  PROVE  /\ IsFiniteSet(s) /\ Cardinality(s) \in Nat /\ Cardinality(s) <= Cardinality(S)
         /\ (Cardinality(s) = 0 <=> s = {})
         /\ \A x \in s : /\ s \ {x} \in SUBSET S /\ IsFiniteSet(s \ {x})
                         /\ Cardinality(s \ {x}) = Cardinality(s) - 1
                         /\ Cardinality(s \ {x}) \in Nat
<1>1. IsFiniteSet(s) /\ Cardinality(s) <= Cardinality(S)
  BY FS_Subset
<1>2. Cardinality(s) \in Nat
  BY <1>1, FS_CardinalityType
<1>3. Cardinality(s) = 0 <=> s = {}
  BY <1>1, FS_EmptySet
<1>4. ASSUME NEW x \in s
      PROVE  /\ s \ {x} \in SUBSET S /\ IsFiniteSet(s \ {x})
             /\ Cardinality(s \ {x}) = Cardinality(s) - 1 /\ Cardinality(s \ {x}) \in Nat
  <2>1. IsFiniteSet(s \ {x}) /\ Cardinality(s \ {x}) = Cardinality(s) - 1
    BY <1>1, FS_RemoveElement
  <2>2. Cardinality(s \ {x}) \in Nat
    BY <2>1, FS_CardinalityType
  <2>. QED
    BY <2>1, <2>2
<1>. QED
  BY <1>1, <1>2, <1>3, <1>4

(* The recursion has a solution, built up by cardinality. *)
LEMMA AddsExists ==
  ASSUME NEW S, IsFiniteSet(S), NEW f \in [S -> Nat]
  PROVE  \E g \in [SUBSET S -> Nat] : Adds(g, f, S)
<1>. DEFINE Upto(n) == {s \in SUBSET S : Cardinality(s) <= n}
            Good(h, n) == \A s \in Upto(n) :
                            h[s] = IF s = {} THEN 0 ELSE f[Pick(s)] + h[s \ {Pick(s)}]
            Bad == {n \in Nat : ~ \E h \in [Upto(n) -> Nat] : Good(h, n)}
<1>1. Bad = {}
  <2>. SUFFICES ASSUME Bad # {} PROVE FALSE
    OBVIOUS
  <2>1. PICK n \in Bad : \A k \in Bad : n <= k
    <3>1. Bad \in SUBSET Nat
      OBVIOUS
    <3>. HIDE DEF Bad
    <3>. QED BY <3>1, Least
  <2>2. n \in Nat /\ \A h \in [Upto(n) -> Nat] : ~ Good(h, n)
    OBVIOUS
  <2>3. CASE n = 0
    <3>1. \A s \in Upto(0) : s = {}
      BY SubsetsFinite
    <3>. DEFINE h == [s \in Upto(0) |-> 0]
    <3>2. h \in [Upto(0) -> Nat] /\ Good(h, 0)
      BY <3>1
    <3>. QED
      BY <2>2, <2>3, <3>2
  <2>4. CASE n # 0
    <3>a. n - 1 \in Nat /\ ~ (n <= n - 1)
      BY <2>2, <2>4
    <3>1. n - 1 \in Nat /\ n - 1 \notin Bad
      <4>. HIDE DEF Bad
      <4>. QED BY <2>1, <3>a
    <3>2. PICK h \in [Upto(n - 1) -> Nat] : Good(h, n - 1)
      BY <3>1
    <3>. DEFINE k == [s \in Upto(n) |-> IF s = {} THEN 0 ELSE f[Pick(s)] + h[s \ {Pick(s)}]]
    <3>3. \A s \in Upto(n) : s # {} => Pick(s) \in s /\ s \ {Pick(s)} \in Upto(n - 1) /\ f[Pick(s)] \in Nat
      BY <2>2, SubsetsFinite, PickIn
    <3>4. k \in [Upto(n) -> Nat]
      <4>1. ASSUME NEW s \in Upto(n) PROVE k[s] \in Nat
        <5>1. CASE s = {}
          BY <5>1
        <5>2. CASE s # {}
          <6>1. h[s \ {Pick(s)}] \in Nat /\ f[Pick(s)] \in Nat
            BY <3>2, <3>3, <5>2
          <6>. QED BY <5>2, <6>1
        <5>. QED BY <5>1, <5>2
      <4>. QED BY <4>1
    <3>5. \A s \in Upto(n - 1) : s \in Upto(n) /\ k[s] = h[s]
      <4>1. ASSUME NEW s \in Upto(n - 1) PROVE s \in Upto(n) /\ k[s] = h[s]
        <5>1. s \in Upto(n)
          BY <2>2, SubsetsFinite
        <5>2. h[s] = IF s = {} THEN 0 ELSE f[Pick(s)] + h[s \ {Pick(s)}]
          BY <3>2
        <5>. QED BY <5>1, <5>2
      <4>. QED BY <4>1
    <3>6. Good(k, n)
      <4>1. ASSUME NEW s \in Upto(n)
            PROVE  k[s] = IF s = {} THEN 0 ELSE f[Pick(s)] + k[s \ {Pick(s)}]
        <5>1. CASE s = {}
          BY <5>1
        <5>2. CASE s # {}
          <6>1. k[s \ {Pick(s)}] = h[s \ {Pick(s)}]
            BY <3>3, <3>5, <5>2
          <6>. QED BY <5>2, <6>1
        <5>. QED BY <5>1, <5>2
      <4>. QED BY <4>1
    <3>. QED
      BY <2>2, <3>4, <3>6
  <2>. QED
    BY <2>3, <2>4
<1>2. Cardinality(S) \in Nat
  BY FS_CardinalityType
<1>3. PICK h \in [Upto(Cardinality(S)) -> Nat] : Good(h, Cardinality(S))
  BY <1>1, <1>2
<1>4. Upto(Cardinality(S)) = SUBSET S
  BY SubsetsFinite
<1>5. Adds(h, f, S)
  BY <1>3, <1>4 DEF Adds
<1>. QED
  BY <1>3, <1>4, <1>5

(* Any argument may be added last. *)
AnyOrder(g, f, S) ==
  /\ g \in [SUBSET S -> Nat] /\ g[{}] = 0
  /\ \A s \in SUBSET S : \A x \in s : g[s] = f[x] + g[s \ {x}]

(* Whichever member is taken out first, the rest adds up to the same sum. *)
LEMMA AddsAny ==
  ASSUME NEW S, IsFiniteSet(S), NEW f \in [S -> Nat], NEW g, Adds(g, f, S)
  PROVE  AnyOrder(g, f, S)
<1>1. \A s \in SUBSET S : g[s] = IF s = {} THEN 0 ELSE f[Pick(s)] + g[s \ {Pick(s)}]
  BY DEF Adds
<1>2. DOMAIN g = SUBSET S /\ g = [s \in SUBSET S |-> g[s]]
  BY DEF Adds
<1>3. \A s \in SUBSET S : s # {} => Pick(s) \in s /\ f[Pick(s)] \in Nat
  BY PickIn
<1>. DEFINE Bad == {s \in SUBSET S : g[s] \notin Nat}
<1>4. Bad = {}
  <2>. SUFFICES ASSUME Bad # {} PROVE FALSE
    OBVIOUS
  <2>1. PICK s \in Bad : \A t \in Bad : Cardinality(s) <= Cardinality(t)
    <3>1. \A t \in Bad : IsFiniteSet(t)
      BY SubsetsFinite
    <3>. HIDE DEF Bad
    <3>. QED BY <3>1, Smallest
  <2>a. {} \in SUBSET S /\ g[{}] = 0
    BY <1>1
  <2>2. s # {} /\ s \in SUBSET S /\ g[s] \notin Nat
    BY <2>a
  <2>3. s \ {Pick(s)} \notin Bad
    <3>1. Cardinality(s \ {Pick(s)}) = Cardinality(s) - 1 /\ Cardinality(s) \in Nat
      BY <1>3, <2>2, SubsetsFinite
    <3>. QED BY <2>1, <3>1
  <2>4. s \ {Pick(s)} \in SUBSET S /\ g[s \ {Pick(s)}] \in Nat
    BY <2>2, <2>3
  <2>5. g[s] = f[Pick(s)] + g[s \ {Pick(s)}] /\ f[Pick(s)] \in Nat
    BY <1>1, <1>3, <2>2
  <2>. QED
    BY <2>2, <2>4, <2>5
<1>5. g \in [SUBSET S -> Nat]
  BY <1>2, <1>4
<1>. DEFINE Odd == {s \in SUBSET S : \E x \in s : g[s] # f[x] + g[s \ {x}]}
<1>6. Odd = {}
  <2>. SUFFICES ASSUME Odd # {} PROVE FALSE
    OBVIOUS
  <2>1. PICK s \in Odd : \A t \in Odd : Cardinality(s) <= Cardinality(t)
    <3>1. \A t \in Odd : IsFiniteSet(t)
      BY SubsetsFinite
    <3>. HIDE DEF Odd
    <3>. QED BY <3>1, Smallest
  <2>2. PICK x \in s : g[s] # f[x] + g[s \ {x}]
    OBVIOUS
  <2>. DEFINE c == Pick(s)
  <2>3. s \in SUBSET S /\ c \in s /\ g[s] = f[c] + g[s \ {c}]
    BY <1>1, <1>3
  <2>. HIDE DEF c
  <2>4. c # x
    BY <2>2, <2>3
  <2>5. \A y \in s : s \ {y} \in SUBSET S /\ s \ {y} \notin Odd
    <3>1. \A y \in s : Cardinality(s \ {y}) = Cardinality(s) - 1 /\ Cardinality(s) \in Nat
      BY <2>3, SubsetsFinite
    <3>2. \A y \in s : ~ (Cardinality(s) <= Cardinality(s \ {y}))
      BY <3>1
    <3>3. \A y \in s : s \ {y} \notin Odd
      <4>. HIDE DEF Odd
      <4>. QED BY <2>1, <3>2
    <3>. QED BY <2>3, <3>3
  <2>6. g[s \ {c}] = f[x] + g[(s \ {c}) \ {x}]
    BY <2>3, <2>4, <2>5
  <2>7. g[s \ {x}] = f[c] + g[(s \ {x}) \ {c}]
    BY <2>3, <2>4, <2>5
  <2>8. (s \ {x}) \ {c} = (s \ {c}) \ {x} /\ (s \ {x}) \ {c} \in SUBSET S
    BY <2>3
  <2>. DEFINE w == g[(s \ {x}) \ {c}]
  <2>9. w \in Nat /\ f[x] \in Nat /\ f[c] \in Nat
    BY <1>5, <2>3, <2>8
  <2>10. g[s \ {c}] = f[x] + w /\ g[s \ {x}] = f[c] + w
    BY <2>6, <2>7, <2>8
  <2>. HIDE DEF w
  <2>. QED
    BY <2>2, <2>3, <2>9, <2>10
<1>. QED
  BY <1>1, <1>5, <1>6 DEF AnyOrder

(* The sum over a subset does not depend on the function outside. *)
LEMMA AddsLess ==
  ASSUME NEW S, IsFiniteSet(S), NEW f \in [S -> Nat], NEW g, Adds(g, f, S),
         NEW T \in SUBSET S, NEW h \in [T -> Nat], \A x \in T : h[x] = f[x],
         NEW k, Adds(k, h, T)
  PROVE  k[T] = g[T]
<1>1. IsFiniteSet(T)
  BY FS_Subset
<1>a. AnyOrder(g, f, S)
  BY AddsAny
<1>b. AnyOrder(k, h, T)
  BY <1>1, AddsAny
<1>. DEFINE Bad == {s \in SUBSET T : k[s] # g[s]}
<1>2. Bad = {}
  <2>. SUFFICES ASSUME Bad # {} PROVE FALSE
    OBVIOUS
  <2>1. PICK s \in Bad : \A t \in Bad : Cardinality(s) <= Cardinality(t)
    <3>1. \A t \in Bad : IsFiniteSet(t)
      BY <1>1, SubsetsFinite
    <3>. HIDE DEF Bad
    <3>. QED BY <3>1, Smallest
  <2>2. s \in SUBSET T /\ s \in SUBSET S /\ k[s] # g[s]
    OBVIOUS
  <2>3. k[{}] = 0 /\ g[{}] = 0
    BY <1>a, <1>b DEF AnyOrder
  <2>4. PICK x \in s : TRUE
    BY <2>2, <2>3
  <2>5. g[s] = f[x] + g[s \ {x}]
    BY <1>a, <2>2 DEF AnyOrder
  <2>6. k[s] = h[x] + k[s \ {x}]
    BY <1>b, <2>2 DEF AnyOrder
  <2>7. s \ {x} \in SUBSET T /\ s \ {x} \notin Bad
    <3>1. Cardinality(s \ {x}) = Cardinality(s) - 1 /\ Cardinality(s) \in Nat
      BY <1>1, <2>2, SubsetsFinite
    <3>. QED BY <2>1, <2>2, <3>1
  <2>8. h[x] = f[x] /\ k[s \ {x}] = g[s \ {x}]
    BY <2>2, <2>7
  <2>. QED
    BY <2>2, <2>5, <2>6, <2>8
<1>. QED
  BY <1>2

(* SumFunction satisfies the recursion of its definition. *)
LEMMA SumAdds ==
  ASSUME NEW S, IsFiniteSet(S), NEW f \in [S -> Nat]
  PROVE  \E g : Adds(g, f, S) /\ SumFunction(f) = g[S]
<1>1. \E g : Adds(g, f, S)
  BY AddsExists
<1>. DEFINE g == CHOOSE x : Adds(x, f, S)
<1>2. Adds(g, f, S)
  BY <1>1
<1>3. SumFunction(f) = g[S]
  BY SumIs
<1>. QED
  BY <1>2, <1>3

(* The empty sum, and one argument split off. *)
LEMMA SumEmpty ==
  ASSUME NEW f \in [{} -> Nat]
  PROVE  SumFunction(f) = 0
<1>1. IsFiniteSet({})
  BY FS_EmptySet
<1>2. PICK g : Adds(g, f, {}) /\ SumFunction(f) = g[{}]
  BY <1>1, SumAdds, Zenon
<1>3. AnyOrder(g, f, {})
  BY <1>1, <1>2, AddsAny
<1>. QED
  BY <1>2, <1>3 DEF AnyOrder

Without(f, S, x) == [y \in S \ {x} |-> f[y]]

SplitOff(f, S, x) ==
  /\ SumFunction(f) \in Nat /\ SumFunction(Without(f, S, x)) \in Nat
  /\ SumFunction(f) = f[x] + SumFunction(Without(f, S, x))

(* So a sum is any one of its summands and the sum of the others. *)
LEMMA SumSplit ==
  ASSUME NEW S, IsFiniteSet(S), NEW f \in [S -> Nat], NEW x \in S
  PROVE  SplitOff(f, S, x)
<1>. DEFINE T == S \ {x}
            h == [y \in T |-> f[y]]
<1>1. PICK g : Adds(g, f, S) /\ SumFunction(f) = g[S]
  BY SumAdds
<1>2. IsFiniteSet(T) /\ T \in SUBSET S /\ h \in [T -> Nat]
  BY FS_RemoveElement
<1>3. \A y \in T : h[y] = f[y]
  OBVIOUS
<1>. HIDE DEF T, h
<1>4. PICK k : Adds(k, h, T) /\ SumFunction(h) = k[T]
  BY <1>2, SumAdds
<1>5. k[T] = g[T]
  BY <1>1, <1>2, <1>3, <1>4, AddsLess
<1>6. g \in [SUBSET S -> Nat] /\ \A s \in SUBSET S : \A y \in s : g[s] = f[y] + g[s \ {y}]
  <2>1. AnyOrder(g, f, S)
    BY <1>1, AddsAny
  <2>. QED BY <2>1 DEF AnyOrder
<1>7. g[S] = f[x] + g[T]
  BY <1>6 DEF T
<1>8. g[S] \in Nat /\ g[T] \in Nat
  BY <1>2, <1>6
<1>9. SumFunction(f) \in Nat /\ SumFunction(h) \in Nat /\ SumFunction(f) = f[x] + SumFunction(h)
  BY <1>1, <1>4, <1>5, <1>7, <1>8
<1>. QED
  BY <1>9 DEF T, h, SplitOff, Without

(* A sum of natural numbers is one. *)
LEMMA SumNat ==
  ASSUME NEW S, IsFiniteSet(S), NEW f \in [S -> Nat]
  PROVE  SumFunction(f) \in Nat
<1>1. PICK g : Adds(g, f, S) /\ SumFunction(f) = g[S]
  BY SumAdds
<1>2. AnyOrder(g, f, S)
  BY <1>1, AddsAny
<1>. QED
  BY <1>1, <1>2 DEF AnyOrder

(* A sum of zeros is zero. *)
LEMMA SumZero ==
  ASSUME NEW S, IsFiniteSet(S), NEW f \in [S -> Nat], \A x \in S : f[x] = 0
  PROVE  SumFunction(f) = 0
<1>1. PICK g : Adds(g, f, S) /\ SumFunction(f) = g[S]
  BY SumAdds
<1>2. AnyOrder(g, f, S)
  BY <1>1, AddsAny
<1>. DEFINE Bad == {s \in SUBSET S : g[s] # 0}
<1>3. Bad = {}
  <2>. SUFFICES ASSUME Bad # {} PROVE FALSE
    OBVIOUS
  <2>1. PICK s \in Bad : \A t \in Bad : Cardinality(s) <= Cardinality(t)
    <3>1. \A t \in Bad : IsFiniteSet(t)
      BY SubsetsFinite
    <3>. HIDE DEF Bad
    <3>. QED BY <3>1, Smallest
  <2>2. PICK x \in s : TRUE
    BY <1>2 DEF AnyOrder
  <2>3. s \in SUBSET S /\ g[s] = g[s \ {x}] /\ g[s] # 0
    <3>1. s \in SUBSET S /\ g[s] = f[x] + g[s \ {x}] /\ f[x] = 0
      BY <1>2, <2>2 DEF AnyOrder
    <3>2. g[s \ {x}] \in Nat
      BY <1>2, <3>1 DEF AnyOrder
    <3>. QED BY <3>1, <3>2
  <2>4. Cardinality(s \ {x}) = Cardinality(s) - 1 /\ Cardinality(s) \in Nat
    BY <2>2, <2>3, SubsetsFinite
  <2>5. ~ (Cardinality(s) <= Cardinality(s \ {x}))
    BY <2>4
  <2>6. s \ {x} \in Bad
    BY <2>3
  <2>. QED
    <3>. HIDE DEF Bad
    <3>. QED BY <2>1, <2>5, <2>6
<1>. QED
  BY <1>1, <1>3

(* Two functions that differ in one argument: their sums differ by that. *)
SumsDiffer(f, g, x) == \E rest \in Nat : SumFunction(f) = f[x] + rest /\ SumFunction(g) = g[x] + rest

(* Changing one summand changes the sum by the difference. *)
LEMMA SumDiffers ==
  ASSUME NEW S, IsFiniteSet(S), NEW f \in [S -> Nat], NEW g \in [S -> Nat], NEW x \in S,
         \A y \in S \ {x} : f[y] = g[y]
  PROVE  SumsDiffer(f, g, x)
<1>1. Without(f, S, x) = Without(g, S, x)
  BY DEF Without
<1>2. SplitOff(f, S, x) /\ SplitOff(g, S, x)
  BY SumSplit
<1>. QED
  BY <1>1, <1>2 DEF SplitOff, SumsDiffer

-----------------------------------------------------------------------------
(* The invariants *)

worker == proc["apply"]

(* What each actor may be doing, and with what in hand. *)
Hands ==
  /\ proc \in [Proc -> [pc : Step, ev : Event \union {NoEvent}, row : Row, at : Nat]]
  /\ \A p \in Proc : proc[p].at <= Len(log)
  /\ proc["mark"].pc \in {"idle", "lookup", "modify", "unlink", "drop"}
  /\ proc["index"].pc \in {"idle", "book", "insert", "put"}
  /\ proc["reader"].pc \in {"idle", "fetch", "install"}
  /\ \A p \in {"apply", "mark", "index"} : proc[p].pc # "idle" => proc[p].ev \in Event

(* The handlers work on orders they were called for. *)
Handlers ==
  /\ proc["mark"].pc # "idle" =>
       proc["mark"].ev.kind = "cancelled" /\ proc["mark"].ev.order \in marked
  /\ proc["index"].pc # "idle" =>
       /\ proc["index"].ev.kind = "created" /\ proc["index"].ev.size = NewSize
       /\ proc["index"].ev.order \in indexed /\ CreatedBy(proc["index"].ev.order, Len(log))

Before == {"fetch", "install", "book"}

(* The worker's event is the next one of the node, and its step fits the event. *)
Worker ==
  worker.pc # "idle" =>
    /\ applied < Len(log) /\ worker.ev = log[applied + 1]
    /\ worker.pc \in Before => worker.ev.kind # "executed" /\ worker.row = NewRow(worker.ev.size, "open", 0)
    /\ worker.pc \in {"insert", "put"} => worker.ev.kind \in {"created", "executed"}
    /\ worker.pc = "put" => worker.ev.kind = "created"
    /\ worker.pc \in {"lookup", "modify", "unlink", "drop"} => worker.ev.kind \notin {"created", "executed"}
    /\ worker.pc = "holding" => worker.ev.kind = "filled"
    /\ worker.pc \in {"insert", "put"} /\ worker.ev.kind = "created" => worker.row = NewRow(worker.ev.size, "open", 0)
    /\ worker.pc \in {"insert", "tell"} /\ worker.ev.kind = "executed" =>
         worker.row = index_market_order_executed(worker.ev)

(* The level accounts for the worker's event once the worker has passed the book. *)
BookAt == bookAt = IF worker.pc \in Before \union {"idle"} THEN applied ELSE applied + 1

(* A row as the node keeps it. *)
RowSound(r) ==
  \/ r = NoRow
  \/ /\ r \in Row /\ r.status # "none" /\ r.size >= 1 /\ r.filled <= r.size
     /\ Hot(r) => r.filled < r.size /\ (r.status = "open" <=> r.filled = 0)

(* The event e takes an order of the node from row r to row s. *)
Emits(r, e, s) ==
  \/ /\ e.kind = "created" /\ r = NoRow /\ e.amt = 0 /\ e.size = NewSize /\ e.left = NewSize
     /\ s = Chain(NewSize, 0)
  \/ /\ e.kind = "executed" /\ r = NoRow /\ e.amt \in 0..NewSize /\ e.size = NewSize /\ e.left = 0
     /\ s = ExecutedRow(NewSize, e.amt)
  \/ /\ e.kind = "filled" /\ e.amt \in 1..Remaining(r) /\ e.size = r.size
     /\ e.left = Remaining(r) - e.amt /\ s = Chain(r.size, r.filled + e.amt)
  \/ /\ e.kind = "updated" /\ Hot(r) /\ e.amt = r.size /\ e.size \in (r.filled..MaxSize) \ {0, r.size}
     /\ e.left = e.size - r.filled /\ s = Chain(e.size, r.filled)
  \/ /\ e.kind = "cancelled" /\ Hot(r) /\ e.amt = Remaining(r) /\ e.size = r.size /\ e.left = 0
     /\ s = [r EXCEPT !.status = "cancelled"]

(* The node's past is the effect of its events, one order at a time. *)
ChainSteps ==
  \A k \in 1..Len(log) :
    /\ Emits(past[k][log[k].order], log[k], past[k + 1][log[k].order])
    /\ \A o \in Order : o # log[k].order => past[k + 1][o] = past[k][o]

ChainRows == \A k \in 1..Len(past) : \A o \in Order : RowSound(past[k][o])

(* An order that exists at some time exists ever after. *)
ChainGrows ==
  \A i, j \in 1..Len(past) : i <= j => \A o \in Order : past[j][o] = NoRow => past[i][o] = NoRow

(* Announced orders were created. *)
EarlyCreated == \A o \in early : CreatedBy(o, Len(log))

Steady ==
  /\ TypeOK /\ Hands /\ Handlers /\ Worker /\ BookAt
  /\ ChainSteps /\ ChainRows /\ ChainGrows /\ EarlyCreated

(* All the index has of order o, and what it should have when row r is the node's. *)
Place(o) == [order |-> orders[o], row |-> rows[o], ids |-> byId \intersect {o}, gone |-> Archived(o)]

Wanted(o, r) ==
  [order |-> IF Hot(r) THEN r ELSE NoRow, row |-> IF Hot(r) THEN r ELSE NoRow,
   ids |-> IF Hot(r) THEN {o} ELSE {}, gone |-> IF r = NoRow \/ Hot(r) THEN {} ELSE {r}]

(* Order o, in place c, while the worker with hand h is at it; r and s are the *)
(* node's rows before and after the event.                                     *)
InHand(c, h, o, r, s) ==
  /\ h.pc \in Before \union {"insert", "lookup", "modify"} => c = Wanted(o, r)
  /\ h.pc = "put" => c = [order |-> NoRow, row |-> s, ids |-> {o}, gone |-> {}]
  /\ h.pc \in {"unlink", "drop"} =>
       /\ h.row = s /\ ~ Hot(s) /\ c.order = s /\ c.gone = {}
       /\ c.ids = IF h.pc = "unlink" THEN {o} ELSE {}
  /\ h.pc \in {"holding", "tell"} => c = Wanted(o, s)

Indexed ==
  \A o \in Order \ (marked \union indexed) :
    IF worker.pc = "idle" \/ worker.ev.order # o THEN Place(o) = Wanted(o, past[applied + 1][o])
    ELSE InHand(Place(o), worker, o, past[applied + 1][o], past[applied + 2][o])

(* An order the worker has not yet indexed is nowhere, and nobody can mark it. *)
Unborn(o) ==
  past[applied + 1][o] = NoRow /\ ~ (worker.pc = "tell" /\ worker.ev.order = o) =>
    orders[o] = NoRow /\ o \notin marked /\ (o \in byId <=> worker.pc = "put" /\ worker.ev.order = o)

Dropping(p, o) == proc[p].pc = "drop" /\ proc[p].ev.order = o

(* An id without an order is being put, an order without an id being dropped. *)
Paired(o) ==
  /\ o \in byId => orders[o] # NoRow \/ (worker.pc = "put" /\ worker.ev.order = o)
  /\ orders[o] # NoRow => o \in byId \/ Dropping("apply", o) \/ Dropping("mark", o)
  /\ Dropping("apply", o) \/ Dropping("mark", o) => o \notin byId

Joined == \A o \in Order \ indexed : Unborn(o) /\ Paired(o)

Total(K) == SumFunction([k \in K |-> log[k].amt])

(* The fill that has been credited and is not yet counted as applied. *)
Ahead == IF worker.pc = "tell" /\ worker.ev.kind = "filled" /\ worker.ev.left # 0 THEN worker.ev.amt ELSE 0

Credited ==
  marked = {} /\ indexed = {} => holding + Total(LastFills) = Total(Fills) + Ahead

-----------------------------------------------------------------------------
(* The node's events, order by order. *)

(* The absent row: not open and of size zero. *)
LEMMA NoRowFacts == NoRow.status = "none" /\ NoRow.size = 0 /\ NoRow.filled = 0 /\ ~ Hot(NoRow) /\ NoRow \in Row
BY OrderBoundsAssumption DEF NoRow, Hot, Row, Status

(* A row that is hot is a row of an order. *)
LEMMA HotFacts ==
  ASSUME NEW r, RowSound(r), Hot(r)
  PROVE  /\ r # NoRow /\ r \in Row /\ r.size \in 1..MaxSize /\ r.filled \in Nat
         /\ r.filled < r.size /\ Remaining(r) = r.size - r.filled /\ Remaining(r) \in 1..MaxSize
BY OrderBoundsAssumption, NoRowFacts DEF RowSound, Row, Remaining

(* No order is filled beyond its size, so the remaining size is no negative *)
(* number.                                                                  *)
LEMMA RemainingNat ==
  ASSUME NEW r, RowSound(r)
  PROVE  Remaining(r) \in Nat
BY HotFacts, OrderBoundsAssumption DEF Remaining

(* Only creations meet an order that is not there; all others need a hot one. *)
LEMMA EmitsFrom ==
  ASSUME NEW r, RowSound(r), NEW e \in Event, NEW s, Emits(r, e, s)
  PROVE  /\ e.kind \in {"created", "executed"} <=> r = NoRow
         /\ r # NoRow => Hot(r)
<1>1. CASE e.kind \in {"created", "executed"}
  BY <1>1 DEF Emits
<1>2. CASE e.kind \notin {"created", "executed"}
  <2>1. Hot(r)
    BY <1>2, OrderBoundsAssumption DEF Emits, Remaining
  <2>. QED
    BY <1>2, <2>1, NoRowFacts
<1>. QED
  BY <1>1, <1>2

(* What the node does to the row is what the index does. *)
LEMMA EmitsTo ==
  ASSUME NEW r, RowSound(r), NEW e \in Event, NEW s, Emits(r, e, s)
  PROVE  /\ s # NoRow /\ RowSound(s)
         /\ e.kind = "created" => s = NewRow(e.size, "open", 0) /\ Hot(s)
         /\ e.kind = "executed" => s = index_market_order_executed(e) /\ ~ Hot(s)
         /\ e.kind \notin {"created", "executed"} => s = Updated(r, e)
         /\ e.kind = "filled" => e.amt >= 1 /\ (Hot(s) <=> e.left # 0)
         /\ e.kind = "cancelled" => ~ Hot(s)
<1>0. NewSize \in 1..MaxSize /\ MaxSize \in Nat
  BY OrderBoundsAssumption
<1>1. CASE e.kind = "created"
  BY <1>0, <1>1 DEF Emits, Chain, NewRow, Hot, RowSound, NoRow, Row, Status
<1>2. CASE e.kind = "executed"
  BY <1>0, <1>2 DEF Emits, ExecutedRow, index_market_order_executed, Hot, RowSound, NoRow, Row, Status
<1>3. CASE e.kind \notin {"created", "executed"}
  <2>1. Hot(r)
    BY <1>3, EmitsFrom
  <2>2. /\ r \in Row /\ r.size \in 1..MaxSize /\ r.filled \in Nat /\ r.filled < r.size
        /\ Remaining(r) = r.size - r.filled /\ (r.status = "open" <=> r.filled = 0)
    BY <2>1, HotFacts DEF RowSound
  <2>3. r = [status |-> r.status, size |-> r.size, filled |-> r.filled]
    BY <2>2 DEF Row
  <2>4. CASE e.kind = "filled"
    <3>1. /\ e.amt \in 1..(r.size - r.filled) /\ e.left = (r.size - r.filled) - e.amt
          /\ s = Chain(r.size, r.filled + e.amt)
      BY <2>2, <2>4 DEF Emits
    <3>. DEFINE n == r.filled + e.amt
                st == IF e.left = 0 THEN "filled" ELSE "partial_filled"
    <3>2. n \in 1..r.size /\ n \in Nat /\ (n = r.size <=> e.left = 0) /\ n > 0
      BY <2>2, <3>1
    <3>3. s = [status |-> st, size |-> r.size, filled |-> n]
      BY <3>1, <3>2 DEF Chain
    <3>4. Updated(r, e) = [status |-> st, size |-> r.size, filled |-> n]
      BY <2>3, <2>4 DEF Updated
    <3>5. st \in Status /\ st # "none" /\ (st \in {"open", "partial_filled"} <=> e.left # 0) /\ st # "open"
      BY DEF Status
    <3>. HIDE DEF n, st
    <3>6. s \in Row /\ s.status = st /\ s.size = r.size /\ s.filled = n /\ (Hot(s) <=> e.left # 0)
      BY <1>0, <2>2, <3>2, <3>3, <3>5 DEF Row, Hot
    <3>7. RowSound(s) /\ s # NoRow
      BY <2>2, <3>2, <3>5, <3>6, NoRowFacts DEF RowSound
    <3>. QED
      BY <2>4, <3>1, <3>3, <3>4, <3>6, <3>7
  <2>5. CASE e.kind = "updated"
    <3>1. /\ e.size \in r.filled..MaxSize /\ e.size # 0 /\ e.left = e.size - r.filled
          /\ s = Chain(e.size, r.filled)
      BY <2>5 DEF Emits
    <3>. DEFINE st == IF e.left = 0 THEN "filled" ELSE IF r.filled > 0 THEN "partial_filled" ELSE "open"
    <3>2. e.size \in 1..MaxSize /\ (r.filled = e.size <=> e.left = 0)
      BY <1>0, <2>2, <3>1
    <3>3. s = [status |-> st, size |-> e.size, filled |-> r.filled]
      BY <3>1, <3>2 DEF Chain
    <3>4. Updated(r, e) = [status |-> st, size |-> e.size, filled |-> r.filled]
      BY <2>3, <2>5 DEF Updated
    <3>5. /\ st \in Status /\ st # "none" /\ (st \in {"open", "partial_filled"} <=> e.left # 0)
          /\ e.left # 0 => (st = "open" <=> r.filled = 0)
      BY <2>2 DEF Status
    <3>. HIDE DEF st
    <3>6. s \in Row /\ s.status = st /\ s.size = e.size /\ s.filled = r.filled /\ (Hot(s) <=> e.left # 0)
      BY <1>0, <2>2, <3>2, <3>3, <3>5 DEF Row, Hot
    <3>7. RowSound(s) /\ s # NoRow
      BY <1>0, <2>2, <3>1, <3>2, <3>5, <3>6, NoRowFacts DEF RowSound
    <3>. QED
      BY <2>5, <3>1, <3>3, <3>4, <3>6, <3>7
  <2>6. CASE e.kind = "cancelled"
    BY <1>0, <2>2, <2>3, <2>6 DEF Emits, Updated, Hot, RowSound, NoRow, Row, Status
  <2>. QED
    BY <1>3, <2>4, <2>5, <2>6 DEF Event
<1>. QED
  BY <1>1, <1>2, <1>3

(* What an event does to the level is what it does to the order's remainder. *)
LEMMA EmitsLevel ==
  ASSUME NEW r, RowSound(r), NEW e \in Event, NEW s, Emits(r, e, s),
         NEW l \in Nat, l >= Remaining(r)
  PROVE  /\ e.kind # "executed" => LevelAfter(l, e) = (l - Remaining(r)) + Remaining(s)
         /\ e.kind = "executed" => Remaining(r) = 0 /\ Remaining(s) = 0
         /\ e.kind = "created" => Remaining(r) = 0 /\ Remaining(s) = NewSize
<1>0. NewSize \in 1..MaxSize /\ MaxSize \in Nat /\ ~ Hot(NoRow)
  BY OrderBoundsAssumption, NoRowFacts
<1>1. CASE e.kind = "created"
  BY <1>0, <1>1 DEF Emits, Chain, Remaining, Hot, LevelAfter
<1>2. CASE e.kind = "executed"
  BY <1>0, <1>2 DEF Emits, ExecutedRow, Remaining, Hot
<1>3. CASE e.kind \notin {"created", "executed"}
  <2>1. Hot(r)
    BY <1>3, EmitsFrom
  <2>2. /\ r.size \in 1..MaxSize /\ r.filled \in Nat /\ r.filled < r.size
        /\ Remaining(r) = r.size - r.filled /\ r \in Row
    BY <2>1, HotFacts
  <2>4. CASE e.kind = "filled"
    BY <1>0, <2>2, <2>4 DEF Emits, Chain, Remaining, Hot, LevelAfter, Minus
  <2>5. CASE e.kind = "updated"
    <3>1. e.amt = r.size /\ e.size \in r.filled..MaxSize /\ e.left = e.size - r.filled /\ s = Chain(e.size, r.filled)
      BY <2>5 DEF Emits
    <3>2. Minus(e.size, e.left) = r.filled
      BY <1>0, <2>2, <3>1 DEF Minus
    <3>3. Minus(e.amt, Minus(e.size, e.left)) = Remaining(r)
      BY <2>2, <3>1, <3>2 DEF Minus
    <3>4. Remaining(s) = e.left
      BY <1>0, <2>2, <3>1 DEF Remaining, Hot, Chain
    <3>5. e.left \in Nat /\ Remaining(r) \in Nat
      BY <1>0, <2>2, <3>1
    <3>6. LevelAfter(l, e) = IF e.left > Remaining(r) THEN l + (e.left - Remaining(r))
                             ELSE Minus(l, Remaining(r) - e.left)
      BY <2>5, <3>3 DEF LevelAfter
    <3>. QED
      BY <2>5, <3>4, <3>5, <3>6 DEF Minus
  <2>6. CASE e.kind = "cancelled"
    BY <1>0, <2>2, <2>6 DEF Emits, Remaining, Hot, LevelAfter, Minus, Row
  <2>. QED
    BY <1>3, <2>4, <2>5, <2>6 DEF Event
<1>. QED
  BY <1>1, <1>2, <1>3
-----------------------------------------------------------------------------
(* The node goes on; nobody else touches its log. *)

ChainSound == ChainSteps /\ ChainRows /\ ChainGrows

(* The node: one state before each event and one after the last. *)
LEMMA LogFacts ==
  ASSUME TypeOK
  PROVE  /\ Len(log) \in Nat /\ Len(past) = Len(log) + 1 /\ applied \in Nat /\ applied <= Len(log)
         /\ \A k \in 1..Len(log) : log[k] \in Event /\ log[k].order \in Order /\ log[k].amt \in Nat
         /\ \A k \in 1..Len(past) : past[k] \in [Order -> Row]
<1>1. log \in Seq(Event) /\ past \in Seq([Order -> Row]) /\ Len(past) = Len(log) + 1 /\ applied \in 0..Len(log)
  BY DEF TypeOK
<1>2. \A e \in Event : e.order \in Order /\ e.amt \in Nat
  BY OrderBoundsAssumption DEF Event
<1>3. \A k \in 1..Len(log) : log[k] \in Event
  BY <1>1
<1>4. \A k \in 1..Len(past) : past[k] \in [Order -> Row]
  BY <1>1
<1>5. Len(log) \in Nat /\ applied \in Nat /\ applied <= Len(log)
  BY <1>1
<1>. QED
  BY <1>1, <1>2, <1>3, <1>4, <1>5

(* An event of the node has the shape of one of its five kinds. *)
LEMMA NodeEmits ==
  ASSUME Steady, NEW o \in Order, NodeStep(o)
  PROVE  \E e \in Event, s \in Row : e.order = o /\ Emits(past[Len(past)][o], e, s) /\ Emit(e, s)
<1>. DEFINE r == past[Len(past)][o]
            event(k, n, z, l) == [kind |-> k, order |-> o, amt |-> n, size |-> z, left |-> l]
<1>0. NewSize \in 1..MaxSize /\ MaxSize \in Nat /\ NewSize \in Nat
  BY OrderBoundsAssumption
<1>1. RowSound(r) /\ r \in Row
  BY LogFacts DEF Steady, ChainRows
<1>2. \A s : RowSound(s) => s \in Row
  BY NoRowFacts DEF RowSound
<1>3. ASSUME NEW e \in Event, NEW s, e.order = o, Emits(r, e, s), Emit(e, s)
      PROVE  \E f \in Event, z \in Row : f.order = o /\ Emits(r, f, z) /\ Emit(f, z)
  <2>1. s \in Row
    BY <1>1, <1>2, <1>3, EmitsTo
  <2>. QED
    BY <1>3, <2>1
<1>. SUFFICES \E e \in Event, s \in Row : e.order = o /\ Emits(r, e, s) /\ Emit(e, s)
  OBVIOUS
<1>a. Hot(r) => /\ r.size \in 1..MaxSize /\ r.filled \in Nat /\ r.filled < r.size
                /\ Remaining(r) = r.size - r.filled /\ Remaining(r) \in 1..MaxSize
  BY <1>1, HotFacts
<1>b. ~ Hot(r) => Remaining(r) = 0
  BY DEF Remaining
<1>. HIDE DEF r
<1>5. CASE r = NoRow /\ Emit(event("created", 0, NewSize, NewSize), Chain(NewSize, 0))
  <2>1. Emits(r, event("created", 0, NewSize, NewSize), Chain(NewSize, 0))
    BY <1>5 DEF Emits
  <2>2. event("created", 0, NewSize, NewSize) \in Event
    BY <1>0 DEF Event
  <2>. QED
    BY <1>3, <1>5, <2>1, <2>2
<1>6. CASE r = NoRow /\ \E n \in 0..NewSize : Emit(event("executed", n, NewSize, 0), ExecutedRow(NewSize, n))
  <2>1. PICK n \in 0..NewSize : Emit(event("executed", n, NewSize, 0), ExecutedRow(NewSize, n))
    BY <1>6
  <2>2. Emits(r, event("executed", n, NewSize, 0), ExecutedRow(NewSize, n))
    BY <1>6 DEF Emits
  <2>3. event("executed", n, NewSize, 0) \in Event
    BY <1>0 DEF Event
  <2>. QED
    BY <1>3, <2>1, <2>2, <2>3
<1>7. CASE \E n \in 1..Remaining(r) :
             Emit(event("filled", n, r.size, Remaining(r) - n), Chain(r.size, r.filled + n))
  <2>1. PICK n \in 1..Remaining(r) :
             Emit(event("filled", n, r.size, Remaining(r) - n), Chain(r.size, r.filled + n))
    BY <1>7
  <2>2. Hot(r)
    BY <1>b, <2>1
  <2>3. event("filled", n, r.size, Remaining(r) - n) \in Event
    BY <1>0, <1>a, <2>1, <2>2 DEF Event
  <2>4. Emits(r, event("filled", n, r.size, Remaining(r) - n), Chain(r.size, r.filled + n))
    BY <2>1 DEF Emits
  <2>. QED
    BY <1>3, <2>1, <2>3, <2>4
<1>8. CASE Hot(r) /\ \E z \in (r.filled..MaxSize) \ {0, r.size} :
             Emit(event("updated", r.size, z, z - r.filled), Chain(z, r.filled))
  <2>1. PICK z \in (r.filled..MaxSize) \ {0, r.size} :
             Emit(event("updated", r.size, z, z - r.filled), Chain(z, r.filled))
    BY <1>8
  <2>2. event("updated", r.size, z, z - r.filled) \in Event
    BY <1>0, <1>8, <1>a, <2>1 DEF Event
  <2>3. Emits(r, event("updated", r.size, z, z - r.filled), Chain(z, r.filled))
    BY <1>8, <2>1 DEF Emits
  <2>. QED
    BY <1>3, <2>1, <2>2, <2>3
<1>9. CASE Hot(r) /\ Emit(event("cancelled", Remaining(r), r.size, 0), [r EXCEPT !.status = "cancelled"])
  <2>1. event("cancelled", Remaining(r), r.size, 0) \in Event
    BY <1>0, <1>9, <1>a DEF Event
  <2>2. Emits(r, event("cancelled", Remaining(r), r.size, 0), [r EXCEPT !.status = "cancelled"])
    BY <1>9 DEF Emits
  <2>. QED
    BY <1>3, <1>9, <2>1, <2>2
<1>. QED
  BY <1>5, <1>6, <1>7, <1>8, <1>9 DEF NodeStep, r

(* The past stays; one event and its effect are added. *)
LEMMA NodeGoesOn ==
  ASSUME Steady, NEW o \in Order, NodeStep(o)
  PROVE  /\ UNCHANGED <<applied, proc, book, index, holding, requests>>
         /\ log' \in Seq(Event) /\ Len(log') = Len(log) + 1 /\ Len(log') <= MaxEvents
         /\ past' \in Seq([Order -> Row]) /\ Len(past') = Len(past) + 1
         /\ \A k \in 1..Len(log) : log'[k] = log[k]
         /\ \A k \in 1..Len(past) : past'[k] = past[k]
         /\ ChainSound'
<1>1. PICK e \in Event, s \in Row : e.order = o /\ Emits(past[Len(past)][o], e, s) /\ Emit(e, s)
  BY NodeEmits
<1>2. /\ UNCHANGED <<applied, proc, book, index, holding, requests>> /\ Len(log) < MaxEvents
      /\ log' = Append(log, e) /\ past' = Append(past, [past[Len(past)] EXCEPT ![o] = s])
  BY <1>1 DEF Emit
<1>. DEFINE new == [past[Len(past)] EXCEPT ![o] = s]
            N == Len(past)
<1>3. /\ log \in Seq(Event) /\ past \in Seq([Order -> Row]) /\ N = Len(log) + 1 /\ Len(log) \in Nat
      /\ past[N] \in [Order -> Row]
  BY LogFacts DEF Steady, TypeOK
<1>4. new \in [Order -> Row] /\ new[o] = s /\ \A x \in Order : x # o => new[x] = past[N][x]
  BY <1>3
<1>. HIDE DEF new
<1>5. past' = Append(past, new)
  BY <1>2 DEF new
<1>6. /\ log' \in Seq(Event) /\ Len(log') = Len(log) + 1 /\ Len(log') <= MaxEvents
      /\ \A k \in 1..Len(log) : log'[k] = log[k]
      /\ log'[N] = e
  BY <1>2, <1>3, OrderBoundsAssumption
<1>7. /\ past' \in Seq([Order -> Row]) /\ Len(past') = N + 1
      /\ \A k \in 1..N : past'[k] = past[k]
      /\ past'[N + 1] = new
  BY <1>3, <1>4, <1>5
<1>. HIDE DEF N
<1>b. N \in Nat
  BY <1>3
<1>8. ChainSteps'
  <2>1. ASSUME NEW k \in 1..Len(log')
        PROVE  /\ Emits(past'[k][log'[k].order], log'[k], past'[k + 1][log'[k].order])
               /\ \A x \in Order : x # log'[k].order => past'[k + 1][x] = past'[k][x]
    <3>1. CASE k \in 1..Len(log)
      <4>1. log'[k] = log[k] /\ past'[k] = past[k] /\ past'[k + 1] = past[k + 1]
        BY <1>3, <1>6, <1>7, <3>1
      <4>. QED
        BY <3>1, <4>1 DEF Steady, ChainSteps
    <3>2. CASE k = N
      <4>1. log'[k] = e /\ past'[k] = past[N] /\ past'[k + 1] = new
        BY <1>3, <1>6, <1>7, <3>2
      <4>2. Emits(past[N][o], e, s)
        BY <1>1 DEF N
      <4>. QED
        BY <1>1, <1>4, <4>1, <4>2
    <3>. QED
      BY <1>3, <1>6, <3>1, <3>2
  <2>. QED
    BY <2>1 DEF ChainSteps, Emits, Remaining, Hot, Chain, ExecutedRow
<1>9. RowSound(s) /\ s # NoRow
  <2>1. RowSound(past[N][o])
    BY <1>3 DEF Steady, ChainRows, N
  <2>. QED
    BY <1>1, <2>1, EmitsTo DEF N
<1>10. ChainRows'
  <2>1. ASSUME NEW k \in 1..Len(past'), NEW x \in Order
        PROVE  RowSound(past'[k][x])
    <3>0. 1..N = 1..Len(past)
      BY DEF N
    <3>1. CASE k \in 1..N
      BY <1>7, <3>0, <3>1 DEF Steady, ChainRows
    <3>2. CASE k = N + 1
      <4>1. RowSound(past[N][x])
        BY <1>3, <3>0 DEF Steady, ChainRows
      <4>. QED
        BY <1>4, <1>7, <1>9, <3>2, <4>1
    <3>. QED
      BY <1>3, <1>7, <3>1, <3>2
  <2>. QED
    BY <2>1 DEF ChainRows, RowSound, Hot
<1>11. ChainGrows'
  <2>1. ASSUME NEW i \in 1..Len(past'), NEW j \in 1..Len(past'), i <= j, NEW x \in Order,
               past'[j][x] = NoRow
        PROVE  past'[i][x] = NoRow
    <3>0. \A k, m \in 1..N : k <= m => \A y \in Order : past[m][y] = NoRow => past[k][y] = NoRow
      BY DEF Steady, ChainGrows, N
    <3>1. CASE j \in 1..N
      <4>1. i \in 1..N
        BY <1>3, <1>7, <2>1, <3>1
      <4>. QED
        BY <1>7, <2>1, <3>0, <3>1, <4>1
    <3>2. CASE j = N + 1
      <4>1. x # o /\ past[N][x] = NoRow
        BY <1>4, <1>7, <1>9, <2>1, <3>2
      <4>2. CASE i = N + 1
        BY <2>1, <3>2, <4>2
      <4>3. CASE i \in 1..N
        <5>1. N \in 1..N /\ i <= N
          BY <1>3, <4>3
        <5>. QED
          BY <1>7, <3>0, <4>1, <4>3, <5>1
      <4>. QED
        BY <1>3, <1>7, <4>2, <4>3
    <3>. QED
      BY <1>3, <1>7, <3>1, <3>2
  <2>. QED
    BY <2>1 DEF ChainGrows
<1>. QED
  BY <1>2, <1>6, <1>7, <1>8, <1>10, <1>11 DEF ChainSound, N

(* The log is a run of the node as long as the node does nothing. *)
LEMMA ChainStays ==
  ASSUME ChainSound, UNCHANGED <<log, past>>
  PROVE  ChainSound'
<1>1. ChainSteps'
  BY DEF ChainSound, ChainSteps
<1>2. ChainRows'
  BY DEF ChainSound, ChainRows, RowSound, Hot
<1>3. ChainGrows'
  BY DEF ChainSound, ChainGrows
<1>. QED
  BY <1>1, <1>2, <1>3 DEF ChainSound

(* Another order is not touched by an event, and the event's own one by Emits. *)
LEMMA StepFacts ==
  ASSUME TypeOK, ChainSound, NEW k \in 0..Len(log) - 1
  PROVE  /\ log[k + 1] \in Event /\ log[k + 1].order \in Order
         /\ past[k + 1] \in [Order -> Row] /\ past[k + 2] \in [Order -> Row]
         /\ \A o \in Order : RowSound(past[k + 1][o]) /\ RowSound(past[k + 2][o])
         /\ Emits(past[k + 1][log[k + 1].order], log[k + 1], past[k + 2][log[k + 1].order])
         /\ \A o \in Order : o # log[k + 1].order => past[k + 2][o] = past[k + 1][o]
<1>1. k + 1 \in 1..Len(log) /\ k + 1 \in 1..Len(past) /\ k + 2 \in 1..Len(past) /\ (k + 1) + 1 = k + 2
  BY LogFacts
<1>. QED
  BY <1>1, LogFacts DEF ChainSound, ChainSteps, ChainRows

(* Only one event creates an order. *)
LEMMA CreatedOnce ==
  ASSUME TypeOK, ChainSound, NEW i \in 1..Len(log), NEW j \in 1..Len(log),
         log[i].order = log[j].order,
         log[i].kind \in {"created", "executed"}, log[j].kind \in {"created", "executed"}
  PROVE  i = j
<1>1. ASSUME NEW k \in 1..Len(log), NEW m \in 1..Len(log), k < m, log[k].order = log[m].order,
             log[k].kind \in {"created", "executed"}, log[m].kind \in {"created", "executed"}
      PROVE  FALSE
  <2>0. Len(log) \in Nat /\ k - 1 \in 0..Len(log) - 1 /\ m - 1 \in 0..Len(log) - 1
    BY LogFacts
  <2>. DEFINE o == log[k].order
  <2>1. past[m][o] = NoRow /\ o \in Order
    <3>1. (m - 1) + 1 = m /\ (m - 1) + 2 = m + 1
      BY <2>0
    <3>2. RowSound(past[m][o]) /\ Emits(past[m][o], log[m], past[m + 1][o]) /\ log[m] \in Event /\ o \in Order
      BY <1>1, <2>0, <3>1, StepFacts
    <3>. QED
      BY <1>1, <3>2, EmitsFrom
  <2>2. past[k + 1][o] # NoRow
    <3>1. (k - 1) + 1 = k /\ (k - 1) + 2 = k + 1
      BY <2>0
    <3>2. RowSound(past[k][o]) /\ Emits(past[k][o], log[k], past[k + 1][o]) /\ log[k] \in Event
      BY <2>0, <3>1, StepFacts
    <3>. QED
      BY <3>2, EmitsTo
  <2>3. k + 1 \in 1..Len(past) /\ m \in 1..Len(past) /\ k + 1 <= m
    BY <1>1, LogFacts
  <2>. QED
    BY <2>1, <2>2, <2>3 DEF ChainSound, ChainGrows
<1>2. i \in Nat /\ j \in Nat
  BY LogFacts
<1>3. i < j \/ j < i \/ i = j
  BY <1>2
<1>. QED
  BY <1>1, <1>3

(* The node's book. *)
LEMMA ChainLevelNat ==
  ASSUME TypeOK, ChainSound, NEW k \in 0..Len(log)
  PROVE  ChainLevel(k) \in Nat
<1>. DEFINE f == [o \in Order |-> Remaining(past[k + 1][o])]
<1>1. k + 1 \in 1..Len(past)
  BY LogFacts
<1>2. \A o \in Order : Remaining(past[k + 1][o]) \in Nat
  BY <1>1, RemainingNat DEF ChainSound, ChainRows
<1>3. f \in [Order -> Nat]
  BY <1>2
<1>. HIDE DEF f
<1>4. SumFunction(f) \in Nat
  BY <1>3, OrderAssumption, SumNat
<1>. QED
  BY <1>4 DEF ChainLevel, f
-----------------------------------------------------------------------------
(* One actor moves. *)

Hand == [pc : Step, ev : Event \union {NoEvent}, row : Row, at : Nat]

(* One actor moves, the others keep what they have in hand. *)
LEMMA Moved ==
  ASSUME Hands, NEW p \in Proc, NEW h \in Hand, proc' = [proc EXCEPT ![p] = h]
  PROVE  /\ proc' \in [Proc -> Hand] /\ proc'[p] = h
         /\ \A q \in Proc : q # p => proc'[q] = proc[q]
BY DEF Hands, Hand

(* The hand of an idle actor. *)
LEMMA IdleFacts == Idle \in Hand /\ Idle.pc = "idle" /\ Idle.at = 0
BY NoRowFacts DEF Idle, Hand, Step

(* What Goto leaves in the actor's hand. *)
Turned(p, pc) == IF pc = "idle" THEN Idle ELSE [proc[p] EXCEPT !.pc = pc]

(* Goto changes the program counter only; the apply worker that ends has *)
(* applied its event.                                                    *)
LEMMA TurnedFacts ==
  ASSUME Hands, NEW p \in Proc, NEW pc \in Step
  PROVE  /\ Turned(p, pc) \in Hand /\ Turned(p, pc).pc = pc /\ Turned(p, pc).at <= Len(log)
         /\ pc # "idle" => /\ Turned(p, pc).ev = proc[p].ev /\ Turned(p, pc).row = proc[p].row
                           /\ Turned(p, pc).at = proc[p].at
         /\ Goto(p, pc) => /\ proc' = [proc EXCEPT ![p] = Turned(p, pc)]
                           /\ applied' = IF p = "apply" /\ pc = "idle" THEN applied + 1 ELSE applied
<1>1. proc[p] \in Hand /\ proc[p].at <= Len(log) /\ Len(log) >= 0
  BY DEF Hands, Hand
<1>2. CASE pc = "idle"
  BY <1>1, <1>2, IdleFacts DEF Turned, Goto
<1>3. CASE pc # "idle"
  <2>1. Turned(p, pc) = [proc[p] EXCEPT !.pc = pc]
    BY <1>3 DEF Turned
  <2>2. [proc[p] EXCEPT !.pc = pc] \in Hand
    BY <1>1 DEF Hand
  <2>3. /\ Turned(p, pc).pc = pc /\ Turned(p, pc).ev = proc[p].ev /\ Turned(p, pc).row = proc[p].row
        /\ Turned(p, pc).at = proc[p].at
    BY <1>1, <2>1 DEF Hand
  <2>4. Goto(p, pc) => proc' = [proc EXCEPT ![p] = Turned(p, pc)]
    BY <1>3, <2>1 DEF Goto, Hands
  <2>. QED
    BY <1>1, <1>3, <2>1, <2>2, <2>3, <2>4 DEF Goto
<1>. QED
  BY <1>2, <1>3

(* The worker moves. *)
LEMMA ApplyMoves ==
  ASSUME Steady, NEW h \in Hand, proc' = [proc EXCEPT !["apply"] = h],
         UNCHANGED <<log, past, marked, indexed>>,
         h.at <= Len(log), h.pc # "idle" => h.ev \in Event
  PROVE  /\ Hands' /\ Handlers' /\ worker' = h
         /\ \A q \in {"mark", "index", "reader"} : proc'[q] = proc[q]
<1>1. Hands /\ "apply" \in Proc /\ {"mark", "index", "reader"} \subseteq Proc
  BY DEF Steady, Proc
<1>2. /\ proc' \in [Proc -> Hand] /\ proc'["apply"] = h
      /\ \A q \in Proc : q # "apply" => proc'[q] = proc[q]
  BY <1>1, Moved
<1>3. proc'["mark"] = proc["mark"] /\ proc'["index"] = proc["index"] /\ proc'["reader"] = proc["reader"]
  BY <1>1, <1>2
<1>4. Hands'
  <2>1. \A p \in Proc : proc'[p].at <= Len(log')
    BY <1>2 DEF Hands, Steady
  <2>2. \A p \in {"apply", "mark", "index"} : proc'[p].pc # "idle" => proc'[p].ev \in Event
    BY <1>1, <1>2, <1>3 DEF Hands
  <2>. QED
    BY <1>1, <1>2, <1>3, <2>1, <2>2 DEF Hands, Hand
<1>5. Handlers'
  BY <1>3 DEF Steady, Handlers, CreatedBy
<1>. QED
  BY <1>2, <1>3, <1>4, <1>5 DEF worker

(* Another one moves. *)
LEMMA OtherMoves ==
  ASSUME Steady, NEW p \in {"mark", "index", "reader"}, NEW h \in Hand, proc' = [proc EXCEPT ![p] = h],
         UNCHANGED <<log, past, applied, bookAt>>,
         h.at <= Len(log), p # "reader" /\ h.pc # "idle" => h.ev \in Event,
         p = "mark" => h.pc \in {"idle", "lookup", "modify", "unlink", "drop"},
         p = "index" => h.pc \in {"idle", "book", "insert", "put"},
         p = "reader" => h.pc \in {"idle", "fetch", "install"}
  PROVE  /\ Hands' /\ Worker' /\ BookAt' /\ worker' = worker /\ proc'[p] = h
         /\ \A q \in {"mark", "index", "reader"} : q # p => proc'[q] = proc[q]
<1>1. Hands /\ p \in Proc /\ {"apply", "mark", "index", "reader"} \subseteq Proc /\ p # "apply"
  BY DEF Steady, Proc
<1>2. /\ proc' \in [Proc -> Hand] /\ proc'[p] = h
      /\ \A q \in Proc : q # p => proc'[q] = proc[q]
  BY <1>1, Moved
<1>3. proc'["apply"] = proc["apply"]
  BY <1>1, <1>2
<1>4. Hands'
  <2>1. \A q \in Proc : proc'[q].at <= Len(log')
    BY <1>2 DEF Hands, Steady
  <2>2. \A q \in {"apply", "mark", "index"} : proc'[q].pc # "idle" => proc'[q].ev \in Event
    BY <1>1, <1>2, <1>3 DEF Hands
  <2>3. /\ proc'["mark"].pc \in {"idle", "lookup", "modify", "unlink", "drop"}
        /\ proc'["index"].pc \in {"idle", "book", "insert", "put"}
        /\ proc'["reader"].pc \in {"idle", "fetch", "install"}
    BY <1>1, <1>2 DEF Hands
  <2>. QED
    BY <1>1, <1>2, <1>3, <2>1, <2>2, <2>3 DEF Hands, Hand
<1>5. Worker' /\ BookAt'
  BY <1>3 DEF Steady, Worker, BookAt, worker
<1>. QED
  BY <1>1, <1>2, <1>3, <1>4, <1>5 DEF worker

(* Rows and levels keep their types. *)
LEMMA UpdatedRow ==
  ASSUME NEW r \in Row, NEW e \in Event, e.kind \in {"cancelled", "filled", "updated"}
  PROVE  Updated(r, e) \in Row /\ Updated(r, e).status # "none" /\ Updated(r, e) # NoRow
<1>1. /\ r = [status |-> r.status, size |-> r.size, filled |-> r.filled]
      /\ r.size \in 0..MaxSize /\ r.filled \in Nat /\ e.size \in 0..MaxSize /\ e.amt \in Nat
  BY OrderBoundsAssumption DEF Row, Event
<1>2. Updated(r, e) \in Row /\ Updated(r, e).status # "none"
  <2>1. CASE e.kind = "cancelled"
    BY <1>1, <2>1 DEF Updated, Row, Status
  <2>2. CASE e.kind = "filled"
    <3>. DEFINE st == IF e.left = 0 THEN "filled" ELSE "partial_filled"
                n == r.filled + e.amt
    <3>1. Updated(r, e) = [status |-> st, size |-> r.size, filled |-> n]
      BY <1>1, <2>2 DEF Updated
    <3>2. st \in Status /\ st # "none" /\ n \in Nat
      BY <1>1 DEF Status
    <3>. HIDE DEF st, n
    <3>. QED
      BY <1>1, <3>1, <3>2 DEF Row
  <2>3. CASE e.kind = "updated"
    BY <1>1, <2>3 DEF Updated, Row, Status
  <2>. QED
    BY <2>1, <2>2, <2>3
<1>. QED
  BY <1>2, NoRowFacts

(* The book saturates at zero. *)
LEMMA LevelAfterNat ==
  ASSUME NEW l \in Nat, NEW e \in Event, e.kind # "executed"
  PROVE  LevelAfter(l, e) \in Nat
<1>1. e.amt \in Nat /\ e.size \in Nat /\ e.left \in Nat /\ e.kind \in {"created", "filled", "updated", "cancelled"}
  BY OrderBoundsAssumption DEF Event
<1>. QED
  BY <1>1 DEF LevelAfter, Minus

(* The rows that a created order and a filled one get. *)
LEMMA NewRowFacts ==
  ASSUME NEW z \in 0..MaxSize
  PROVE  NewRow(z, "open", 0) \in Row /\ Hot(NewRow(z, "open", 0)) /\ NewRow(z, "filled", NewSize) \in Row
         /\ ~ Hot(NewRow(z, "filled", NewSize))
BY OrderBoundsAssumption DEF NewRow, Row, Status, Hot

(* A market order is archived, never open. *)
LEMMA ExecutedFacts ==
  ASSUME NEW e \in Event
  PROVE  index_market_order_executed(e) \in Row /\ ~ Hot(index_market_order_executed(e))
BY OrderBoundsAssumption DEF index_market_order_executed, Row, Status, Hot, Event
-----------------------------------------------------------------------------
(* Steady is an invariant. *)

(* Steady holds initially. *)
LEMMA SteadyInit ==
  ASSUME Init
  PROVE  Steady
<1>0. NoRow \in Row /\ MaxEvents \in Nat /\ MaxPosts \in Nat /\ Idle \in Hand /\ Idle.pc = "idle" /\ Idle.at = 0
  BY NoRowFacts, OrderBoundsAssumption, IdleFacts
<1>1. log = <<>> /\ log \in Seq(Event) /\ Len(log) = 0 /\ applied = 0
  BY DEF Init
<1>2. past \in Seq([Order -> Row]) /\ Len(past) = 1 /\ past[1] = [o \in Order |-> NoRow]
  BY <1>0 DEF Init
<1>3. \A p \in Proc : proc[p] = Idle
  BY DEF Init
<1>4. proc["apply"] = Idle /\ proc["mark"] = Idle /\ proc["index"] = Idle /\ proc["reader"] = Idle
  BY <1>3 DEF Proc
<1>5. TypeOK
  <2>1. \A p \in Proc : proc[p].pc \in Step
    BY <1>0, <1>3 DEF Step
  <2>2. /\ orders \in [Order -> Row] /\ rows \in [Order -> Row] /\ history = {} /\ byId = {}
        /\ early = {} /\ marked = {} /\ indexed = {} /\ posts = 0 /\ bookAt = 0 /\ level = 0 /\ holding = 0
        /\ hydrated \in BOOLEAN /\ skew = FALSE
    BY <1>0 DEF Init
  <2>3. /\ Len(log) <= MaxEvents /\ Len(past) = Len(log) + 1 /\ applied \in 0..Len(log)
        /\ bookAt \in {applied, applied + 1} /\ level \in Nat /\ holding \in Nat /\ posts \in 0..MaxPosts
    BY <1>0, <1>1, <1>2, <2>2
  <2>4. skew \in BOOLEAN
    BY <2>2
  <2>5. /\ history \subseteq [order : Order, row : Row] /\ byId \subseteq Order
        /\ early \subseteq Order /\ marked \subseteq Order /\ indexed \subseteq Order
    BY <2>2
  <2>. QED
    BY <1>1, <1>2, <2>1, <2>2, <2>3, <2>4, <2>5, Zenon DEF TypeOK
<1>6. Hands
  BY <1>0, <1>1, <1>3, <1>4 DEF Init, Hands, Hand
<1>7. Handlers /\ Worker /\ BookAt /\ EarlyCreated
  BY <1>0, <1>4 DEF Init, Handlers, Worker, BookAt, EarlyCreated, worker
<1>8. ChainSteps /\ ChainRows /\ ChainGrows
  BY <1>1, <1>2 DEF ChainSteps, ChainRows, ChainGrows, RowSound
<1>. QED
  BY <1>5, <1>6, <1>7, <1>8 DEF Steady

(* Steady from its parts, after a step. *)
LEMMA Assembled ==
  ASSUME TypeOK', Hands', Handlers', Worker', BookAt', EarlyCreated', ChainSound'
  PROVE  Steady'
BY DEF Steady, ChainSound

(* The parts of Steady that most steps need. *)
LEMMA SteadyChain ==
  ASSUME Steady
  PROVE  ChainSound /\ TypeOK /\ Hands /\ Len(log) \in Nat
BY LogFacts DEF Steady, ChainSound

(* The node emits an event. *)
LEMMA SteadyNode ==
  ASSUME Steady, NEW o \in Order, NodeStep(o)
  PROVE  Steady'
<1>1. /\ UNCHANGED <<applied, proc, book, index, holding, requests>>
      /\ log' \in Seq(Event) /\ Len(log') = Len(log) + 1 /\ Len(log') <= MaxEvents
      /\ past' \in Seq([Order -> Row]) /\ Len(past') = Len(past) + 1
      /\ \A k \in 1..Len(log) : log'[k] = log[k]
      /\ ChainSound'
  BY NodeGoesOn
<1>2. /\ UNCHANGED <<applied, proc, level, hydrated, bookAt, early, skew>>
      /\ UNCHANGED <<orders, byId, rows, history, holding, marked, indexed, posts>>
  BY <1>1 DEF book, index, requests
<1>3. Len(log) \in Nat /\ Len(past) = Len(log) + 1 /\ applied \in 0..Len(log)
  BY LogFacts DEF Steady, TypeOK
<1>4. TypeOK'
  <2>1. applied' \in 0..Len(log') /\ bookAt' \in {applied', applied' + 1} /\ Len(past') = Len(log') + 1
    BY <1>1, <1>2, <1>3 DEF Steady, TypeOK
  <2>. QED
    BY <1>1, <1>2, <2>1 DEF Steady, TypeOK
<1>5. Hands'
  <2>1. \A p \in Proc : proc'[p].at <= Len(log')
    <3>1. \A p \in Proc : proc[p].at \in Nat /\ proc[p].at <= Len(log)
      BY DEF Steady, Hands
    <3>. QED
      BY <1>1, <1>2, <1>3, <3>1
  <2>. QED
    BY <1>2, <2>1 DEF Steady, Hands
<1>6. \A x : CreatedBy(x, Len(log)) => CreatedBy(x, Len(log))'
  BY <1>1, <1>3 DEF CreatedBy
<1>7. Handlers' /\ EarlyCreated'
  BY <1>2, <1>6 DEF Steady, Handlers, EarlyCreated
<1>8. Worker'
  <2>1. applied < Len(log) => applied' < Len(log') /\ log'[applied' + 1] = log[applied + 1]
    <3>1. applied < Len(log) => applied + 1 \in 1..Len(log)
      BY <1>3
    <3>2. applied < Len(log) => applied' < Len(log')
      BY <1>1, <1>2, <1>3
    <3>. QED
      BY <1>1, <1>2, <3>1, <3>2
  <2>. QED
    BY <1>2, <2>1 DEF Steady, Worker, worker
<1>9. BookAt'
  BY <1>2 DEF Steady, BookAt, worker
<1>. QED
  BY <1>1, <1>4, <1>5, <1>7, <1>8, <1>9, Assembled

(* The worker's own steps. *)
LEMMA SteadyTake ==
  ASSUME Steady, Skip \/ Take \/ TakeExecuted
  PROVE  Steady'
<1>. DEFINE e == log[applied + 1]
<1>0. ChainSound /\ TypeOK /\ Hands /\ Len(log) \in Nat /\ applied \in 0..Len(log) /\ MaxSize \in Nat
  BY SteadyChain, OrderBoundsAssumption DEF TypeOK
<1>1. worker.pc = "idle" /\ applied < Len(log) /\ UNCHANGED <<log, past, marked, indexed>> /\ bookAt = applied
  BY DEF Skip, Take, TakeExecuted, worker, requests, Steady, BookAt, Before
<1>2. e \in Event /\ e.size \in 0..MaxSize
  BY <1>0, <1>1, LogFacts DEF Event
<1>3. ChainSound'
  BY <1>0, <1>1, ChainStays
<1>. HIDE DEF e
<1>4. CASE Skip
  <2>1. /\ applied' = applied + 1 /\ bookAt' = bookAt + 1 /\ early' \subseteq early /\ skew' \in BOOLEAN
        /\ UNCHANGED <<log, past, proc, level, hydrated, orders, byId, rows, history, holding, marked, indexed, posts>>
    BY <1>4 DEF Skip, index, requests
  <2>2. TypeOK'
    <3>1. applied' \in 0..Len(log')
      BY <1>0, <1>1, <2>1
    <3>2. bookAt' \in {applied', applied' + 1}
      BY <1>1, <2>1
    <3>. QED
      BY <1>0, <2>1, <3>1, <3>2 DEF TypeOK
  <2>3. Hands' /\ Handlers' /\ EarlyCreated'
    BY <2>1 DEF Steady, Hands, Handlers, EarlyCreated, CreatedBy
  <2>4. Worker' /\ BookAt'
    BY <1>1, <2>1 DEF Worker, BookAt, worker
  <2>. QED
    BY <1>3, <2>2, <2>3, <2>4, Assembled
<1>5. CASE Take
  <2>. DEFINE h == [pc |-> IF e.kind = "cancelled" \/ hydrated THEN "book" ELSE "fetch",
                    ev |-> e, row |-> NewRow(e.size, "open", 0), at |-> 0]
  <2>1. /\ proc' = [proc EXCEPT !["apply"] = h] /\ e.kind # "executed"
        /\ UNCHANGED <<log, past, applied, level, hydrated, bookAt, early, skew>>
        /\ UNCHANGED <<orders, byId, rows, history, holding, marked, indexed, posts>>
    BY <1>5 DEF Take, book, index, requests, e
  <2>2. /\ h \in Hand /\ h.at = 0 /\ h.pc \in Before /\ h.pc # "idle" /\ h.ev = e
        /\ h.row = NewRow(e.size, "open", 0)
    BY <1>2, NewRowFacts DEF Hand, Step, Before
  <2>. HIDE DEF h
  <2>a. h.at <= Len(log) /\ (h.pc # "idle" => h.ev \in Event)
    BY <1>0, <1>2, <2>2
  <2>3. Hands' /\ Handlers' /\ worker' = h
    BY <1>1, <2>1, <2>2, <2>a, ApplyMoves
  <2>4. TypeOK'
    BY <1>0, <2>1, <2>3 DEF TypeOK, Hands
  <2>5. Worker' /\ BookAt' /\ EarlyCreated'
    BY <1>1, <2>1, <2>2, <2>3 DEF Steady, Worker, BookAt, Before, EarlyCreated, CreatedBy, e
  <2>. QED
    BY <1>3, <2>3, <2>4, <2>5, Assembled
<1>6. CASE TakeExecuted
  <2>. DEFINE h == [pc |-> "insert", ev |-> e, row |-> index_market_order_executed(e), at |-> 0]
  <2>1. /\ proc' = [proc EXCEPT !["apply"] = h] /\ e.kind = "executed" /\ bookAt' = bookAt + 1
        /\ UNCHANGED <<log, past, applied, level, hydrated, early, skew>>
        /\ UNCHANGED <<orders, byId, rows, history, holding, marked, indexed, posts>>
    BY <1>6 DEF TakeExecuted, index, requests, e
  <2>2. /\ h \in Hand /\ h.at = 0 /\ h.pc = "insert" /\ h.ev = e
        /\ h.row = index_market_order_executed(e)
    BY <1>2, ExecutedFacts DEF Hand, Step
  <2>. HIDE DEF h
  <2>a. h.at <= Len(log) /\ (h.pc # "idle" => h.ev \in Event)
    BY <1>0, <1>2, <2>2
  <2>3. Hands' /\ Handlers' /\ worker' = h
    BY <1>1, <2>1, <2>2, <2>a, ApplyMoves
  <2>4. TypeOK'
    BY <1>0, <1>1, <2>1, <2>3 DEF TypeOK, Hands
  <2>5. Worker' /\ BookAt' /\ EarlyCreated'
    BY <1>1, <2>1, <2>2, <2>3 DEF Steady, Worker, BookAt, Before, EarlyCreated, CreatedBy, e
  <2>. QED
    BY <1>3, <2>3, <2>4, <2>5, Assembled
<1>. QED
  BY <1>4, <1>5, <1>6
(* Fetching and installing the node's book. *)
LEMMA SteadyFetch ==
  ASSUME Steady, NEW p \in {"apply", "reader"}, Fetch(p) \/ Install(p)
  PROVE  Steady'
<1>. DEFINE next == IF p = "apply" THEN "book" ELSE "idle"
<1>0. ChainSound /\ TypeOK /\ Hands /\ Len(log) \in Nat /\ p \in Proc /\ proc[p] \in Hand
  BY SteadyChain DEF Hands, Hand, Proc
<1>1. proc[p].pc \in {"fetch", "install"} /\ UNCHANGED <<log, past, bookAt, early, index, holding, requests>>
  BY DEF Fetch, Install, book
<1>2. UNCHANGED <<log, past, bookAt, early, orders, byId, rows, history, holding, marked, indexed, posts>>
  BY <1>1 DEF index, requests
<1>3. next \in Step
  BY DEF Step
<1>4. \/ /\ proc' = [proc EXCEPT ![p] = [proc[p] EXCEPT !.pc = "install", !.at = Len(log)]]
         /\ applied' = applied
      \/ Goto(p, next)
  BY <1>0 DEF Fetch, Install, Hands
<1>5. [proc[p] EXCEPT !.pc = "install", !.at = Len(log)] \in Hand
  BY <1>0 DEF Hand, Step
<1>. HIDE DEF next
<1>6. \E k \in Hand : /\ proc' = [proc EXCEPT ![p] = k] /\ k.at <= Len(log)
                      /\ k.pc \in {"install", next}
                      /\ k.pc # "idle" => k.ev = proc[p].ev /\ k.row = proc[p].row
                      /\ applied' = applied
  <2>1. CASE /\ proc' = [proc EXCEPT ![p] = [proc[p] EXCEPT !.pc = "install", !.at = Len(log)]]
             /\ applied' = applied
    <3>. DEFINE k == [proc[p] EXCEPT !.pc = "install", !.at = Len(log)]
    <3>1. /\ k \in Hand /\ k.at = Len(log) /\ k.pc = "install"
          /\ k.ev = proc[p].ev /\ k.row = proc[p].row
      BY <1>0, <1>5 DEF Hand
    <3>2. proc' = [proc EXCEPT ![p] = k]
      BY <2>1
    <3>3. k.at <= Len(log) /\ k.pc \in {"install", next} /\ applied' = applied
      BY <1>0, <2>1, <3>1
    <3>. HIDE DEF k
    <3>. QED
      BY <3>1, <3>2, <3>3, Zenon
  <2>2. CASE Goto(p, next)
    <3>1. ~ (p = "apply" /\ next = "idle")
      BY DEF next
    <3>. QED
      BY <1>0, <1>3, <2>2, <3>1, TurnedFacts
  <2>. QED
    BY <1>4, <2>1, <2>2
<1>7. PICK k \in Hand : /\ proc' = [proc EXCEPT ![p] = k] /\ k.at <= Len(log)
                        /\ k.pc \in {"install", next}
                        /\ k.pc # "idle" => k.ev = proc[p].ev /\ k.row = proc[p].row
                        /\ applied' = applied
  BY <1>6
<1>8. ChainSound' /\ EarlyCreated'
  <2>1. EarlyCreated'
    BY <1>2 DEF Steady, EarlyCreated, CreatedBy
  <2>. QED
    BY <1>0, <1>2, <2>1, ChainStays
<1>9. level' \in Nat /\ hydrated' \in BOOLEAN /\ skew' \in BOOLEAN
  <2>1. CASE Fetch(p)
    BY <1>0, <2>1 DEF Fetch, book, TypeOK
  <2>2. CASE Install(p)
    <3>1. proc[p].at \in 0..Len(log)
      BY <1>0 DEF Hands, Hand
    <3>2. ChainLevel(proc[p].at) \in Nat
      BY <1>0, <3>1, ChainLevelNat
    <3>. QED
      BY <2>2, <3>2 DEF Install
  <2>. QED
    BY <2>1, <2>2
<1>10. CASE p = "apply"
  <2>1. worker.pc \in {"fetch", "install"} /\ next = "book" /\ worker.ev \in Event /\ proc[p] = worker
    BY <1>0, <1>1, <1>10 DEF Hands, worker, next
  <2>2. k.pc \in {"install", "book"} /\ k.ev = worker.ev /\ k.row = worker.row
    BY <1>7, <2>1
  <2>3. Hands' /\ Handlers' /\ worker' = k
    <3>1. k.pc # "idle" => k.ev \in Event
      BY <2>1, <2>2
    <3>2. UNCHANGED <<log, past, marked, indexed>>
      BY <1>2
    <3>. QED
      BY <1>7, <1>10, <3>1, <3>2, ApplyMoves
  <2>4. Worker' /\ BookAt'
    BY <1>2, <1>7, <2>1, <2>2, <2>3 DEF Steady, Worker, BookAt, Before
  <2>5. TypeOK'
    BY <1>0, <1>2, <1>7, <1>9, <2>3 DEF TypeOK, Hands
  <2>. QED
    BY <1>8, <2>3, <2>4, <2>5, Assembled
<1>11. CASE p = "reader"
  <2>1. k.pc \in {"install", "idle"}
    BY <1>7, <1>11 DEF next
  <2>2. UNCHANGED <<log, past, applied, bookAt>>
    BY <1>2, <1>7
  <2>3. /\ Hands' /\ Worker' /\ BookAt' /\ worker' = worker
        /\ \A q \in {"mark", "index", "reader"} : q # p => proc'[q] = proc[q]
    BY <1>7, <1>11, <2>1, <2>2, OtherMoves
  <2>4. Handlers'
    BY <1>2, <1>11, <2>3 DEF Steady, Handlers, CreatedBy
  <2>5. TypeOK'
    BY <1>0, <1>2, <1>7, <1>9, <2>3 DEF TypeOK, Hands
  <2>. QED
    BY <1>8, <2>3, <2>4, <2>5, Assembled
<1>. QED
  BY <1>10, <1>11

(* A reader starts to rehydrate. *)
LEMMA SteadyRead ==
  ASSUME Steady, Read
  PROVE  Steady'
<1>. DEFINE k == [proc["reader"] EXCEPT !.pc = "fetch"]
<1>0. ChainSound /\ TypeOK /\ Hands /\ Len(log) \in Nat /\ proc["reader"] \in Hand
  BY SteadyChain DEF Hands, Hand, Proc
<1>1. /\ posts < MaxPosts /\ posts' = posts + 1
      /\ proc' = [proc EXCEPT !["reader"].pc = "fetch"]
      /\ UNCHANGED <<log, past, applied, level, hydrated, bookAt, early, skew>>
      /\ UNCHANGED <<orders, byId, rows, history, holding, marked, indexed>>
  BY DEF Read, book, index
<1>2. proc' = [proc EXCEPT !["reader"] = k] /\ k \in Hand /\ k.pc = "fetch" /\ k.at = proc["reader"].at
  BY <1>0, <1>1 DEF Hand, Step
<1>. HIDE DEF k
<1>3. k.at <= Len(log) /\ UNCHANGED <<log, past, applied, bookAt>>
  BY <1>0, <1>1, <1>2 DEF Hands, Proc
<1>4. /\ Hands' /\ Worker' /\ BookAt' /\ worker' = worker
      /\ \A q \in {"mark", "index", "reader"} : q # "reader" => proc'[q] = proc[q]
  BY <1>2, <1>3, OtherMoves
<1>5. Handlers' /\ EarlyCreated'
  BY <1>1, <1>4 DEF Steady, Handlers, CreatedBy, EarlyCreated
<1>6. posts' \in 0..MaxPosts
  BY <1>0, <1>1, OrderBoundsAssumption DEF TypeOK
<1>7. TypeOK'
  BY <1>0, <1>1, <1>4, <1>6 DEF TypeOK, Hands
<1>8. ChainSound'
  BY <1>0, <1>1, ChainStays
<1>. QED
  BY <1>4, <1>5, <1>7, <1>8, Assembled

(* A request to a handler. *)
LEMMA SteadyRequest ==
  ASSUME Steady,
         \/ \E o \in Order : MarkRequest(o)
         \/ \E o \in Order, b \in BOOLEAN, st \in {"open", "filled"} :
              IndexRequest(o, b, st, IF st = "open" THEN 0 ELSE NewSize)
  PROVE  Steady'
<1>0. /\ ChainSound /\ TypeOK /\ Hands /\ Len(log) \in Nat /\ NewSize \in 0..MaxSize /\ MaxSize \in Nat
      /\ MaxPosts \in Nat
  BY SteadyChain, OrderBoundsAssumption DEF Hands
<1>1. ASSUME NEW p \in {"mark", "index"}, NEW k \in Hand, proc' = [proc EXCEPT ![p] = k], k.at = 0,
             k.ev \in Event,
             p = "mark" => k.pc = "lookup" /\ k.ev.kind = "cancelled" /\ k.ev.order \in marked',
             p = "index" => /\ k.pc \in {"book", "insert"} /\ k.ev.kind = "created" /\ k.ev.size = NewSize
                            /\ k.ev.order \in indexed' /\ CreatedBy(k.ev.order, Len(log)),
             posts < MaxPosts, posts' = posts + 1,
             UNCHANGED <<log, past, applied, level, hydrated, bookAt, early, skew>>,
             UNCHANGED <<orders, byId, rows, history, holding>>,
             marked \subseteq marked', marked' \subseteq Order,
             indexed \subseteq indexed', indexed' \subseteq Order
      PROVE  Steady'
  <2>1. k.at <= Len(log) /\ UNCHANGED <<log, past, applied, bookAt>>
    BY <1>0, <1>1
  <2>2. p \in {"mark", "index", "reader"}
    OBVIOUS
  <2>3. /\ Hands' /\ Worker' /\ BookAt' /\ worker' = worker /\ proc'[p] = k
        /\ \A q \in {"mark", "index", "reader"} : q # p => proc'[q] = proc[q]
    BY <1>1, <2>1, <2>2, OtherMoves
  <2>4. Handlers'
    <3>1. \A x : CreatedBy(x, Len(log))' <=> CreatedBy(x, Len(log))
      BY <1>1 DEF CreatedBy
    <3>2. CASE p = "mark"
      BY <1>1, <2>3, <3>1, <3>2 DEF Steady, Handlers
    <3>3. CASE p = "index"
      BY <1>1, <2>3, <3>1, <3>3 DEF Steady, Handlers
    <3>. QED
      BY <3>2, <3>3
  <2>5. EarlyCreated' /\ ChainSound'
    <3>1. EarlyCreated'
      BY <1>1 DEF Steady, EarlyCreated, CreatedBy
    <3>2. UNCHANGED <<log, past>>
      BY <1>1
    <3>. QED
      BY <1>0, <3>1, <3>2, ChainStays
  <2>6. posts' \in 0..MaxPosts
    BY <1>0, <1>1 DEF TypeOK
  <2>7. TypeOK'
    BY <1>0, <1>1, <2>3, <2>6 DEF TypeOK, Hands
  <2>. QED
    BY <2>3, <2>4, <2>5, <2>7, Assembled
<1>2. CASE \E o \in Order : MarkRequest(o)
  <2>1. PICK o \in Order : MarkRequest(o)
    BY <1>2
  <2>. DEFINE ev == [kind |-> "cancelled", order |-> o, amt |-> 0, size |-> 0, left |-> 0]
              k == [pc |-> "lookup", row |-> NoRow, at |-> 0, ev |-> ev]
  <2>2. /\ proc' = [proc EXCEPT !["mark"] = k] /\ posts < MaxPosts /\ posts' = posts + 1
        /\ marked' = marked \union {o}
        /\ UNCHANGED <<log, past, applied, level, hydrated, bookAt, early, skew>>
        /\ UNCHANGED <<orders, byId, rows, history, holding, indexed>>
    BY <2>1 DEF MarkRequest, book, index
  <2>3. ev \in Event
    BY <1>0 DEF Event
  <2>4. k \in Hand /\ k.at = 0 /\ k.ev = ev /\ k.pc = "lookup" /\ ev.kind = "cancelled" /\ ev.order = o
    BY <2>3, NoRowFacts DEF Hand, Step
  <2>. HIDE DEF k, ev
  <2>. QED
    BY <1>0, <1>1, <2>2, <2>3, <2>4 DEF TypeOK
<1>3. CASE \E o \in Order, b \in BOOLEAN, st \in {"open", "filled"} :
              IndexRequest(o, b, st, IF st = "open" THEN 0 ELSE NewSize)
  <2>1. PICK o \in Order, b \in BOOLEAN, st \in {"open", "filled"} :
              IndexRequest(o, b, st, IF st = "open" THEN 0 ELSE NewSize)
    BY <1>3
  <2>. DEFINE ev == [kind |-> "created", order |-> o, amt |-> 0, size |-> NewSize, left |-> NewSize]
              row == NewRow(NewSize, st, IF st = "open" THEN 0 ELSE NewSize)
              k == [pc |-> IF o \notin byId /\ ~ b THEN "book" ELSE "insert", ev |-> ev, row |-> row, at |-> 0]
  <2>2. /\ proc' = [proc EXCEPT !["index"] = k] /\ posts < MaxPosts /\ posts' = posts + 1
        /\ indexed' = indexed \union {o} /\ CreatedBy(o, Len(log))
        /\ UNCHANGED <<log, past, applied, level, hydrated, bookAt, early, skew>>
        /\ UNCHANGED <<orders, byId, rows, history, holding, marked>>
    BY <2>1 DEF IndexRequest, book, index
  <2>3. ev \in Event
    BY <1>0 DEF Event
  <2>4. row \in Row
    <3>1. CASE st = "open"
      BY <1>0, <3>1, NewRowFacts
    <3>2. CASE st = "filled"
      BY <1>0, <3>2, NewRowFacts
    <3>. QED
      BY <3>1, <3>2
  <2>. HIDE DEF row
  <2>5. k \in Hand /\ k.at = 0 /\ k.ev = ev /\ k.pc \in {"book", "insert"} /\ ev.kind = "created"
        /\ ev.order = o /\ ev.size = NewSize
    BY <2>3, <2>4 DEF Hand, Step
  <2>. HIDE DEF k, ev
  <2>. QED
    BY <1>0, <1>1, <2>2, <2>3, <2>5 DEF TypeOK
<1>. QED
  BY <1>2, <1>3
(* The level. *)
LEMMA SteadyBook ==
  ASSUME Steady, Book
  PROVE  Steady'
<1>. DEFINE pc == IF worker.ev.kind = "created" THEN "insert" ELSE "lookup"
            k == Turned("apply", pc)
<1>0. ChainSound /\ TypeOK /\ Hands /\ Len(log) \in Nat /\ "apply" \in Proc
  BY SteadyChain DEF Proc
<1>1. /\ worker.pc = "book" /\ level' = LevelAfter(level, worker.ev) /\ bookAt' = bookAt + 1
      /\ skew' = (skew \/ (worker.ev.kind = "created" /\ worker.ev.order \in early))
      /\ Goto("apply", pc)
      /\ UNCHANGED <<log, past, hydrated, early, orders, byId, rows, history, holding, marked, indexed, posts>>
  BY DEF Book, worker, index, requests
<1>2. /\ worker.ev \in Event /\ worker.ev.kind # "executed" /\ applied < Len(log) /\ worker.ev = log[applied + 1]
      /\ worker.row = NewRow(worker.ev.size, "open", 0) /\ bookAt = applied
  BY <1>1 DEF Steady, Hands, Worker, BookAt, Before, worker
<1>3. pc \in Step /\ pc # "idle" /\ pc \in {"insert", "lookup"} /\ (pc = "insert" <=> worker.ev.kind = "created")
  BY DEF Step
<1>. HIDE DEF pc
<1>4. /\ k \in Hand /\ k.pc = pc /\ k.at <= Len(log) /\ k.ev = worker.ev /\ k.row = worker.row
      /\ proc' = [proc EXCEPT !["apply"] = k] /\ applied' = applied
  BY <1>0, <1>1, <1>3, TurnedFacts DEF worker
<1>. HIDE DEF k
<1>5. Hands' /\ Handlers' /\ worker' = k
  <2>1. k.pc # "idle" => k.ev \in Event
    BY <1>2, <1>4
  <2>2. UNCHANGED <<log, past, marked, indexed>>
    BY <1>1
  <2>. QED
    BY <1>4, <2>1, <2>2, ApplyMoves
<1>6. Worker' /\ BookAt'
  BY <1>1, <1>2, <1>3, <1>4, <1>5 DEF Worker, BookAt, Before
<1>7. level' \in Nat /\ skew' \in BOOLEAN
  BY <1>0, <1>1, <1>2, LevelAfterNat DEF TypeOK
<1>8. TypeOK'
  <2>1. bookAt' \in {applied', applied' + 1}
    BY <1>0, <1>1, <1>2, <1>4 DEF TypeOK
  <2>. QED
    BY <1>0, <1>1, <1>4, <1>5, <1>7, <2>1 DEF TypeOK, Hands
<1>9. EarlyCreated' /\ ChainSound'
  <2>1. EarlyCreated'
    BY <1>1 DEF Steady, EarlyCreated, CreatedBy
  <2>. QED
    BY <1>0, <1>1, <2>1, ChainStays
<1>. QED
  BY <1>5, <1>6, <1>8, <1>9, Assembled

(* index_from_event changes the level. *)
LEMMA SteadyIndexBook ==
  ASSUME Steady, IndexBook
  PROVE  Steady'
<1>. DEFINE ix == proc["index"]
            k == Turned("index", "insert")
<1>0. ChainSound /\ TypeOK /\ Hands /\ Len(log) \in Nat /\ "index" \in Proc
  BY SteadyChain DEF Proc
<1>1. /\ ix.pc = "book" /\ level' = LevelAfter(level, ix.ev)
      /\ early' \in {early, early \union {ix.ev.order}} /\ skew' \in {skew, TRUE}
      /\ Goto("index", "insert")
      /\ UNCHANGED <<log, past, hydrated, bookAt, orders, byId, rows, history, holding, marked, indexed, posts>>
  BY DEF IndexBook, index, requests
<1>2. /\ ix.ev \in Event /\ ix.ev.kind = "created" /\ ix.ev.order \in Order
      /\ CreatedBy(ix.ev.order, Len(log))
  BY <1>1 DEF Steady, Hands, Handlers, Event
<1>4. /\ k \in Hand /\ k.pc = "insert" /\ k.at <= Len(log) /\ k.ev = ix.ev /\ k.row = ix.row
      /\ proc' = [proc EXCEPT !["index"] = k] /\ applied' = applied
  BY <1>0, <1>1, TurnedFacts DEF Step
<1>. HIDE DEF k
<1>5. /\ Hands' /\ Worker' /\ BookAt' /\ worker' = worker /\ proc'["index"] = k
      /\ \A q \in {"mark", "index", "reader"} : q # "index" => proc'[q] = proc[q]
  <2>1. "index" # "reader" /\ k.pc # "idle" => k.ev \in Event
    BY <1>2, <1>4
  <2>2. UNCHANGED <<log, past, applied, bookAt>>
    BY <1>1, <1>4
  <2>. QED
    BY <1>4, <2>1, <2>2, OtherMoves
<1>6. Handlers'
  BY <1>1, <1>4, <1>5 DEF Steady, Handlers, CreatedBy
<1>7. level' \in Nat /\ skew' \in BOOLEAN /\ early' \subseteq Order
  BY <1>0, <1>1, <1>2, LevelAfterNat DEF TypeOK
<1>8. TypeOK'
  BY <1>0, <1>1, <1>4, <1>5, <1>7 DEF TypeOK, Hands
<1>9. EarlyCreated' /\ ChainSound'
  <2>1. EarlyCreated'
    BY <1>1, <1>2 DEF Steady, EarlyCreated, CreatedBy
  <2>. QED
    BY <1>0, <1>1, <2>1, ChainStays
<1>. QED
  BY <1>5, <1>6, <1>8, <1>9, Assembled
(* The steps behind the book, of the worker and of the handlers. *)
Fits(h) ==
  /\ h.pc \notin Before
  /\ h.pc \in {"insert", "put"} => h.ev.kind \in {"created", "executed"}
  /\ h.pc = "put" => h.ev.kind = "created"
  /\ h.pc \in {"lookup", "modify", "unlink", "drop"} => h.ev.kind \notin {"created", "executed"}
  /\ h.pc = "holding" => h.ev.kind = "filled"
  /\ h.pc \in {"insert", "put"} /\ h.ev.kind = "created" => h.row = NewRow(h.ev.size, "open", 0)
  /\ h.pc \in {"insert", "tell"} /\ h.ev.kind = "executed" => h.row = index_market_order_executed(h.ev)

(* An actor past the book goes on to its next step; the maps keep their *)
(* types. The steps below are cases of this one.                        *)
LEMMA SteadyTurn ==
  ASSUME Steady, NEW p \in {"apply", "mark", "index"}, NEW k \in Hand, proc' = [proc EXCEPT ![p] = k],
         UNCHANGED <<log, past, book, requests>>,
         orders' \in [Order -> Row], rows' \in [Order -> Row], byId' \subseteq Order,
         history' \subseteq [order : Order, row : Row], holding' \in Nat,
         proc[p].pc \notin Before \union {"idle"}, k.at <= Len(log),
         k.pc # "idle" => k.ev = proc[p].ev,
         applied' = IF p = "apply" /\ k.pc = "idle" THEN applied + 1 ELSE applied,
         p = "apply" /\ k.pc # "idle" => Fits(k),
         p = "mark" => k.pc \in {"idle", "lookup", "modify", "unlink", "drop"},
         p = "index" => k.pc \in {"idle", "book", "insert", "put"}
  PROVE  Steady'
<1>0. ChainSound /\ TypeOK /\ Hands /\ Len(log) \in Nat
  BY SteadyChain
<1>1. /\ UNCHANGED <<log, past, level, hydrated, bookAt, early, skew, marked, indexed, posts>>
      /\ UNCHANGED <<log, past>> /\ UNCHANGED <<log, past, marked, indexed>>
  BY DEF book, requests
<1>2. EarlyCreated' /\ ChainSound'
  <2>1. EarlyCreated'
    BY <1>1 DEF Steady, EarlyCreated, CreatedBy
  <2>. QED
    BY <1>0, <1>1, <2>1, ChainStays
<1>3. k.pc # "idle" => k.ev \in Event
  BY <1>0 DEF Hands
<1>4. CASE p = "apply"
  <2>1. proc[p] = worker /\ worker.pc \notin Before \union {"idle"} /\ applied < Len(log) /\ bookAt = applied + 1
        /\ worker.ev = log[applied + 1]
    BY <1>4 DEF worker, Steady, Worker, BookAt
  <2>2. Hands' /\ Handlers' /\ worker' = k
    BY <1>1, <1>3, <1>4, ApplyMoves
  <2>3. Worker' /\ BookAt'
    <3>1. CASE k.pc = "idle"
      BY <1>1, <1>4, <2>1, <2>2, <3>1 DEF Worker, BookAt
    <3>2. CASE k.pc # "idle"
      <4>1. k.pc \notin Before /\ applied' = applied /\ k.ev = log[applied + 1] /\ Fits(k)
        BY <1>4, <2>1, <3>2 DEF Fits
      <4>. QED
        BY <1>1, <2>1, <2>2, <3>2, <4>1 DEF Worker, BookAt, Fits
    <3>. QED
      BY <3>1, <3>2
  <2>4. applied' \in 0..Len(log') /\ bookAt' \in {applied', applied' + 1}
    BY <1>0, <1>1, <1>4, <2>1 DEF TypeOK
  <2>5. TypeOK'
    BY <1>0, <1>1, <2>2, <2>4 DEF TypeOK, Hands
  <2>. QED
    BY <1>2, <2>2, <2>3, <2>5, Assembled
<1>5. CASE p # "apply"
  <2>1. p \in {"mark", "index", "reader"} /\ p # "reader" /\ UNCHANGED <<log, past, applied, bookAt>>
    BY <1>1, <1>5
  <2>2. /\ Hands' /\ Worker' /\ BookAt' /\ worker' = worker /\ proc'[p] = k
        /\ \A q \in {"mark", "index", "reader"} : q # p => proc'[q] = proc[q]
    BY <1>3, <2>1, OtherMoves
  <2>3. Handlers'
    <3>1. CASE p = "mark"
      BY <1>1, <2>2, <3>1 DEF Steady, Handlers, CreatedBy
    <3>2. CASE p = "index"
      BY <1>1, <2>2, <3>2 DEF Steady, Handlers, CreatedBy
    <3>. QED
      BY <1>5, <3>1, <3>2
  <2>4. TypeOK'
    BY <1>0, <1>1, <2>1, <2>2 DEF TypeOK, Hands
  <2>. QED
    BY <1>2, <2>2, <2>3, <2>4, Assembled
<1>. QED
  BY <1>4, <1>5

(* The same, for an actor that goes to pc with the rest of its hand as it was. *)
LEMMA SteadyGoto ==
  ASSUME Steady, NEW p \in {"apply", "mark", "index"}, NEW pc \in Step, Goto(p, pc),
         UNCHANGED <<log, past, book, requests>>,
         orders' \in [Order -> Row], rows' \in [Order -> Row], byId' \subseteq Order,
         history' \subseteq [order : Order, row : Row], holding' \in Nat,
         proc[p].pc \notin Before \union {"idle"},
         p = "apply" /\ pc # "idle" => Fits([worker EXCEPT !.pc = pc]),
         p = "mark" => pc \in {"idle", "lookup", "modify", "unlink", "drop"},
         p = "index" => pc \in {"idle", "book", "insert", "put"}
  PROVE  Steady'
<1>. DEFINE k == Turned(p, pc)
<1>1. Hands /\ p \in Proc
  BY DEF Steady, Proc
<1>2. /\ k \in Hand /\ k.pc = pc /\ k.at <= Len(log) /\ (pc # "idle" => k.ev = proc[p].ev)
      /\ proc' = [proc EXCEPT ![p] = k]
      /\ applied' = IF p = "apply" /\ pc = "idle" THEN applied + 1 ELSE applied
  BY <1>1, TurnedFacts
<1>3. p = "apply" /\ pc # "idle" => Fits(k)
  BY DEF Turned, worker
<1>. HIDE DEF k
<1>. QED
  BY <1>2, <1>3, SteadyTurn
(* The event and the row in the hand of an actor that is at work. *)
LEMMA HandFacts ==
  ASSUME Steady, NEW p \in {"apply", "mark", "index"}, proc[p].pc # "idle"
  PROVE  /\ proc[p] \in Hand /\ proc[p].ev \in Event /\ proc[p].ev.order \in Order /\ proc[p].row \in Row
         /\ proc[p].ev.amt \in Nat /\ proc[p].ev.size \in 0..MaxSize
BY OrderBoundsAssumption DEF Steady, Hands, Hand, Proc, Event

(* The worker's hand with another step is a hand of the same event. *)
LEMMA WorkerTurned ==
  ASSUME Steady, worker.pc # "idle", NEW pc
  PROVE  /\ [worker EXCEPT !.pc = pc].pc = pc /\ [worker EXCEPT !.pc = pc].ev = worker.ev
         /\ [worker EXCEPT !.pc = pc].row = worker.row /\ worker = proc["apply"]
BY HandFacts DEF worker, Hand

(* The types of the maps. *)
LEMMA TypeFacts ==
  ASSUME Steady
  PROVE  /\ orders \in [Order -> Row] /\ rows \in [Order -> Row] /\ byId \subseteq Order
         /\ history \subseteq [order : Order, row : Row] /\ holding \in Nat
BY DEF Steady, TypeOK

(* The id of a new order is inserted. *)
LEMMA SteadyInsert ==
  ASSUME Steady, NEW p \in {"apply", "index"}, Insert(p)
  PROVE  Steady'
<1>. DEFINE o == proc[p].ev.order
            r == proc[p].row
            pc == IF Hot(r) THEN "put" ELSE Done(p)
<1>1. /\ proc[p].pc = "insert" /\ Goto(p, pc) /\ UNCHANGED <<log, past, book, requests>>
      /\ UNCHANGED <<orders, holding>>
  BY DEF Insert
<1>2. o \in Order /\ r \in Row
  BY <1>1, HandFacts
<1>3. /\ orders' \in [Order -> Row] /\ rows' \in [Order -> Row] /\ byId' \subseteq Order
      /\ history' \subseteq [order : Order, row : Row] /\ holding' \in Nat
  <2>1. CASE Hot(r)
    BY <1>1, <1>2, <2>1, TypeFacts DEF Insert
  <2>2. CASE ~ Hot(r)
    <3>1. [order |-> o, row |-> r] \in [order : Order, row : Row]
      BY <1>2
    <3>2. history' = history \union {[order |-> o, row |-> r]} /\ UNCHANGED <<byId, rows>>
      BY <2>2 DEF Insert
    <3>. QED
      BY <1>1, <3>1, <3>2, TypeFacts
  <2>. QED
    BY <2>1, <2>2
<1>4. pc \in Step /\ (p = "apply" => pc \in {"put", "tell"}) /\ (p = "index" => pc \in {"put", "idle"})
  BY DEF Done, Step
<1>5. p = "apply" /\ pc # "idle" => Fits([worker EXCEPT !.pc = pc])
  <2>. SUFFICES ASSUME p = "apply" PROVE Fits([worker EXCEPT !.pc = pc])
    OBVIOUS
  <2>1. /\ worker.pc = "insert" /\ worker.ev.kind \in {"created", "executed"} /\ worker.ev \in Event
        /\ worker.ev.kind = "created" => worker.row = NewRow(worker.ev.size, "open", 0)
        /\ worker.ev.kind = "executed" => worker.row = index_market_order_executed(worker.ev)
        /\ r = worker.row
    BY <1>1 DEF Steady, Worker, Hands, worker
  <2>2. pc = "put" => worker.ev.kind = "created"
    BY <2>1, ExecutedFacts DEF Done
  <2>. HIDE DEF pc
  <2>3. /\ [worker EXCEPT !.pc = pc].pc = pc /\ [worker EXCEPT !.pc = pc].ev = worker.ev
        /\ [worker EXCEPT !.pc = pc].row = worker.row
    BY <2>1, WorkerTurned
  <2>. QED
    BY <1>4, <2>1, <2>2, <2>3 DEF Fits, Before
<1>6. proc[p].pc \notin Before \union {"idle"}
  BY <1>1 DEF Before
<1>. HIDE DEF pc
<1>. QED
  BY <1>1, <1>3, <1>4, <1>5, <1>6, SteadyGoto

(* The order itself is inserted. *)
LEMMA SteadyPut ==
  ASSUME Steady, NEW p \in {"apply", "index"}, Put(p)
  PROVE  Steady'
<1>1. /\ proc[p].pc = "put" /\ Goto(p, Done(p)) /\ UNCHANGED <<log, past, book, requests>>
      /\ UNCHANGED <<byId, rows, history, holding>>
      /\ orders' = [orders EXCEPT ![proc[p].ev.order] = proc[p].row]
  BY DEF Put
<1>2. proc[p].ev.order \in Order /\ proc[p].row \in Row
  BY <1>1, HandFacts
<1>3. /\ orders' \in [Order -> Row] /\ rows' \in [Order -> Row] /\ byId' \subseteq Order
      /\ history' \subseteq [order : Order, row : Row] /\ holding' \in Nat
  BY <1>1, <1>2, TypeFacts
<1>4. Done(p) \in Step /\ (p = "apply" => Done(p) = "tell") /\ (p = "index" => Done(p) = "idle")
  BY DEF Done, Step
<1>5. p = "apply" /\ Done(p) # "idle" => Fits([worker EXCEPT !.pc = Done(p)])
  <2>. SUFFICES ASSUME p = "apply" PROVE Fits([worker EXCEPT !.pc = Done(p)])
    OBVIOUS
  <2>1. worker.pc = "put" /\ worker.ev.kind = "created"
    BY <1>1 DEF Steady, Worker, worker
  <2>3. /\ [worker EXCEPT !.pc = Done(p)].pc = Done(p) /\ [worker EXCEPT !.pc = Done(p)].ev = worker.ev
    BY <2>1, WorkerTurned
  <2>. QED
    BY <1>4, <2>1, <2>3 DEF Fits, Before
<1>6. proc[p].pc \notin Before \union {"idle"}
  BY <1>1 DEF Before
<1>. QED
  BY <1>1, <1>3, <1>4, <1>5, <1>6, SteadyGoto

(* Where an update of an order may go on. *)
LEMMA RestFacts ==
  ASSUME Steady, NEW p \in {"apply", "mark"}, proc[p].pc \in {"lookup", "modify", "unlink", "drop"}
  PROVE  /\ proc[p].ev.kind \in {"filled", "updated", "cancelled"}
         /\ Rest(p) \in Step /\ (p = "mark" => Rest(p) = "idle")
         /\ p = "apply" => /\ Rest(p) = IF worker.ev.kind = "filled" THEN "holding" ELSE "tell"
                           /\ proc[p] = worker
<1>1. proc[p].ev \in Event /\ proc[p].ev.kind \notin {"created", "executed"}
  <2>1. CASE p = "apply"
    BY <2>1 DEF Steady, Hands, Worker, worker
  <2>2. CASE p = "mark"
    BY <2>2 DEF Steady, Hands, Handlers
  <2>. QED
    BY <2>1, <2>2
<1>2. proc[p].ev.kind \in {"filled", "updated", "cancelled"}
  BY <1>1 DEF Event
<1>3. p = "mark" => proc[p].ev.kind = "cancelled"
  BY DEF Steady, Handlers
<1>. QED
  BY <1>2, <1>3 DEF Rest, Done, Step, worker

(* The four steps that find, change and remove an order. *)
LEMMA SteadyUpdate ==
  ASSUME Steady, NEW p \in {"apply", "mark"}, Lookup(p) \/ Modify(p) \/ Unlink(p) \/ Drop(p)
  PROVE  Steady'
<1>. DEFINE e == proc[p].ev
            o == e.order
<1>1. proc[p].pc \in {"lookup", "modify", "unlink", "drop"} /\ UNCHANGED <<log, past, book, requests>> /\ UNCHANGED holding
  BY DEF Lookup, Modify, Unlink, Drop
<1>2. o \in Order /\ proc[p].row \in Row /\ e \in Event /\ proc[p] \in Hand
  BY <1>1, HandFacts
<1>3. /\ e.kind \in {"filled", "updated", "cancelled"}
      /\ Rest(p) \in Step /\ (p = "mark" => Rest(p) = "idle")
      /\ p = "apply" => /\ Rest(p) = IF worker.ev.kind = "filled" THEN "holding" ELSE "tell"
                        /\ proc[p] = worker
  BY <1>1, RestFacts
<1>4. proc[p].pc \notin Before \union {"idle"} /\ p \in {"apply", "mark", "index"} /\ p \in Proc
  BY <1>1 DEF Before, Proc
<1>5. ASSUME NEW pc \in {Rest(p), "modify", "unlink", "drop"}
      PROVE  /\ pc \in Step /\ (p = "apply" /\ pc # "idle" => Fits([worker EXCEPT !.pc = pc]))
             /\ p = "mark" => pc \in {"idle", "lookup", "modify", "unlink", "drop"}
  <2>1. pc \in Step
    BY <1>3 DEF Step
  <2>2. p = "mark" => pc \in {"idle", "lookup", "modify", "unlink", "drop"}
    BY <1>3
  <2>3. ASSUME p = "apply" PROVE Fits([worker EXCEPT !.pc = pc])
    <3>1. /\ [worker EXCEPT !.pc = pc].pc = pc /\ [worker EXCEPT !.pc = pc].ev = worker.ev
      BY <1>3, <1>4, <2>3, WorkerTurned
    <3>2. pc \in {"holding", "tell", "modify", "unlink", "drop"} /\ (pc = "holding" => worker.ev.kind = "filled")
          /\ worker.ev.kind \notin {"created", "executed"}
      BY <1>3, <2>3
    <3>. QED
      BY <3>1, <3>2 DEF Fits, Before
  <2>. QED
    BY <2>1, <2>2, <2>3
<1>6. Updated(orders[o], e) \in Row
  BY <1>2, <1>3, TypeFacts, UpdatedRow
<1>7. /\ orders' \in [Order -> Row] /\ rows' \in [Order -> Row] /\ byId' \subseteq Order
      /\ history' \subseteq [order : Order, row : Row] /\ holding' \in Nat
  <2>1. CASE Lookup(p)
    BY <2>1, TypeFacts DEF Lookup, index
  <2>2. CASE Modify(p)
    BY <1>1, <1>2, <1>6, <2>2, TypeFacts DEF Modify
  <2>3. CASE Unlink(p)
    BY <2>3, TypeFacts DEF Unlink
  <2>4. CASE Drop(p)
    <3>1. [order |-> o, row |-> proc[p].row] \in [order : Order, row : Row]
      BY <1>2
    <3>. QED
      BY <1>2, <2>4, <3>1, TypeFacts, NoRowFacts DEF Drop
  <2>. QED
    BY <2>1, <2>2, <2>3, <2>4
<1>8. ASSUME NEW pc \in {Rest(p), "modify", "unlink", "drop"}, Goto(p, pc) PROVE Steady'
  <2>1. p = "index" => pc \in {"idle", "book", "insert", "put"}
    OBVIOUS
  <2>. QED
    BY <1>1, <1>4, <1>5, <1>7, <1>8, <2>1, SteadyGoto
<1>9. CASE Lookup(p)
  BY <1>8, <1>9 DEF Lookup
<1>10. CASE Modify(p)
  <2>. DEFINE r == Updated(orders[o], e)
              k == [proc[p] EXCEPT !.pc = "unlink", !.row = r]
  <2>1. Goto(p, Rest(p)) \/ (proc' = [proc EXCEPT ![p] = k] /\ applied' = applied)
    BY <1>4, <1>10 DEF Modify, Steady, Hands
  <2>2. CASE Goto(p, Rest(p))
    BY <1>8, <2>2
  <2>3. CASE proc' = [proc EXCEPT ![p] = k] /\ applied' = applied
    <3>1. k \in Hand /\ k.pc = "unlink" /\ k.ev = e /\ k.at = proc[p].at
      BY <1>2, <1>6 DEF Hand, Step
    <3>2. k.at <= Len(log)
      BY <1>4, <3>1 DEF Steady, Hands
    <3>3. p = "apply" => Fits(k)
      BY <1>3, <3>1 DEF Fits, Before
    <3>. HIDE DEF k
    <3>4. k.pc # "idle" /\ k.pc \in {"idle", "lookup", "modify", "unlink", "drop"}
      BY <3>1
    <3>. QED
      BY <1>1, <1>4, <1>7, <2>3, <3>1, <3>2, <3>3, <3>4, SteadyTurn
  <2>. QED
    BY <2>1, <2>2, <2>3
<1>11. CASE Unlink(p)
  BY <1>8, <1>11 DEF Unlink
<1>12. CASE Drop(p)
  BY <1>8, <1>12 DEF Drop
<1>. QED
  BY <1>9, <1>10, <1>11, <1>12

(* The portfolio is credited, or the owner told. *)
LEMMA SteadyTell ==
  ASSUME Steady, Holding \/ Tell
  PROVE  Steady'
<1>. DEFINE pc == IF worker.pc = "holding" THEN "tell" ELSE "idle"
<1>1. /\ worker.pc \in {"holding", "tell"} /\ Goto("apply", pc) /\ UNCHANGED <<log, past, book, requests>>
      /\ UNCHANGED <<orders, byId, rows, history>>
      /\ proc["apply"].pc = worker.pc
  BY DEF Holding, Tell, worker, index
<1>2. proc["apply"].ev.amt \in Nat
  BY <1>1, HandFacts
<1>3. /\ orders' \in [Order -> Row] /\ rows' \in [Order -> Row] /\ byId' \subseteq Order
      /\ history' \subseteq [order : Order, row : Row] /\ holding' \in Nat
  BY <1>1, <1>2, TypeFacts DEF Holding, Tell, Credit
<1>4. pc \in Step
  BY DEF Step
<1>5. pc # "idle" => Fits([worker EXCEPT !.pc = pc])
  <2>. SUFFICES ASSUME worker.pc = "holding" PROVE Fits([worker EXCEPT !.pc = pc])
    OBVIOUS
  <2>1. worker.ev.kind = "filled"
    BY DEF Steady, Worker
  <2>2. /\ [worker EXCEPT !.pc = pc].pc = pc /\ [worker EXCEPT !.pc = pc].ev = worker.ev
    BY WorkerTurned
  <2>. QED
    BY <2>1, <2>2 DEF Fits, Before
<1>6. proc["apply"].pc \notin Before \union {"idle"}
  BY <1>1 DEF Before
<1>. HIDE DEF pc
<1>. QED
  BY <1>1, <1>3, <1>4, <1>5, <1>6, SteadyGoto

(* Steady is inductive. *)
LEMMA SteadyStep ==
  ASSUME Steady, [Next]_vars
  PROVE  Steady'
<1>1. CASE UNCHANGED vars
  <2>1. UNCHANGED <<log, past, applied, proc, level, hydrated, bookAt, early, skew, orders, byId, rows, history,
                    holding, marked, indexed, posts>>
    BY <1>1 DEF vars, book, index, requests
  <2>2. TypeOK' /\ Hands' /\ Handlers' /\ Worker' /\ BookAt' /\ EarlyCreated'
    BY <2>1 DEF Steady, TypeOK, Hands, Handlers, Worker, BookAt, EarlyCreated, CreatedBy, worker
  <2>3. ChainSound'
    BY <2>1, SteadyChain, ChainStays
  <2>. QED
    BY <2>2, <2>3, Assembled
<1>2. CASE Next
  BY <1>2, SteadyNode, SteadyTake, SteadyFetch, SteadyRead, SteadyBook, SteadyRequest, SteadyIndexBook,
     SteadyInsert, SteadyPut, SteadyUpdate, SteadyTell, Zenon DEF Next
<1>. QED
  BY <1>1, <1>2
-----------------------------------------------------------------------------
(* Who moves where, and which order its step touches. *)

(* The apply worker turns to its next step. *)
LEMMA WorkerGoes ==
  ASSUME Steady, worker.pc # "idle", NEW pc \in Step, Goto("apply", pc), UNCHANGED <<log, past, marked, indexed>>
  PROVE  /\ worker'.pc = pc /\ applied' = IF pc = "idle" THEN applied + 1 ELSE applied
         /\ pc # "idle" => worker'.ev = worker.ev /\ worker'.row = worker.row
         /\ \A q \in {"mark", "index", "reader"} : proc'[q] = proc[q]
<1>. DEFINE k == Turned("apply", pc)
<1>0. Hands /\ "apply" \in Proc
  BY DEF Steady, Proc
<1>1. /\ k \in Hand /\ k.pc = pc /\ k.at <= Len(log)
      /\ pc # "idle" => k.ev = worker.ev /\ k.row = worker.row
      /\ proc' = [proc EXCEPT !["apply"] = k]
      /\ applied' = IF pc = "idle" THEN applied + 1 ELSE applied
  BY <1>0, TurnedFacts DEF worker
<1>2. k.pc # "idle" => k.ev \in Event
  BY <1>0, <1>1 DEF Hands, worker
<1>. HIDE DEF k
<1>3. worker' = k /\ \A q \in {"mark", "index", "reader"} : proc'[q] = proc[q]
  BY <1>1, <1>2, ApplyMoves
<1>. QED
  BY <1>1, <1>3

(* A handler or the reader moves: the worker does not. *)
LEMMA OtherGoes ==
  ASSUME Steady, NEW p \in {"mark", "index", "reader"}, NEW k, proc' = [proc EXCEPT ![p] = k]
  PROVE  /\ worker' = worker /\ proc'[p] = k
         /\ \A q \in {"mark", "index", "reader"} : q # p => proc'[q] = proc[q]
<1>1. Hands /\ p \in Proc /\ {"apply", "mark", "index", "reader"} \subseteq Proc /\ p # "apply"
  BY DEF Steady, Proc
<1>2. DOMAIN proc = Proc
  BY <1>1 DEF Hands
<1>. QED
  BY <1>1, <1>2 DEF worker

(* So does another actor, and the apply worker stays where it is. *)
LEMMA HandlerGoes ==
  ASSUME Steady, NEW p \in {"mark", "index", "reader"}, NEW pc, Goto(p, pc)
  PROVE  /\ worker' = worker /\ applied' = applied
         /\ proc'[p] = Turned(p, pc)
         /\ \A q \in {"mark", "index", "reader"} : q # p => proc'[q] = proc[q]
<1>0. Hands /\ p \in Proc
  BY DEF Steady, Proc
<1>1. proc' = [proc EXCEPT ![p] = Turned(p, pc)] /\ applied' = applied
  BY <1>0 DEF Goto, Turned, Hands
<1>. QED
  BY <1>1, OtherGoes

(* The history of one order grows by the rows added for it. *)
LEMMA ArchivedMore ==
  ASSUME NEW o, NEW r, history' = history \union {[order |-> o, row |-> r]}
  PROVE  /\ Archived(o)' = Archived(o) \union {r}
         /\ \A x : x # o => Archived(x)' = Archived(x)
<1>. DEFINE n == [order |-> o, row |-> r]
<1>1. n.order = o /\ n.row = r
  OBVIOUS
<1>2. history' = history \union {n}
  OBVIOUS
<1>. HIDE DEF n
<1>3. {g \in history' : g.order = o} = {g \in history : g.order = o} \union {n}
  BY <1>1, <1>2
<1>4. ASSUME NEW x, x # o PROVE {g \in history' : g.order = x} = {g \in history : g.order = x}
  BY <1>1, <1>2, <1>4
<1>5. {h.row : h \in {g \in history : g.order = o} \union {n}} = {h.row : h \in {g \in history : g.order = o}} \union {r}
  BY <1>1
<1>6. Archived(o)' = Archived(o) \union {r}
  BY <1>3, <1>5 DEF Archived
<1>7. ASSUME NEW x, x # o PROVE Archived(x)' = Archived(x)
  BY <1>4, <1>7 DEF Archived
<1>. QED
  BY <1>6, <1>7

(* An order is where it was if no map changes for it. *)
LEMMA PlaceStays ==
  ASSUME NEW o, orders'[o] = orders[o], rows'[o] = rows[o], byId' \intersect {o} = byId \intersect {o},
         Archived(o)' = Archived(o)
  PROVE  Place(o)' = Place(o)
BY DEF Place

(* Every order is, if no map changes. *)
LEMMA PlaceUnchanged ==
  ASSUME UNCHANGED index
  PROVE  \A o : Place(o)' = Place(o)
BY DEF Place, Archived, index

(* A step of one actor on the tables touches the order it is about and no other. *)
Touching(p) == Insert(p) \/ Put(p) \/ Lookup(p) \/ Modify(p) \/ Unlink(p) \/ Drop(p)

(* An actor changes the maps for the order of its event only. *)
LEMMA Elsewhere ==
  ASSUME Steady, NEW p \in {"apply", "mark", "index"}, Touching(p)
  PROVE  \A x \in Order : x # proc[p].ev.order => Place(x)' = Place(x)
<1>. DEFINE o == proc[p].ev.order
<1>. SUFFICES ASSUME NEW x \in Order, x # o PROVE Place(x)' = Place(x)
  OBVIOUS
<1>0. orders \in [Order -> Row] /\ rows \in [Order -> Row]
  BY TypeFacts
<1>1. orders'[x] = orders[x] /\ rows'[x] = rows[x]
  BY <1>0 DEF Touching, Insert, Put, Lookup, Modify, Unlink, Drop, index
<1>2. byId' \intersect {x} = byId \intersect {x}
  BY DEF Touching, Insert, Put, Lookup, Modify, Unlink, Drop, index
<1>3. Archived(x)' = Archived(x)
  <2>1. history' = history \/ \E r : history' = history \union {[order |-> o, row |-> r]}
    BY DEF Touching, Insert, Put, Lookup, Modify, Unlink, Drop, index
  <2>2. CASE history' = history
    BY <2>2 DEF Archived
  <2>3. CASE \E r : history' = history \union {[order |-> o, row |-> r]}
    <3>1. PICK r : history' = history \union {[order |-> o, row |-> r]}
      BY <2>3
    <3>. HIDE DEF o
    <3>. QED
      BY <3>1, ArchivedMore
  <2>. QED
    BY <2>1, <2>2, <2>3
<1>. QED
  BY <1>1, <1>2, <1>3, PlaceStays
-----------------------------------------------------------------------------
(* Indexed is an invariant. *)

(* The event in the worker's hand, and the one it takes next. *)
LEMMA EventFacts ==
  ASSUME Steady, applied < Len(log), NEW o, o = log[applied + 1].order
  PROVE  /\ o \in Order /\ log[applied + 1] \in Event
         /\ RowSound(past[applied + 1][o]) /\ RowSound(past[applied + 2][o])
         /\ Emits(past[applied + 1][o], log[applied + 1], past[applied + 2][o])
         /\ \A x \in Order : x # o => past[applied + 2][x] = past[applied + 1][x]
<1>1. ChainSound /\ TypeOK /\ applied \in 0..Len(log) - 1
  BY SteadyChain, LogFacts
<1>. QED
  BY <1>1, StepFacts

(* The event of a busy apply worker is the next one of the log. *)
LEMMA WorkerFacts ==
  ASSUME Steady, worker.pc # "idle"
  PROVE  applied < Len(log) /\ worker.ev = log[applied + 1] /\ worker.ev \in Event
BY DEF Steady, Worker, Hands, worker

(* Indexed stays when the apply worker does, if only orders that a handler *)
(* was called for move.                                                    *)
LEMMA IndexedAside ==
  ASSUME Steady, Indexed, worker' = worker, applied' = applied,
         marked \subseteq marked', indexed \subseteq indexed',
         past'[applied + 1] = past[applied + 1], worker.pc # "idle" => past'[applied + 2] = past[applied + 2],
         \A o \in Order : o \notin marked' \union indexed' => Place(o)' = Place(o)
  PROVE  Indexed'
<1>1. ASSUME NEW o \in Order, o \notin marked' \union indexed'
      PROVE  IF worker'.pc = "idle" \/ worker'.ev.order # o THEN Place(o)' = Wanted(o, past'[applied' + 1][o])
             ELSE InHand(Place(o)', worker', o, past'[applied' + 1][o], past'[applied' + 2][o])
  <2>1. IF worker.pc = "idle" \/ worker.ev.order # o THEN Place(o) = Wanted(o, past[applied + 1][o])
        ELSE InHand(Place(o), worker, o, past[applied + 1][o], past[applied + 2][o])
    BY <1>1 DEF Indexed
  <2>. QED
    BY <1>1, <2>1
<1>. QED
  BY <1>1 DEF Indexed

(* Indexed stays when the apply worker moves the order of its event as it *)
(* should.                                                                *)
LEMMA IndexedWork ==
  ASSUME Steady, Indexed, worker.pc # "idle", worker'.pc # "idle", worker'.ev = worker.ev, applied' = applied,
         UNCHANGED <<log, past, marked, indexed>>, NEW o, o = worker.ev.order,
         \A x \in Order : x # o => Place(x)' = Place(x),
         o \notin marked \union indexed =>
           InHand(Place(o)', worker', o, past[applied + 1][o], past[applied + 2][o])
  PROVE  Indexed'
<1>1. ASSUME NEW x \in Order, x \notin marked' \union indexed'
      PROVE  IF worker'.pc = "idle" \/ worker'.ev.order # x THEN Place(x)' = Wanted(x, past'[applied' + 1][x])
             ELSE InHand(Place(x)', worker', x, past'[applied' + 1][x], past'[applied' + 2][x])
  <2>1. CASE x = o
    BY <1>1, <2>1
  <2>2. CASE x # o
    <3>1. Place(x) = Wanted(x, past[applied + 1][x])
      BY <1>1, <2>2 DEF Indexed
    <3>. QED
      BY <1>1, <2>2, <3>1
  <2>. QED
    BY <2>1, <2>2
<1>. QED
  BY <1>1 DEF Indexed

(* Where the order of the event is while the apply worker is at it. *)
LEMMA InHandNow ==
  ASSUME Steady, Indexed, worker.pc # "idle", NEW o, o = worker.ev.order, o \notin marked \union indexed
  PROVE  InHand(Place(o), worker, o, past[applied + 1][o], past[applied + 2][o])
BY WorkerFacts, EventFacts DEF Indexed

(* Indexed holds initially. *)
LEMMA IndexedInit ==
  ASSUME Init
  PROVE  Indexed
<1>1. worker.pc = "idle" /\ past[applied + 1] = [o \in Order |-> NoRow]
  BY IdleFacts DEF Init, worker, Proc
<1>2. ASSUME NEW o \in Order PROVE Place(o) = Wanted(o, NoRow)
  <2>1. Archived(o) = {} /\ orders[o] = NoRow /\ rows[o] = NoRow /\ byId \intersect {o} = {}
    BY DEF Init, Archived
  <2>. QED
    BY <2>1, NoRowFacts DEF Place, Wanted
<1>. QED
  BY <1>1, <1>2 DEF Indexed

(* The node, the readers and the requests. *)
LEMMA IndexedNode ==
  ASSUME Steady, Indexed, NEW o \in Order, NodeStep(o)
  PROVE  Indexed'
<1>1. UNCHANGED <<applied, proc, book, index, holding, requests>> /\ \A k \in 1..Len(past) : past'[k] = past[k]
  BY NodeGoesOn
<1>2. worker' = worker /\ marked' = marked /\ indexed' = indexed /\ applied' = applied /\ UNCHANGED index
  BY <1>1 DEF worker, requests
<1>3. applied + 1 \in 1..Len(past) /\ (worker.pc # "idle" => applied + 2 \in 1..Len(past))
  <2>1. TypeOK /\ Len(log) \in Nat
    BY SteadyChain
  <2>. QED
    BY <2>1, LogFacts, WorkerFacts
<1>. QED
  BY <1>1, <1>2, <1>3, PlaceUnchanged, IndexedAside

(* Steps that change no map keep it. *)
LEMMA IndexedQuiet ==
  ASSUME Steady, Indexed, worker' = worker, applied' = applied, UNCHANGED <<log, past>>,
         marked \subseteq marked', indexed \subseteq indexed', UNCHANGED index
  PROVE  Indexed'
<1>1. UNCHANGED past
  OBVIOUS
<1>. QED
  BY <1>1, PlaceUnchanged, IndexedAside

(* Readers and requests move something else than the worker. *)
Asking ==
  \/ Read \/ Fetch("reader") \/ Install("reader") \/ IndexBook
  \/ \E o \in Order : MarkRequest(o)
  \/ \E o \in Order, b \in BOOLEAN, st \in {"open", "filled"} :
       IndexRequest(o, b, st, IF st = "open" THEN 0 ELSE NewSize)

(* Requests, and reads of the book, change no map and leave the apply worker *)
(* alone.                                                                    *)
LEMMA AskingMoves ==
  ASSUME Steady, Asking
  PROVE  /\ UNCHANGED <<log, past>> /\ UNCHANGED index /\ UNCHANGED holding
         /\ marked \subseteq marked' /\ indexed \subseteq indexed'
         /\ worker' = worker /\ applied' = applied
         /\ ~ (\E o \in Order : MarkRequest(o)) => proc'["mark"] = proc["mark"] /\ marked' = marked
<1>1. /\ UNCHANGED <<log, past>> /\ UNCHANGED index /\ UNCHANGED holding /\ marked \subseteq marked' /\ indexed \subseteq indexed'
  BY DEF Asking, Read, Fetch, Install, IndexBook, MarkRequest, IndexRequest, requests
<1>2. worker' = worker /\ applied' = applied /\ (~ (\E o \in Order : MarkRequest(o)) => proc'["mark"] = proc["mark"])
  <2>1. CASE Read
    <3>1. proc' = [proc EXCEPT !["reader"] = [proc["reader"] EXCEPT !.pc = "fetch"]] /\ applied' = applied
      BY <2>1 DEF Read, Steady, Hands, Proc
    <3>. QED
      BY <3>1, OtherGoes
  <2>2. CASE Fetch("reader")
    <3>1. \/ /\ proc' = [proc EXCEPT !["reader"] = [proc["reader"] EXCEPT !.pc = "install", !.at = Len(log)]]
             /\ applied' = applied
          \/ Goto("reader", "idle")
      BY <2>2 DEF Fetch, Steady, Hands, Proc
    <3>. QED
      BY <3>1, OtherGoes, HandlerGoes
  <2>3. CASE Install("reader")
    <3>1. Goto("reader", "idle")
      BY <2>3 DEF Install
    <3>. QED
      BY <3>1, HandlerGoes
  <2>4. CASE IndexBook
    <3>1. Goto("index", "insert")
      BY <2>4 DEF IndexBook
    <3>. QED
      BY <3>1, HandlerGoes
  <2>5. CASE \E o \in Order : MarkRequest(o)
    <3>1. \E k : proc' = [proc EXCEPT !["mark"] = k] /\ applied' = applied
      BY <2>5 DEF MarkRequest
    <3>2. worker' = worker /\ applied' = applied
      BY <3>1, OtherGoes
    <3>. QED
      BY <2>5, <3>2
  <2>6. CASE \E o \in Order, b \in BOOLEAN, st \in {"open", "filled"} :
              IndexRequest(o, b, st, IF st = "open" THEN 0 ELSE NewSize)
    <3>1. \E k : proc' = [proc EXCEPT !["index"] = k] /\ applied' = applied
      BY <2>6 DEF IndexRequest
    <3>. QED
      BY <3>1, OtherGoes
  <2>. QED
    BY <2>1, <2>2, <2>3, <2>4, <2>5, <2>6 DEF Asking
<1>3. ~ (\E o \in Order : MarkRequest(o)) => marked' = marked
  BY DEF Asking, Read, Fetch, Install, IndexBook, IndexRequest, requests
<1>. QED
  BY <1>1, <1>2, <1>3

(* So they keep Indexed. *)
LEMMA IndexedRequests ==
  ASSUME Steady, Indexed, Asking
  PROVE  Indexed'
BY AskingMoves, IndexedQuiet

(* The handlers touch orders they were called for. *)
LEMMA HandlerStep ==
  ASSUME Steady, NEW p \in {"mark", "index"}, Touching(p)
  PROVE  worker' = worker /\ applied' = applied /\ UNCHANGED <<log, past, book, holding, requests>>
<1>1. UNCHANGED <<log, past, book, holding, requests>>
  BY DEF Touching, Insert, Put, Lookup, Modify, Unlink, Drop
<1>2. \/ \E pc : Goto(p, pc)
      \/ \E k : proc' = [proc EXCEPT ![p] = k] /\ applied' = applied
  <2>1. CASE Insert(p) \/ Put(p) \/ Lookup(p) \/ Unlink(p) \/ Drop(p)
    BY <2>1 DEF Insert, Put, Lookup, Unlink, Drop
  <2>2. CASE Modify(p)
    <3>1. \/ Goto(p, Rest(p))
          \/ /\ proc' = [proc EXCEPT ![p] = [proc[p] EXCEPT !.pc = "unlink", !.row = Updated(orders[proc[p].ev.order], proc[p].ev)]]
             /\ applied' = applied
      BY <2>2 DEF Modify, Steady, Hands, Proc
    <3>. QED
      BY <3>1
  <2>. QED
    BY <2>1, <2>2 DEF Touching
<1>3. p \in {"mark", "index", "reader"}
  OBVIOUS
<1>. QED
  BY <1>1, <1>2, <1>3, HandlerGoes, OtherGoes

(* A handler at work moves only orders that it was called for. *)
LEMMA IndexedHandler ==
  ASSUME Steady, Indexed, NEW p \in {"mark", "index"}, Touching(p)
  PROVE  Indexed'
<1>1. worker' = worker /\ applied' = applied /\ UNCHANGED <<log, past, book, holding, requests>>
  BY HandlerStep
<1>2. marked' = marked /\ indexed' = indexed /\ past' = past
  BY <1>1 DEF requests
<1>3. proc[p].pc # "idle"
  BY DEF Touching, Insert, Put, Lookup, Modify, Unlink, Drop
<1>4. proc[p].ev.order \in marked \union indexed
  BY <1>3 DEF Steady, Handlers
<1>5. \A x \in Order : x # proc[p].ev.order => Place(x)' = Place(x)
  BY Elsewhere
<1>. QED
  BY <1>1, <1>2, <1>4, <1>5, IndexedAside

(* The worker takes an event, or skips it: then it is an order the handlers know. *)
LEMMA Unknown ==
  ASSUME Steady, Indexed, worker.pc = "idle", applied < Len(log), NEW o, o = log[applied + 1].order,
         log[applied + 1].kind \in {"created", "executed"}, o \notin marked \union indexed
  PROVE  o \notin byId
<1>1. past[applied + 1][o] = NoRow /\ o \in Order
  BY EventFacts, EmitsFrom
<1>2. Place(o) = Wanted(o, NoRow)
  BY <1>1 DEF Indexed
<1>3. Place(o).ids = byId \intersect {o} /\ Wanted(o, NoRow).ids = {}
  BY NoRowFacts DEF Place, Wanted
<1>. QED
  BY <1>2, <1>3

(* The apply worker takes an event, or is done with it at once. *)
LEMMA IndexedTake ==
  ASSUME Steady, Indexed, Skip \/ Take \/ TakeExecuted
  PROVE  Indexed'
<1>. DEFINE e == log[applied + 1]
            o == e.order
<1>1. /\ worker.pc = "idle" /\ applied < Len(log) /\ UNCHANGED <<log, past, marked, indexed>> /\ UNCHANGED index
      /\ e \in Event
  BY EventFacts DEF Skip, Take, TakeExecuted, worker, requests, index
<1>2. /\ o \in Order /\ \A x \in Order : x # o => past[applied + 2][x] = past[applied + 1][x]
  BY <1>1, EventFacts
<1>3. \A x : Place(x)' = Place(x)
  BY <1>1, PlaceUnchanged
<1>4. \A x \in Order \ (marked \union indexed) : Place(x) = Wanted(x, past[applied + 1][x])
  BY <1>1 DEF Indexed
<1>a. applied \in Nat
  BY SteadyChain, LogFacts
<1>5. CASE Skip
  <2>1. /\ Known(e) /\ applied' = applied + 1 /\ proc' = proc /\ worker' = worker /\ applied' + 1 = applied + 2
    BY <1>5, <1>a DEF Skip, worker
  <2>2. o \in marked \union indexed
    BY <1>1, <2>1, Unknown DEF Known
  <2>3. ASSUME NEW x \in Order \ (marked' \union indexed')
        PROVE  Place(x)' = Wanted(x, past'[applied' + 1][x])
    BY <1>1, <1>2, <1>3, <1>4, <2>1, <2>2, <2>3
  <2>4. worker'.pc = "idle"
    BY <1>1, <2>1
  <2>. QED
    BY <2>3, <2>4 DEF Indexed
<1>6. CASE Take \/ TakeExecuted
  <2>1. \E k : proc' = [proc EXCEPT !["apply"] = k] /\ k.ev = e /\ k.pc \in Before \union {"insert"} /\ applied' = applied
    <3>1. CASE Take
      <4>. DEFINE k == [pc |-> IF e.kind = "cancelled" \/ hydrated THEN "book" ELSE "fetch",
                        ev |-> e, row |-> NewRow(e.size, "open", 0), at |-> 0]
      <4>1. proc' = [proc EXCEPT !["apply"] = k] /\ applied' = applied
        BY <3>1 DEF Take
      <4>2. k.ev = e /\ k.pc \in Before \union {"insert"}
        BY DEF Before
      <4>. HIDE DEF k, e
      <4>. QED BY <4>1, <4>2, Zenon
    <3>2. CASE TakeExecuted
      <4>. DEFINE k == [pc |-> "insert", ev |-> e, row |-> index_market_order_executed(e), at |-> 0]
      <4>1. proc' = [proc EXCEPT !["apply"] = k] /\ applied' = applied
        BY <3>2 DEF TakeExecuted
      <4>2. k.ev = e /\ k.pc \in Before \union {"insert"}
        BY DEF Before
      <4>. HIDE DEF k, e
      <4>. QED BY <4>1, <4>2, Zenon
    <3>. QED BY <1>6, <3>1, <3>2
  <2>2. PICK k : proc' = [proc EXCEPT !["apply"] = k] /\ k.ev = e /\ k.pc \in Before \union {"insert"} /\ applied' = applied
    BY <2>1
  <2>3. worker' = k
    BY <2>2 DEF worker, Steady, Hands, Proc
  <2>4. ASSUME NEW x \in Order, x \notin marked' \union indexed'
        PROVE  IF worker'.pc = "idle" \/ worker'.ev.order # x THEN Place(x)' = Wanted(x, past'[applied' + 1][x])
               ELSE InHand(Place(x)', worker', x, past'[applied' + 1][x], past'[applied' + 2][x])
    <3>1. Place(x)' = Wanted(x, past'[applied' + 1][x])
      BY <1>1, <1>3, <1>4, <2>2, <2>4
    <3>2. worker'.pc \notin {"put", "unlink", "drop", "holding", "tell"}
      BY <2>2, <2>3 DEF Before
    <3>3. InHand(Place(x)', worker', x, past'[applied' + 1][x], past'[applied' + 2][x])
      BY <3>1, <3>2 DEF InHand
    <3>. QED
      BY <3>1, <3>3
  <2>. QED
    BY <2>4 DEF Indexed
<1>. QED
  BY <1>5, <1>6

(* Before the order is touched, and where nothing is there to be changed. *)
LEMMA IndexedFetch ==
  ASSUME Steady, Indexed, Fetch("apply") \/ Install("apply") \/ Book
  PROVE  Indexed'
<1>1. worker.pc \in Before /\ worker.pc # "idle" /\ UNCHANGED <<log, past, marked, indexed>> /\ UNCHANGED index
  BY DEF Fetch, Install, Book, worker, requests, Before
<1>2. worker'.pc \in Before \union {"insert", "lookup"} /\ worker'.ev = worker.ev /\ applied' = applied
  <2>1. \/ /\ proc' = [proc EXCEPT !["apply"] = [worker EXCEPT !.pc = "install", !.at = Len(log)]]
           /\ applied' = applied
        \/ \E pc \in {"book", "insert", "lookup"} : Goto("apply", pc)
    BY DEF Fetch, Install, Book, worker, Steady, Hands, Proc
  <2>2. CASE /\ proc' = [proc EXCEPT !["apply"] = [worker EXCEPT !.pc = "install", !.at = Len(log)]]
             /\ applied' = applied
    <3>1. worker' = [worker EXCEPT !.pc = "install", !.at = Len(log)] /\ worker \in Hand
      BY <2>2 DEF worker, Steady, Hands, Proc, Hand
    <3>. QED
      BY <2>2, <3>1 DEF Hand, Before
  <2>3. CASE \E pc \in {"book", "insert", "lookup"} : Goto("apply", pc)
    <3>1. PICK pc \in {"book", "insert", "lookup"} : Goto("apply", pc)
      BY <2>3
    <3>2. pc \in Step /\ pc # "idle" /\ pc \in Before \union {"insert", "lookup"}
      BY DEF Step, Before
    <3>. QED
      BY <1>1, <3>1, <3>2, WorkerGoes
  <2>. QED
    BY <2>1, <2>2, <2>3
<1>. DEFINE o == worker.ev.order
<1>3. \A x : Place(x)' = Place(x)
  BY <1>1, PlaceUnchanged
<1>. HIDE DEF o
<1>4. ASSUME o \notin marked \union indexed
      PROVE  \A c : c = Place(o) => InHand(c, worker', o, past[applied + 1][o], past[applied + 2][o])
  <2>1. InHand(Place(o), worker, o, past[applied + 1][o], past[applied + 2][o])
    BY <1>1, <1>4, InHandNow DEF o
  <2>2. Place(o) = Wanted(o, past[applied + 1][o])
    BY <1>1, <2>1 DEF InHand
  <2>3. worker'.pc \notin {"put", "unlink", "drop", "holding", "tell"}
    BY <1>2 DEF Before
  <2>. QED
    BY <2>2, <2>3 DEF InHand
<1>5. worker'.pc # "idle"
  BY <1>2 DEF Before
<1>6. \E x : x = worker.ev.order
  OBVIOUS
<1>7. PICK x : x = worker.ev.order
  BY <1>6
<1>8. x \notin marked \union indexed =>
         InHand(Place(x)', worker', x, past[applied + 1][x], past[applied + 2][x])
  BY <1>3, <1>4, <1>7 DEF o
<1>. QED
  BY <1>1, <1>2, <1>3, <1>5, <1>7, <1>8, IndexedWork

(* What the worker's step on its order leaves there. *)
LEMMA IndexedInsert ==
  ASSUME Steady, Indexed, Insert("apply") \/ Put("apply")
  PROVE  Indexed'
<1>1. worker.pc \in {"insert", "put"} /\ worker.pc # "idle" /\ UNCHANGED <<log, past, marked, indexed>> /\ worker = proc["apply"]
  BY DEF Insert, Put, worker, requests
<1>2. PICK o : o = worker.ev.order
  OBVIOUS
<1>. DEFINE r == past[applied + 1][o]
            s == past[applied + 2][o]
            pc == IF worker.pc = "insert" /\ Hot(worker.row) THEN "put" ELSE "tell"
<1>3. /\ o \in Order /\ applied < Len(log) /\ worker.ev = log[applied + 1] /\ worker.ev \in Event
      /\ RowSound(r) /\ Emits(r, worker.ev, s)
  BY <1>1, <1>2, WorkerFacts, EventFacts
<1>4. /\ worker.ev.kind \in {"created", "executed"} /\ (worker.pc = "put" => worker.ev.kind = "created")
      /\ worker.ev.kind = "created" => worker.row = NewRow(worker.ev.size, "open", 0)
      /\ worker.pc = "insert" /\ worker.ev.kind = "executed" => worker.row = index_market_order_executed(worker.ev)
  BY <1>1 DEF Steady, Worker
<1>5. r = NoRow /\ s # NoRow /\ worker.row = s /\ (worker.pc = "put" => Hot(s))
  BY <1>1, <1>3, <1>4, EmitsFrom, EmitsTo
<1>6. Goto("apply", pc) /\ pc \in Step /\ pc # "idle"
  BY <1>1 DEF Insert, Put, Done, worker, Step
<1>7. worker'.pc = pc /\ worker'.ev = worker.ev /\ applied' = applied
  BY <1>1, <1>6, WorkerGoes
<1>8. \A x \in Order : x # o => Place(x)' = Place(x)
  BY <1>1, <1>2, Elsewhere DEF Touching
<1>9. ASSUME o \notin marked \union indexed
      PROVE  InHand(Place(o)', worker', o, r, s)
  <2>0. InHand(Place(o), worker, o, r, s)
    BY <1>1, <1>2, <1>9, InHandNow
  <2>a. orders \in [Order -> Row] /\ rows \in [Order -> Row]
    BY TypeFacts
  <2>1. CASE worker.pc = "insert" /\ Hot(s)
    <3>1. Place(o) = Wanted(o, NoRow)
      BY <1>5, <2>0, <2>1 DEF InHand
    <3>2. orders[o] = NoRow /\ Archived(o) = {}
      BY <3>1, NoRowFacts DEF Place, Wanted
    <3>3. byId' = byId \union {o} /\ rows' = [rows EXCEPT ![o] = s] /\ history' = history /\ orders' = orders
      BY <1>1, <1>2, <1>5, <2>1 DEF Insert, Put
    <3>4. Place(o)' = [order |-> NoRow, row |-> s, ids |-> {o}, gone |-> {}]
      <4>1. Archived(o)' = {}
        BY <3>2, <3>3 DEF Archived
      <4>2. orders'[o] = NoRow /\ rows'[o] = s /\ byId' \intersect {o} = {o}
        BY <1>3, <2>a, <3>2, <3>3
      <4>. QED
        BY <4>1, <4>2 DEF Place
    <3>5. worker'.pc = "put"
      BY <1>5, <1>7, <2>1
    <3>. QED
      BY <3>4, <3>5 DEF InHand, Before
  <2>2. CASE worker.pc = "insert" /\ ~ Hot(s)
    <3>1. Place(o) = Wanted(o, NoRow)
      BY <1>5, <2>0, <2>2 DEF InHand
    <3>2. orders[o] = NoRow /\ rows[o] = NoRow /\ byId \intersect {o} = {} /\ Archived(o) = {}
      BY <3>1, NoRowFacts DEF Place, Wanted
    <3>3. byId' = byId /\ rows' = rows /\ history' = history \union {[order |-> o, row |-> s]} /\ orders' = orders
      BY <1>1, <1>2, <1>5, <2>2 DEF Insert, Put
    <3>4. Place(o)' = Wanted(o, s)
      <4>1. Archived(o)' = {s}
        BY <3>2, <3>3, ArchivedMore
      <4>. QED
        BY <1>5, <2>2, <3>2, <3>3, <4>1 DEF Place, Wanted
    <3>5. worker'.pc = "tell"
      BY <1>5, <1>7, <2>2
    <3>. QED
      BY <3>4, <3>5 DEF InHand, Before
  <2>3. CASE worker.pc = "put"
    <3>1. Place(o) = [order |-> NoRow, row |-> s, ids |-> {o}, gone |-> {}]
      BY <2>0, <2>3 DEF InHand
    <3>2. rows[o] = s /\ byId \intersect {o} = {o} /\ Archived(o) = {}
      BY <3>1 DEF Place
    <3>3. byId' = byId /\ rows' = rows /\ history' = history /\ orders' = [orders EXCEPT ![o] = s]
      BY <1>1, <1>2, <1>5, <2>3 DEF Insert, Put
    <3>4. Place(o)' = Wanted(o, s)
      <4>1. Archived(o)' = {} /\ orders'[o] = s
        BY <1>3, <2>a, <3>2, <3>3 DEF Archived
      <4>. QED
        BY <1>5, <2>3, <3>2, <3>3, <4>1 DEF Place, Wanted
    <3>5. worker'.pc = "tell"
      BY <1>7, <2>3
    <3>. QED
      BY <3>4, <3>5 DEF InHand, Before
  <2>. QED
    BY <1>1, <2>1, <2>2, <2>3
<1>. HIDE DEF pc
<1>. QED
  BY <1>1, <1>2, <1>6, <1>7, <1>8, <1>9, IndexedWork

(* It finds, changes and removes an order. *)
LEMMA IndexedUpdate ==
  ASSUME Steady, Indexed, Lookup("apply") \/ Modify("apply") \/ Unlink("apply") \/ Drop("apply")
  PROVE  Indexed'
<1>1. /\ worker.pc \in {"lookup", "modify", "unlink", "drop"} /\ worker.pc # "idle"
      /\ UNCHANGED <<log, past, marked, indexed>> /\ worker = proc["apply"] /\ proc["apply"].pc # "idle"
  BY DEF Lookup, Modify, Unlink, Drop, worker, requests
<1>2. PICK o : o = worker.ev.order
  OBVIOUS
<1>. DEFINE r == past[applied + 1][o]
            s == past[applied + 2][o]
<1>3. /\ o \in Order /\ applied < Len(log) /\ worker.ev = log[applied + 1] /\ worker.ev \in Event
      /\ RowSound(r) /\ Emits(r, worker.ev, s)
  BY <1>1, <1>2, WorkerFacts, EventFacts
<1>4. /\ worker.ev.kind \notin {"created", "executed"} /\ r # NoRow /\ Hot(r) /\ s = Updated(r, worker.ev) /\ s # NoRow
  <2>1. worker.ev.kind \notin {"created", "executed"}
    BY <1>1 DEF Steady, Worker
  <2>2. r # NoRow /\ Hot(r) /\ s = Updated(r, worker.ev) /\ s # NoRow
    BY <1>3, <2>1, EmitsFrom, EmitsTo
  <2>. QED
    BY <2>1, <2>2
<1>5. Rest("apply") \in {"holding", "tell"} /\ Rest("apply") \in Step
  BY <1>1, RestFacts
<1>6. \A x \in Order : x # o => Place(x)' = Place(x)
  BY <1>1, <1>2, Elsewhere DEF Touching
<1>7. /\ orders \in [Order -> Row] /\ rows \in [Order -> Row] /\ worker \in Hand
  BY <1>1, TypeFacts, HandFacts
<1>8. ASSUME o \notin marked \union indexed
      PROVE  InHand(Place(o), worker, o, r, s)
  BY <1>1, <1>2, <1>8, InHandNow
<1>. HIDE DEF r, s
<1>9. CASE Lookup("apply")
  <2>. DEFINE pc == IF o \in byId THEN "modify" ELSE Rest("apply")
  <2>1. Goto("apply", pc) /\ worker.pc = "lookup" /\ UNCHANGED index
    BY <1>1, <1>2, <1>9 DEF Lookup
  <2>2. pc \in Step /\ pc # "idle"
    BY <1>5 DEF Step
  <2>3. \A x : Place(x)' = Place(x)
    BY <2>1, PlaceUnchanged
  <2>4. ASSUME o \notin marked \union indexed PROVE pc = "modify" /\ Place(o) = Wanted(o, r)
    <3>1. Place(o) = Wanted(o, r)
      BY <1>8, <2>1, <2>4 DEF InHand
    <3>2. byId \intersect {o} = {o}
      BY <1>4, <3>1 DEF Place, Wanted
    <3>. QED
      BY <3>1, <3>2
  <2>. HIDE DEF pc
  <2>5. worker'.pc = pc /\ worker'.ev = worker.ev /\ applied' = applied
    BY <1>1, <2>1, <2>2, WorkerGoes
  <2>6. ASSUME o \notin marked \union indexed PROVE InHand(Place(o)', worker', o, r, s)
    BY <2>3, <2>4, <2>5, <2>6 DEF InHand
  <2>. QED
    BY <1>1, <1>2, <1>6, <2>2, <2>5, <2>6, IndexedWork DEF r, s
<1>10. CASE Modify("apply")
  <2>. DEFINE u == Updated(orders[o], worker.ev)
              k == [worker EXCEPT !.pc = "unlink", !.row = u]
  <2>0. worker.pc = "modify"
    BY <1>1, <1>10 DEF Modify
  <2>1. \/ orders[o] = NoRow /\ Goto("apply", Rest("apply")) /\ UNCHANGED <<orders, rows, byId, history>>
        \/ /\ orders[o] # NoRow /\ Hot(u) /\ Goto("apply", Rest("apply"))
           /\ orders' = [orders EXCEPT ![o] = u] /\ rows' = [rows EXCEPT ![o] = u] /\ UNCHANGED <<byId, history>>
        \/ /\ orders[o] # NoRow /\ ~ Hot(u)
           /\ orders' = [orders EXCEPT ![o] = u] /\ UNCHANGED <<rows, byId, history>>
           /\ proc' = [proc EXCEPT !["apply"] = k] /\ applied' = applied
    BY <1>1, <1>2, <1>10 DEF Modify, worker, Steady, Hands, Proc
  <2>2. /\ worker'.pc # "idle" /\ worker'.ev = worker.ev /\ applied' = applied
        /\ Goto("apply", Rest("apply")) => worker'.pc \in {"holding", "tell"}
        /\ proc' = [proc EXCEPT !["apply"] = k] => worker'.pc = "unlink" /\ worker'.row = u
    <3>1. CASE Goto("apply", Rest("apply"))
      <4>1. worker'.pc = Rest("apply") /\ worker'.ev = worker.ev /\ applied' = applied
        BY <1>1, <1>5, <3>1, WorkerGoes
      <4>2. proc' = [proc EXCEPT !["apply"] = k] => worker' = k /\ k.pc = "unlink"
        BY <1>7 DEF worker, Steady, Hands, Proc, Hand
      <4>. QED BY <1>5, <4>1, <4>2
    <3>2. CASE proc' = [proc EXCEPT !["apply"] = k] /\ applied' = applied
      <4>1. worker' = k
        BY <3>2 DEF worker, Steady, Hands, Proc
      <4>2. k.pc = "unlink" /\ k.row = u /\ k.ev = worker.ev
        BY <1>7 DEF Hand
      <4>3. Goto("apply", Rest("apply")) => worker'.pc = Rest("apply")
        BY <1>1, <1>5, WorkerGoes
      <4>. QED BY <1>5, <3>2, <4>1, <4>2, <4>3
    <3>. QED BY <2>1, <3>1, <3>2
  <2>3. ASSUME o \notin marked \union indexed PROVE InHand(Place(o)', worker', o, r, s)
    <3>1. Place(o) = Wanted(o, r)
      BY <1>8, <2>0, <2>3 DEF InHand
    <3>2. orders[o] = r /\ byId \intersect {o} = {o} /\ Archived(o) = {}
      BY <1>4, <3>1 DEF Place, Wanted
    <3>3. orders[o] # NoRow /\ u = s
      BY <1>4, <3>2
    <3>4. orders' = [orders EXCEPT ![o] = s] /\ byId' = byId /\ history' = history
      BY <2>1, <3>3
    <3>5. orders'[o] = s /\ byId' \intersect {o} = {o} /\ Archived(o)' = {}
      BY <1>3, <1>7, <3>2, <3>4 DEF Archived
    <3>6. CASE Hot(s)
      <4>1. rows'[o] = s /\ worker'.pc \in {"holding", "tell"}
        BY <1>3, <1>7, <2>1, <2>2, <3>3, <3>6
      <4>2. Place(o)' = Wanted(o, s)
        BY <3>5, <3>6, <4>1 DEF Place, Wanted
      <4>. QED
        BY <4>1, <4>2 DEF InHand, Before
    <3>7. CASE ~ Hot(s)
      <4>1. worker'.pc = "unlink" /\ worker'.row = s
        BY <2>1, <2>2, <3>3, <3>7
      <4>2. Place(o)'.order = s /\ Place(o)'.gone = {} /\ Place(o)'.ids = {o}
        BY <3>5 DEF Place
      <4>. QED
        BY <3>7, <4>1, <4>2 DEF InHand, Before
    <3>. QED BY <3>6, <3>7
  <2>. QED
    BY <1>1, <1>2, <1>6, <2>2, <2>3, IndexedWork DEF r, s
<1>11. CASE Unlink("apply")
  <2>1. Goto("apply", "drop") /\ worker.pc = "unlink" /\ byId' = byId \ {o} /\ UNCHANGED <<orders, rows, history>>
    BY <1>1, <1>2, <1>11 DEF Unlink
  <2>2. worker'.pc = "drop" /\ worker'.ev = worker.ev /\ worker'.row = worker.row /\ applied' = applied
    BY <1>1, <2>1, WorkerGoes DEF Step
  <2>3. ASSUME o \notin marked \union indexed PROVE InHand(Place(o)', worker', o, r, s)
    <3>1. worker.row = s /\ ~ Hot(s) /\ Place(o).order = s /\ Place(o).gone = {}
      BY <1>8, <2>1, <2>3 DEF InHand
    <3>2. Archived(o)' = Archived(o) /\ orders'[o] = orders[o] /\ byId' \intersect {o} = {}
      BY <2>1 DEF Archived
    <3>3. Place(o)'.order = s /\ Place(o)'.gone = {} /\ Place(o)'.ids = {}
      BY <3>1, <3>2 DEF Place
    <3>. QED
      BY <2>2, <3>1, <3>3 DEF InHand, Before
  <2>. QED
    BY <1>1, <1>2, <1>6, <2>2, <2>3, IndexedWork DEF r, s
<1>12. CASE Drop("apply")
  <2>1. /\ Goto("apply", Rest("apply")) /\ worker.pc = "drop" /\ byId' = byId
        /\ orders' = [orders EXCEPT ![o] = NoRow] /\ rows' = [rows EXCEPT ![o] = NoRow]
        /\ history' = history \union {[order |-> o, row |-> worker.row]}
    BY <1>1, <1>2, <1>12 DEF Drop
  <2>2. worker'.pc \in {"holding", "tell"} /\ worker'.ev = worker.ev /\ applied' = applied
    BY <1>1, <1>5, <2>1, WorkerGoes
  <2>3. ASSUME o \notin marked \union indexed PROVE InHand(Place(o)', worker', o, r, s)
    <3>1. worker.row = s /\ ~ Hot(s) /\ Place(o).gone = {} /\ Place(o).ids = {}
      BY <1>8, <2>1, <2>3 DEF InHand
    <3>a. Archived(o) = {}
      BY <3>1 DEF Place
    <3>2. Archived(o)' = {s}
      BY <2>1, <3>1, <3>a, ArchivedMore
    <3>3. orders'[o] = NoRow /\ rows'[o] = NoRow /\ byId' \intersect {o} = {}
      BY <1>3, <1>7, <2>1, <3>1 DEF Place
    <3>4. Place(o)' = Wanted(o, s)
      BY <1>4, <3>1, <3>2, <3>3 DEF Place, Wanted
    <3>. QED
      BY <2>2, <3>4 DEF InHand, Before
  <2>. QED
    BY <1>1, <1>2, <1>6, <2>2, <2>3, IndexedWork DEF r, s
<1>. QED
  BY <1>9, <1>10, <1>11, <1>12

(* It credits the portfolio and ends. *)
LEMMA IndexedTell ==
  ASSUME Steady, Indexed, Holding \/ Tell
  PROVE  Indexed'
<1>1. /\ worker.pc \in {"holding", "tell"} /\ worker.pc # "idle" /\ UNCHANGED <<log, past, marked, indexed>> /\ UNCHANGED index
  BY DEF Holding, Tell, worker, requests
<1>2. PICK o : o = worker.ev.order
  OBVIOUS
<1>. DEFINE s == past[applied + 2][o]
<1>3. /\ o \in Order /\ \A x \in Order : x # o => past[applied + 2][x] = past[applied + 1][x]
  BY <1>1, <1>2, WorkerFacts, EventFacts
<1>4. \A x : Place(x)' = Place(x)
  BY <1>1, PlaceUnchanged
<1>5. ASSUME o \notin marked \union indexed PROVE Place(o) = Wanted(o, s)
  <2>1. InHand(Place(o), worker, o, past[applied + 1][o], past[applied + 2][o])
    BY <1>1, <1>2, <1>5, InHandNow
  <2>. QED
    BY <1>1, <2>1 DEF InHand
<1>6. CASE Holding
  <2>1. worker'.pc = "tell" /\ worker'.ev = worker.ev /\ applied' = applied
    BY <1>1, <1>6, WorkerGoes DEF Holding, Step
  <2>2. ASSUME o \notin marked \union indexed
        PROVE  InHand(Place(o)', worker', o, past[applied + 1][o], past[applied + 2][o])
    BY <1>4, <1>5, <2>1, <2>2 DEF InHand, Before
  <2>. QED
    BY <1>1, <1>2, <1>4, <2>1, <2>2, IndexedWork
<1>7. CASE Tell
  <2>1. worker'.pc = "idle" /\ applied' = applied + 1
    BY <1>1, <1>7, WorkerGoes DEF Tell, Step
  <2>2. applied' + 1 = applied + 2
    BY <2>1, SteadyChain, LogFacts
  <2>3. ASSUME NEW x \in Order \ (marked' \union indexed')
        PROVE  Place(x)' = Wanted(x, past'[applied' + 1][x])
    <3>1. x \in Order \ (marked \union indexed) /\ past'[applied' + 1][x] = past[applied + 2][x] /\ Place(x)' = Place(x)
      BY <1>1, <1>4, <2>2
    <3>2. CASE x = o
      BY <1>5, <3>1, <3>2
    <3>3. CASE x # o
      <4>1. Place(x) = Wanted(x, past[applied + 1][x])
        BY <1>2, <3>1, <3>3 DEF Indexed
      <4>. QED
        BY <1>3, <3>1, <3>3, <4>1
    <3>. QED BY <3>2, <3>3
  <2>. QED
    BY <2>1, <2>3 DEF Indexed
<1>. QED
  BY <1>6, <1>7

(* Indexed is inductive, given Steady. *)
LEMMA IndexedStep ==
  ASSUME Steady, Indexed, [Next]_vars
  PROVE  Indexed'
<1>1. CASE UNCHANGED vars
  <2>1. worker' = worker /\ applied' = applied /\ UNCHANGED <<log, past>> /\ marked' = marked /\ indexed' = indexed
        /\ UNCHANGED index
    BY <1>1 DEF vars, requests, worker
  <2>. QED
    BY <2>1, IndexedQuiet
<1>2. CASE \E o \in Order : NodeStep(o)
  BY <1>2, IndexedNode
<1>3. CASE \E p \in {"apply", "reader"} : Fetch(p) \/ Install(p)
  BY <1>3, IndexedFetch, IndexedRequests DEF Asking
<1>4. CASE \E p \in {"apply", "index"} : Insert(p) \/ Put(p)
  BY <1>4, IndexedInsert, IndexedHandler DEF Touching
<1>5. CASE \E p \in {"apply", "mark"} : Lookup(p) \/ Modify(p) \/ Unlink(p) \/ Drop(p)
  BY <1>5, IndexedUpdate, IndexedHandler DEF Touching
<1>. QED
  BY <1>1, <1>2, <1>3, <1>4, <1>5, IndexedTake, IndexedFetch, IndexedRequests, IndexedTell, Zenon DEF Next, Asking
-----------------------------------------------------------------------------
(* Joined is an invariant. *)

(* Joined holds initially. *)
LEMMA JoinedInit ==
  ASSUME Init
  PROVE  Joined
<1>1. \A p \in Proc : proc[p] = Idle
  BY DEF Init
<1>2. worker = Idle /\ proc["apply"] = Idle /\ proc["mark"] = Idle
  BY <1>1 DEF worker, Proc
<1>. QED
  BY <1>2, IdleFacts DEF Init, Joined, Unborn, Paired, Dropping

(* What neither adds nor removes anything of order o. *)
Kept(o) ==
  /\ orders'[o] = NoRow <=> orders[o] = NoRow
  /\ o \in byId' <=> o \in byId
  /\ proc'["mark"].pc = "drop" /\ proc'["mark"].ev.order = o <=> Dropping("mark", o)

(* Joined stays when the id and the order of every other order are kept. *)
LEMMA JoinedKept ==
  ASSUME Steady, Joined, indexed \subseteq indexed', applied' = applied, past'[applied + 1] = past[applied + 1],
         worker' = worker \/ (worker.pc \notin {"put", "drop", "tell"} /\ worker'.pc \notin {"put", "drop"}),
         \A o \in Order : o \notin indexed' => Kept(o) /\ (o \in marked' => o \in marked \/ orders[o] # NoRow)
  PROVE  Joined'
<1>1. ASSUME NEW o \in Order, o \notin indexed'
      PROVE  Unborn(o)' /\ Paired(o)'
  <2>1. Unborn(o) /\ Paired(o) /\ Kept(o) /\ (o \in marked' => o \in marked \/ orders[o] # NoRow)
    BY <1>1 DEF Joined
  <2>2. past'[applied' + 1][o] = past[applied + 1][o]
    OBVIOUS
  <2>3. CASE worker' = worker
    BY <2>1, <2>2, <2>3 DEF Unborn, Paired, Kept, Dropping, worker
  <2>4. CASE worker.pc \notin {"put", "drop", "tell"} /\ worker'.pc \notin {"put", "drop"}
    BY <2>1, <2>2, <2>4 DEF Unborn, Paired, Kept, Dropping, worker
  <2>. QED
    BY <2>3, <2>4
<1>. QED
  BY <1>1 DEF Joined

(* The same where the maps and the handler are left alone altogether. *)
LEMMA JoinedQuiet ==
  ASSUME Steady, Joined, indexed \subseteq indexed', applied' = applied, past'[applied + 1] = past[applied + 1],
         worker' = worker \/ (worker.pc \notin {"put", "drop", "tell"} /\ worker'.pc \notin {"put", "drop"}),
         UNCHANGED <<orders, byId, marked>>, proc'["mark"] = proc["mark"]
  PROVE  Joined'
<1>1. \A o \in Order : o \notin indexed' => Kept(o) /\ (o \in marked' => o \in marked \/ orders[o] # NoRow)
  BY DEF Kept, Dropping
<1>. QED
  BY <1>1, JoinedKept

(* The worker is done with an event. *)
LEMMA JoinedDone ==
  ASSUME Steady, Joined, applied < Len(log), worker.pc = "idle" \/ (worker.pc = "tell" /\ worker.ev = log[applied + 1]),
         worker'.pc = "idle", applied' = applied + 1,
         UNCHANGED <<log, past, marked, indexed, orders, byId>>, proc'["mark"] = proc["mark"]
  PROVE  Joined'
<1>1. PICK e : e = log[applied + 1].order
  OBVIOUS
<1>2. /\ e \in Order /\ past[applied + 2][e] # NoRow
      /\ \A x \in Order : x # e => past[applied + 2][x] = past[applied + 1][x]
  BY <1>1, EventFacts, EmitsTo
<1>3. applied' + 1 = applied + 2
  BY SteadyChain, LogFacts
<1>4. ASSUME NEW o \in Order, o \notin indexed'
      PROVE  Unborn(o)' /\ Paired(o)'
  <2>1. Unborn(o) /\ Paired(o)
    BY <1>4 DEF Joined
  <2>2. past'[applied' + 1][o] = NoRow => past[applied + 1][o] = NoRow /\ o # e
    BY <1>2, <1>3
  <2>3. worker.pc \in {"idle", "tell"} /\ (worker.pc = "tell" => worker.ev.order = e)
    BY <1>1
  <2>. QED
    BY <2>1, <2>2, <2>3 DEF Unborn, Paired, Dropping, worker
<1>. QED
  BY <1>4 DEF Joined

(* The apply worker takes an event, or is done with it at once. *)
LEMMA JoinedTake ==
  ASSUME Steady, Joined, Skip \/ Take \/ TakeExecuted
  PROVE  Joined'
<1>1. worker.pc = "idle" /\ applied < Len(log) /\ UNCHANGED <<log, past, marked, indexed, orders, byId>>
  BY DEF Skip, Take, TakeExecuted, worker, requests, index
<1>2. CASE Skip
  <2>1. worker'.pc = "idle" /\ applied' = applied + 1 /\ proc'["mark"] = proc["mark"]
    BY <1>1, <1>2 DEF Skip, worker
  <2>. QED
    BY <1>1, <2>1, JoinedDone
<1>3. CASE Take \/ TakeExecuted
  <2>1. /\ worker'.pc \in Before \union {"insert"} /\ proc'["mark"] = proc["mark"] /\ applied' = applied
    BY <1>3 DEF Take, TakeExecuted, worker, Before, Steady, Hands, Proc
  <2>2. worker'.pc \notin {"put", "drop"} /\ past' = past /\ UNCHANGED <<orders, byId, marked>> /\ indexed' = indexed
    BY <1>1, <2>1 DEF Before
  <2>. QED
    BY <1>1, <2>1, <2>2, JoinedQuiet
<1>. QED
  BY <1>2, <1>3

(* The node emits an event. *)
LEMMA JoinedNode ==
  ASSUME Steady, Joined, NEW o \in Order, NodeStep(o)
  PROVE  Joined'
<1>1. UNCHANGED <<applied, proc, book, index, holding, requests>> /\ \A k \in 1..Len(past) : past'[k] = past[k]
  BY NodeGoesOn
<1>2. /\ worker' = worker /\ indexed' = indexed /\ applied' = applied /\ proc'["mark"] = proc["mark"]
      /\ UNCHANGED <<orders, byId, marked>>
  BY <1>1 DEF worker, requests, index
<1>3. applied + 1 \in 1..Len(past)
  BY SteadyChain, LogFacts
<1>. QED
  BY <1>1, <1>2, <1>3, JoinedQuiet

(* The apply worker reads from the node, changes the level, or looks up. *)
LEMMA JoinedFetch ==
  ASSUME Steady, Joined, Fetch("apply") \/ Install("apply") \/ Book \/ Lookup("apply") \/ Holding
  PROVE  Joined'
<1>1. /\ worker.pc \in Before \union {"lookup", "holding"} /\ worker.pc # "idle" /\ worker = proc["apply"]
      /\ UNCHANGED <<log, past, marked, indexed>> /\ UNCHANGED <<orders, byId, marked>>
  BY DEF Fetch, Install, Book, Lookup, Holding, worker, requests, Before, index
<1>2. worker.pc \notin {"put", "drop", "tell"} /\ past' = past /\ indexed' = indexed
  BY <1>1 DEF Before
<1>3. worker.pc = "lookup" => Rest("apply") \in {"holding", "tell"}
  BY <1>1, RestFacts
<1>4. \/ /\ proc' = [proc EXCEPT !["apply"] = [worker EXCEPT !.pc = "install", !.at = Len(log)]]
         /\ applied' = applied
      \/ \E pc \in {"book", "insert", "lookup", "modify", "holding", "tell"} : Goto("apply", pc)
  BY <1>1, <1>3 DEF Fetch, Install, Book, Lookup, Holding, worker, Steady, Hands, Proc
<1>5. worker'.pc \notin {"put", "drop"} /\ applied' = applied /\ proc'["mark"] = proc["mark"]
  <2>1. CASE /\ proc' = [proc EXCEPT !["apply"] = [worker EXCEPT !.pc = "install", !.at = Len(log)]]
             /\ applied' = applied
    <3>1. worker' = [worker EXCEPT !.pc = "install", !.at = Len(log)] /\ worker \in Hand /\ proc'["mark"] = proc["mark"]
      BY <2>1 DEF worker, Steady, Hands, Proc, Hand
    <3>. QED
      BY <2>1, <3>1 DEF Hand
  <2>2. CASE \E pc \in {"book", "insert", "lookup", "modify", "holding", "tell"} : Goto("apply", pc)
    <3>1. PICK pc \in {"book", "insert", "lookup", "modify", "holding", "tell"} : Goto("apply", pc)
      BY <2>2
    <3>2. pc \in Step /\ pc # "idle" /\ pc \notin {"put", "drop"}
      BY DEF Step
    <3>. QED
      BY <1>1, <3>1, <3>2, WorkerGoes
  <2>. QED
    BY <1>4, <2>1, <2>2
<1>. QED
  BY <1>1, <1>2, <1>5, JoinedQuiet

(* A request comes in, or the book is read. *)
LEMMA JoinedRequests ==
  ASSUME Steady, Joined, Asking
  PROVE  Joined'
<1>1. /\ past' = past /\ indexed \subseteq indexed' /\ worker' = worker /\ applied' = applied
      /\ orders' = orders /\ byId' = byId
      /\ ~ (\E o \in Order : MarkRequest(o)) => proc'["mark"] = proc["mark"] /\ marked' = marked
  BY AskingMoves DEF index
<1>2. CASE ~ (\E o \in Order : MarkRequest(o))
  BY <1>1, <1>2, JoinedQuiet
<1>3. CASE \E o \in Order : MarkRequest(o)
  <2>1. PICK o \in Order : MarkRequest(o)
    BY <1>3
  <2>2. /\ proc["mark"].pc = "idle" /\ Hot(orders[o]) /\ marked' = marked \union {o}
        /\ proc'["mark"].pc = "lookup"
    BY <2>1 DEF MarkRequest, Steady, Hands, Proc
  <2>3. orders[o] # NoRow
    BY <2>2, NoRowFacts
  <2>4. \A x \in Order : x \notin indexed' => Kept(x) /\ (x \in marked' => x \in marked \/ orders[x] # NoRow)
    BY <1>1, <2>2, <2>3 DEF Kept, Dropping
  <2>. QED
    BY <1>1, <2>4, JoinedKept
<1>. QED
  BY <1>2, <1>3

(* index_from_event works on orders Joined says nothing of. *)
LEMMA JoinedIndexer ==
  ASSUME Steady, Joined, Insert("index") \/ Put("index")
  PROVE  Joined'
<1>1. /\ worker' = worker /\ applied' = applied /\ UNCHANGED <<log, past, book, holding, requests>>
  BY HandlerStep DEF Touching
<1>2. past' = past /\ indexed' = indexed /\ marked' = marked
  BY <1>1 DEF requests
<1>3. proc["index"].pc # "idle" /\ proc'["mark"] = proc["mark"]
  <2>1. proc["index"].pc # "idle" /\ \E pc : Goto("index", pc)
    BY DEF Insert, Put
  <2>. QED
    BY <2>1, HandlerGoes
<1>4. proc["index"].ev.order \in indexed
  BY <1>3 DEF Steady, Handlers
<1>5. \A x \in Order : x \notin indexed' => orders'[x] = orders[x] /\ (x \in byId' <=> x \in byId)
  BY <1>2, <1>4, TypeFacts DEF Insert, Put
<1>6. \A x \in Order : x \notin indexed' => Kept(x) /\ (x \in marked' => x \in marked \/ orders[x] # NoRow)
  BY <1>2, <1>3, <1>5 DEF Kept, Dropping
<1>. QED
  BY <1>1, <1>2, <1>6, JoinedKept

(* The order of an event in hand, not yet indexed or known to be there. *)
LEMMA BornFacts ==
  ASSUME Steady, worker.pc # "idle", NEW o, o = worker.ev.order
  PROVE  /\ o \in Order
         /\ worker.ev.kind \in {"created", "executed"} <=> past[applied + 1][o] = NoRow
<1>1. /\ o \in Order /\ worker.ev = log[applied + 1] /\ worker.ev \in Event
      /\ RowSound(past[applied + 1][o]) /\ Emits(past[applied + 1][o], worker.ev, past[applied + 2][o])
  BY WorkerFacts, EventFacts
<1>. QED
  BY <1>1, EmitsFrom

(* The id comes first and the order is in hand, ... *)
LEMMA JoinedInsert ==
  ASSUME Steady, Joined, Insert("apply")
  PROVE  Joined'
<1>1. worker.pc = "insert" /\ worker.pc # "idle" /\ UNCHANGED <<log, past, marked, indexed>> /\ worker = proc["apply"]
  BY DEF Insert, worker, requests
<1>2. PICK o : o = worker.ev.order
  OBVIOUS
<1>3. o \in Order /\ past[applied + 1][o] = NoRow
  BY <1>1, <1>2, BornFacts DEF Steady, Worker
<1>4. CASE ~ Hot(worker.row)
  <2>1. Goto("apply", "tell") /\ UNCHANGED <<orders, byId, marked>> /\ past' = past /\ indexed' = indexed
    BY <1>1, <1>4 DEF Insert, Done
  <2>2. worker'.pc = "tell" /\ applied' = applied /\ proc'["mark"] = proc["mark"]
    BY <1>1, <2>1, WorkerGoes DEF Step
  <2>3. worker.pc \notin {"put", "drop", "tell"} /\ worker'.pc \notin {"put", "drop"}
    BY <1>1, <2>2
  <2>. QED
    BY <2>1, <2>2, <2>3, JoinedQuiet
<1>5. CASE Hot(worker.row)
  <2>1. Goto("apply", "put") /\ orders' = orders /\ byId' = byId \union {o}
    BY <1>1, <1>2, <1>5 DEF Insert
  <2>2. worker'.pc = "put" /\ worker'.ev = worker.ev /\ applied' = applied /\ proc'["mark"] = proc["mark"]
    BY <1>1, <2>1, WorkerGoes DEF Step
  <2>3. ASSUME NEW x \in Order, x \notin indexed'
        PROVE  Unborn(x)' /\ Paired(x)'
    <3>1. Unborn(x) /\ Paired(x)
      BY <1>1, <2>3 DEF Joined
    <3>2. past'[applied' + 1][x] = past[applied + 1][x] /\ marked' = marked
      BY <1>1, <2>2
    <3>3. x = o => ~ Dropping("mark", x)
      <4>1. x = o => x \notin marked
        BY <1>1, <1>3, <3>1 DEF Unborn
      <4>. QED
        BY <4>1 DEF Steady, Handlers, Dropping
    <3>4. worker'.ev.order = o
      BY <1>2, <2>2
    <3>5. Unborn(x)'
      BY <1>1, <2>1, <2>2, <3>1, <3>2, <3>4 DEF Unborn
    <3>6. Paired(x)'
      BY <1>1, <2>1, <2>2, <3>1, <3>3, <3>4 DEF Paired, Dropping, worker
    <3>. QED
      BY <3>5, <3>6
  <2>. QED
    BY <2>3 DEF Joined
<1>. QED
  BY <1>4, <1>5

(* ... then the order. *)
LEMMA JoinedPut ==
  ASSUME Steady, Joined, Put("apply")
  PROVE  Joined'
<1>1. /\ worker.pc = "put" /\ worker.pc # "idle" /\ UNCHANGED <<log, past, marked, indexed>> /\ worker = proc["apply"]
      /\ byId' = byId /\ Goto("apply", "tell")
  BY DEF Put, worker, requests, Done
<1>2. PICK o : o = worker.ev.order
  OBVIOUS
<1>3. /\ o \in Order /\ past[applied + 1][o] = NoRow
      /\ worker.row = NewRow(worker.ev.size, "open", 0)
  BY <1>1, <1>2, BornFacts DEF Steady, Worker
<1>4. worker.row # NoRow
  BY <1>3 DEF NewRow, NoRow
<1>5. worker'.pc = "tell" /\ worker'.ev = worker.ev /\ applied' = applied /\ proc'["mark"] = proc["mark"]
  BY <1>1, WorkerGoes DEF Step
<1>6. orders' = [orders EXCEPT ![o] = worker.row] /\ orders \in [Order -> Row]
  BY <1>1, <1>2, TypeFacts DEF Put
<1>7. ASSUME NEW x \in Order, x \notin indexed'
      PROVE  Unborn(x)' /\ Paired(x)'
  <2>1. Unborn(x) /\ Paired(x)
    BY <1>1, <1>7 DEF Joined
  <2>2. past'[applied' + 1][x] = past[applied + 1][x] /\ marked' = marked /\ worker'.ev.order = o
    BY <1>1, <1>2, <1>5
  <2>3. CASE x = o
    <3>1. o \in byId /\ orders'[o] # NoRow
      BY <1>1, <1>2, <1>3, <1>4, <1>6, <2>1, <2>3 DEF Unborn
    <3>. QED
      BY <1>1, <1>5, <2>1, <2>2, <2>3, <3>1 DEF Unborn, Paired, Dropping, worker
  <2>4. CASE x # o
    <3>1. orders'[x] = orders[x]
      BY <1>6, <2>4
    <3>. QED
      BY <1>1, <1>2, <1>5, <2>1, <2>2, <2>4, <3>1 DEF Unborn, Paired, Dropping, worker
  <2>. QED
    BY <2>3, <2>4
<1>. QED
  BY <1>7 DEF Joined

(* Lookup and Modify add and remove nothing. *)
LEMMA JoinedModify ==
  ASSUME Steady, Joined, NEW p \in {"apply", "mark"}, Modify(p) \/ Lookup(p)
  PROVE  Joined'
<1>. DEFINE o == proc[p].ev.order
            u == Updated(orders[o], proc[p].ev)
            k == [proc[p] EXCEPT !.pc = "unlink", !.row = u]
<1>1. /\ proc[p].pc \in {"lookup", "modify"} /\ proc[p].pc # "idle" /\ UNCHANGED <<log, past, marked, indexed>>
      /\ byId' = byId
  BY DEF Modify, Lookup, requests, index
<1>2. /\ o \in Order /\ proc[p].ev \in Event /\ proc[p] \in Hand
      /\ proc[p].ev.kind \in {"filled", "updated", "cancelled"}
      /\ orders \in [Order -> Row]
  BY <1>1, HandFacts, RestFacts, TypeFacts
<1>3. u \in Row /\ u # NoRow
  BY <1>2, UpdatedRow
<1>4. /\ Rest(p) \in Step /\ (p = "mark" => Rest(p) = "idle")
      /\ p = "apply" => Rest(p) \in {"holding", "tell"}
  BY <1>1, RestFacts
<1>5. \/ \E pc \in {Rest(p), "modify"} : Goto(p, pc)
      \/ proc' = [proc EXCEPT ![p] = k] /\ applied' = applied
  BY <1>1 DEF Modify, Lookup, Steady, Hands, Proc
<1>6. \A x \in Order : orders'[x] = NoRow <=> orders[x] = NoRow
  <2>1. orders' = orders \/ (orders[o] # NoRow /\ orders' = [orders EXCEPT ![o] = u])
    BY DEF Modify, Lookup, index
  <2>. HIDE DEF u, o
  <2>. QED
    BY <1>2, <1>3, <2>1
<1>a. k.pc = "unlink"
  BY <1>2 DEF Hand
<1>. HIDE DEF k, u, o
<1>7. CASE p = "apply"
  <2>0. worker = proc[p]
    BY <1>7 DEF worker
  <2>1. /\ worker'.pc \in {"holding", "tell", "modify", "unlink"} /\ applied' = applied
        /\ proc'["mark"] = proc["mark"]
    <3>1. CASE \E pc \in {Rest(p), "modify"} : Goto(p, pc)
      <4>1. PICK pc \in {Rest(p), "modify"} : Goto(p, pc)
        BY <3>1
      <4>2. pc \in Step /\ pc # "idle" /\ pc \in {"holding", "tell", "modify"}
        BY <1>4, <1>7 DEF Step
      <4>. QED
        BY <1>1, <1>7, <2>0, <4>1, <4>2, WorkerGoes
    <3>2. CASE proc' = [proc EXCEPT ![p] = k] /\ applied' = applied
      <4>1. worker' = k /\ proc'["mark"] = proc["mark"]
        BY <1>7, <3>2 DEF worker, Steady, Hands, Proc
      <4>. QED
        BY <1>a, <3>2, <4>1
    <3>. QED
      BY <1>5, <3>1, <3>2
  <2>2. worker.pc \notin {"put", "drop", "tell"} /\ worker'.pc \notin {"put", "drop"}
    BY <1>1, <2>0, <2>1
  <2>3. \A x \in Order : x \notin indexed' => Kept(x) /\ (x \in marked' => x \in marked \/ orders[x] # NoRow)
    BY <1>1, <1>6, <2>1 DEF Kept, Dropping
  <2>. QED
    BY <1>1, <2>1, <2>2, <2>3, JoinedKept
<1>8. CASE p = "mark"
  <2>1. worker' = worker /\ applied' = applied /\ proc'["mark"].pc # "drop"
    <3>1. CASE \E pc \in {Rest(p), "modify"} : Goto(p, pc)
      <4>1. PICK pc \in {Rest(p), "modify"} : Goto(p, pc)
        BY <3>1
      <4>2. pc \in Step /\ pc # "drop" /\ Hands /\ p \in Proc
        BY <1>4, <1>8 DEF Step, Steady, Proc
      <4>3. worker' = worker /\ applied' = applied /\ proc'[p] = Turned(p, pc)
        BY <1>8, <4>1, HandlerGoes
      <4>4. Turned(p, pc).pc = pc
        BY <4>2, TurnedFacts
      <4>. QED
        BY <1>8, <4>2, <4>3, <4>4
    <3>2. CASE proc' = [proc EXCEPT ![p] = k] /\ applied' = applied
      <4>1. worker' = worker /\ proc'["mark"] = k
        BY <1>8, <3>2, OtherGoes
      <4>. QED
        BY <1>a, <3>2, <4>1
    <3>. QED
      BY <1>5, <3>1, <3>2
  <2>2. proc["mark"].pc # "drop"
    BY <1>1, <1>8
  <2>3. \A x \in Order : x \notin indexed' => Kept(x) /\ (x \in marked' => x \in marked \/ orders[x] # NoRow)
    BY <1>1, <1>6, <2>1, <2>2 DEF Kept, Dropping
  <2>. QED
    BY <1>1, <2>1, <2>3, JoinedKept
<1>. QED
  BY <1>7, <1>8

(* An actor that archives an order has it past its creation. *)
LEMMA Archives ==
  ASSUME Steady, Joined, NEW p \in {"apply", "mark"}, proc[p].pc \in {"unlink", "drop"},
         NEW o \in Order \ indexed, proc[p].ev.order = o
  PROVE  /\ past[applied + 1][o] # NoRow \/ (worker.pc = "tell" /\ worker.ev.order = o)
         /\ ~ (worker.pc = "put" /\ worker.ev.order = o)
<1>1. CASE p = "apply"
  <2>1. worker.pc \in {"unlink", "drop"} /\ worker.ev.order = o
    BY <1>1 DEF worker
  <2>2. worker.ev.kind \notin {"created", "executed"}
    BY <2>1 DEF Steady, Worker
  <2>. QED
    BY <2>1, <2>2, BornFacts
<1>2. CASE p = "mark"
  <2>1. o \in marked
    BY <1>2 DEF Steady, Handlers
  <2>2. past[applied + 1][o] # NoRow \/ (worker.pc = "tell" /\ worker.ev.order = o)
    BY <2>1 DEF Joined, Unborn
  <2>3. worker.pc = "put" /\ worker.ev.order = o => past[applied + 1][o] = NoRow
    BY BornFacts DEF Steady, Worker
  <2>. QED
    BY <2>2, <2>3
<1>. QED
  BY <1>1, <1>2

(* The id goes first, by the worker or by mark_cancelled, then the order. *)
LEMMA JoinedUnlink ==
  ASSUME Steady, Joined, NEW p \in {"apply", "mark"}, Unlink(p) \/ Drop(p)
  PROVE  Joined'
<1>1. /\ proc[p].pc \in {"unlink", "drop"} /\ proc[p].pc # "idle" /\ UNCHANGED <<log, past, marked, indexed>>
  BY DEF Unlink, Drop, requests
<1>2. PICK o : o = proc[p].ev.order
  OBVIOUS
<1>3. o \in Order /\ orders \in [Order -> Row]
  BY <1>1, <1>2, HandFacts, TypeFacts
<1>. DEFINE pc == IF proc[p].pc = "unlink" THEN "drop" ELSE Rest(p)
<1>4. /\ Goto(p, pc) /\ pc \in Step /\ (pc = "drop" <=> proc[p].pc = "unlink") /\ pc # "put"
      /\ (p = "apply" => pc # "idle")
  BY <1>1, RestFacts DEF Unlink, Drop, Step
<1>5. /\ proc[p].pc = "unlink" => orders' = orders /\ byId' = byId \ {o}
      /\ proc[p].pc = "drop" => orders' = [orders EXCEPT ![o] = NoRow] /\ byId' = byId
  BY <1>1, <1>2 DEF Unlink, Drop
<1>. HIDE DEF pc
<1>6. /\ applied' = applied /\ (p = "mark" => worker' = worker)
      /\ p = "apply" => /\ worker'.pc = pc /\ worker'.ev = worker.ev /\ worker.pc = proc[p].pc
                        /\ worker.ev = proc[p].ev /\ proc'["mark"] = proc["mark"]
      /\ proc'[p].pc = pc /\ (pc # "idle" => proc'[p].ev.order = o)
  <2>1. CASE p = "apply"
    <3>1. worker = proc[p] /\ worker' = proc'[p]
      BY <2>1 DEF worker
    <3>2. worker'.pc = pc /\ worker'.ev = worker.ev /\ applied' = applied /\ proc'["mark"] = proc["mark"]
      BY <1>1, <1>4, <2>1, <3>1, WorkerGoes
    <3>. QED
      BY <1>2, <2>1, <3>1, <3>2
  <2>2. CASE p = "mark"
    <3>1. worker' = worker /\ applied' = applied /\ proc'[p] = Turned(p, pc) /\ Hands /\ p \in Proc
      BY <1>4, <2>2, HandlerGoes DEF Steady, Proc
    <3>2. Turned(p, pc).pc = pc /\ (pc # "idle" => Turned(p, pc).ev = proc[p].ev)
      BY <1>4, <3>1, TurnedFacts
    <3>. QED
      BY <1>2, <2>2, <3>1, <3>2
  <2>. QED
    BY <2>1, <2>2
<1>7. ASSUME NEW x \in Order, x \notin indexed'
      PROVE  Unborn(x)' /\ Paired(x)'
  <2>1. Unborn(x) /\ Paired(x) /\ x \in Order \ indexed
    BY <1>1, <1>7 DEF Joined
  <2>2. past'[applied' + 1][x] = past[applied + 1][x] /\ marked' = marked
    BY <1>1, <1>6
  <2>3. CASE x # o
    <3>1. orders'[x] = orders[x] /\ (x \in byId' <=> x \in byId)
      BY <1>1, <1>3, <1>5, <2>3
    <3>2. CASE p = "apply"
      BY <1>1, <1>2, <1>4, <1>6, <2>1, <2>2, <2>3, <3>1, <3>2 DEF Unborn, Paired, Dropping, worker
    <3>3. CASE p = "mark"
      BY <1>1, <1>2, <1>4, <1>6, <2>1, <2>2, <2>3, <3>1, <3>3 DEF Unborn, Paired, Dropping, worker
    <3>. QED
      BY <3>2, <3>3
  <2>4. CASE x = o
    <3>1. /\ past[applied + 1][o] # NoRow \/ (worker.pc = "tell" /\ worker.ev.order = o)
          /\ ~ (worker.pc = "put" /\ worker.ev.order = o)
      BY <1>1, <1>2, <2>1, <2>4, Archives
    <3>2. Unborn(x)'
      BY <1>1, <1>6, <2>2, <2>4, <3>1 DEF Unborn
    <3>3. x \notin byId' /\ (proc[p].pc = "drop" => orders'[x] = NoRow)
      BY <1>1, <1>2, <1>3, <1>5, <2>1, <2>4 DEF Paired, Dropping
    <3>4. proc[p].pc = "unlink" => proc'[p].pc = "drop" /\ proc'[p].ev.order = x
      BY <1>4, <1>6, <2>4
    <3>5. Paired(x)'
      BY <1>1, <3>3, <3>4 DEF Paired, Dropping
    <3>. QED
      BY <3>2, <3>5
  <2>. QED
    BY <2>3, <2>4
<1>. QED
  BY <1>7 DEF Joined

(* Joined is inductive, given Steady. *)
LEMMA JoinedStep ==
  ASSUME Steady, Joined, [Next]_vars
  PROVE  Joined'
<1>1. CASE UNCHANGED vars
  <2>1. /\ worker' = worker /\ applied' = applied /\ past' = past /\ indexed' = indexed
        /\ UNCHANGED <<orders, byId, marked>> /\ proc'["mark"] = proc["mark"]
    BY <1>1 DEF vars, requests, worker, index
  <2>. QED
    BY <2>1, JoinedQuiet
<1>2. CASE \E o \in Order : NodeStep(o)
  BY <1>2, JoinedNode
<1>3. CASE \E p \in {"apply", "reader"} : Fetch(p) \/ Install(p)
  BY <1>3, JoinedFetch, JoinedRequests DEF Asking
<1>4. CASE \E p \in {"apply", "index"} : Insert(p) \/ Put(p)
  BY <1>4, JoinedInsert, JoinedPut, JoinedIndexer
<1>5. CASE \E p \in {"apply", "mark"} : Lookup(p) \/ Modify(p) \/ Unlink(p) \/ Drop(p)
  BY <1>5, JoinedModify, JoinedUnlink
<1>6. CASE Tell
  <2>1. /\ worker.pc = "tell" /\ worker.pc # "idle" /\ Goto("apply", "idle")
        /\ UNCHANGED <<log, past, marked, indexed>> /\ UNCHANGED <<log, past, marked, indexed, orders, byId>>
    BY <1>6 DEF Tell, worker, requests, index
  <2>2. worker'.pc = "idle" /\ applied' = applied + 1 /\ proc'["mark"] = proc["mark"]
    BY <2>1, WorkerGoes DEF Step
  <2>3. applied < Len(log) /\ worker.ev = log[applied + 1]
    BY <2>1, WorkerFacts
  <2>. QED
    BY <2>1, <2>2, <2>3, JoinedDone
<1>. QED
  BY <1>1, <1>2, <1>3, <1>4, <1>5, <1>6, JoinedTake, JoinedFetch, JoinedRequests, Zenon DEF Next, Asking
-----------------------------------------------------------------------------
(* BookExact is an invariant. *)

(* The node's book from one event to the next, with whatever is in the level besides. *)
LEMMA LevelSteps ==
  ASSUME TypeOK, ChainSound, NEW k \in 0..Len(log) - 1, NEW l \in Nat, NEW e, e = log[k + 1]
  PROVE  /\ ChainLevel(k) \in Nat /\ ChainLevel(k + 1) \in Nat
         /\ e.kind # "executed" => LevelAfter(ChainLevel(k) + l, e) = ChainLevel(k + 1) + l
         /\ e.kind = "executed" => ChainLevel(k + 1) = ChainLevel(k)
         /\ e.kind = "created" => ChainLevel(k + 1) = ChainLevel(k) + NewSize
<1>0. /\ Len(log) \in Nat /\ k \in 0..Len(log) /\ k + 1 \in 0..Len(log) /\ (k + 1) + 1 = k + 2
      /\ NewSize \in Nat
  BY LogFacts, OrderBoundsAssumption
<1>1. ChainLevel(k) \in Nat /\ ChainLevel(k + 1) \in Nat
  BY <1>0, ChainLevelNat
<1>. DEFINE x == e.order
            r == past[k + 1][x]
            s == past[k + 2][x]
            f == [o \in Order |-> Remaining(past[k + 1][o])]
            g == [o \in Order |-> Remaining(past[k + 2][o])]
<1>2. /\ e \in Event /\ x \in Order /\ RowSound(r) /\ Emits(r, e, s)
      /\ \A o \in Order : RowSound(past[k + 1][o]) /\ RowSound(past[k + 2][o])
      /\ \A o \in Order : o # x => past[k + 2][o] = past[k + 1][o]
  BY StepFacts
<1>3. f \in [Order -> Nat] /\ g \in [Order -> Nat] /\ f[x] = Remaining(r) /\ g[x] = Remaining(s)
      /\ \A o \in Order \ {x} : f[o] = g[o]
  BY <1>2, RemainingNat
<1>4. ChainLevel(k) = SumFunction(f) /\ ChainLevel(k + 1) = SumFunction(g)
  BY <1>0 DEF ChainLevel
<1>. HIDE DEF f, g, x
<1>. HIDE DEF r, s
<1>a. /\ f \in [Order -> Nat] /\ g \in [Order -> Nat] /\ x \in Order /\ IsFiniteSet(Order)
      /\ \A o \in Order \ {x} : f[o] = g[o]
  BY <1>2, <1>3, OrderAssumption
<1>5. PICK rest \in Nat : SumFunction(f) = f[x] + rest /\ SumFunction(g) = g[x] + rest
  <2>1. SumsDiffer(f, g, x)
    BY <1>a, SumDiffers
  <2>. QED
    BY <2>1 DEF SumsDiffer
<1>6. Remaining(r) \in Nat /\ Remaining(s) \in Nat
  BY <1>2, <1>3
<1>7. ChainLevel(k) = Remaining(r) + rest /\ ChainLevel(k + 1) = Remaining(s) + rest
  BY <1>3, <1>4, <1>5
<1>8. ChainLevel(k) + l \in Nat /\ ChainLevel(k) + l >= Remaining(r)
  BY <1>1, <1>6, <1>7
<1>9. /\ e.kind # "executed" => LevelAfter(ChainLevel(k) + l, e) = ((ChainLevel(k) + l) - Remaining(r)) + Remaining(s)
      /\ e.kind = "executed" => Remaining(r) = 0 /\ Remaining(s) = 0
      /\ e.kind = "created" => Remaining(r) = 0 /\ Remaining(s) = NewSize
  <2>. DEFINE L == ChainLevel(k) + l
  <2>1. L \in Nat /\ L >= Remaining(r)
    BY <1>8
  <2>. HIDE DEF L
  <2>2. /\ e.kind # "executed" => LevelAfter(L, e) = (L - Remaining(r)) + Remaining(s)
        /\ e.kind = "executed" => Remaining(r) = 0 /\ Remaining(s) = 0
        /\ e.kind = "created" => Remaining(r) = 0 /\ Remaining(s) = NewSize
    BY <1>2, <2>1, EmitsLevel
  <2>. QED
    BY <2>2 DEF L
<1>. QED
  BY <1>0, <1>1, <1>6, <1>7, <1>9

(* The orders announced ahead of their event. *)
LEMMA EarlyCount ==
  ASSUME Steady, NEW o \in Order
  PROVE  /\ Cardinality(early) \in Nat /\ NewSize * Cardinality(early) \in Nat
         /\ o \in early => NewSize * Cardinality(early) = NewSize * Cardinality(early \ {o}) + NewSize
         /\ o \in early => NewSize * Cardinality(early \ {o}) \in Nat
         /\ o \notin early => NewSize * Cardinality(early \union {o}) = NewSize * Cardinality(early) + NewSize
<1>0. NewSize \in Nat /\ \A c \in Nat : NewSize * c \in Nat /\ NewSize * (c + 1) = NewSize * c + NewSize
  BY OrderBoundsAssumption
<1>1. IsFiniteSet(early)
  BY FS_Subset, OrderAssumption DEF Steady, TypeOK
<1>2. Cardinality(early) \in Nat
  BY <1>1, FS_CardinalityType
<1>3. o \in early => Cardinality(early \ {o}) \in Nat /\ Cardinality(early) = Cardinality(early \ {o}) + 1
  <2>1. IsFiniteSet(early \ {o}) /\ Cardinality(early \ {o}) = IF o \in early THEN Cardinality(early) - 1 ELSE Cardinality(early)
    BY <1>1, FS_RemoveElement
  <2>2. Cardinality(early \ {o}) \in Nat
    BY <2>1, FS_CardinalityType
  <2>. QED
    BY <1>2, <2>1, <2>2
<1>4. o \notin early => Cardinality(early \union {o}) = Cardinality(early) + 1
  BY <1>1, FS_AddElement
<1>. QED
  BY <1>0, <1>2, <1>3, <1>4

(* BookExact holds initially. *)
LEMMA BookInit ==
  ASSUME Init
  PROVE  BookExact
<1>. DEFINE f == [o \in Order |-> Remaining(past[0 + 1][o])]
<1>1. past[0 + 1] = [o \in Order |-> NoRow]
  BY DEF Init
<1>2. f \in [Order -> Nat] /\ \A o \in Order : f[o] = 0
  BY <1>1, NoRowFacts DEF Remaining
<1>3. ChainLevel(0) = SumFunction(f)
  BY DEF ChainLevel
<1>. HIDE DEF f
<1>4. ChainLevel(0) = 0
  BY <1>2, <1>3, SumZero, OrderAssumption
<1>5. Cardinality({}) = 0 /\ NewSize \in Nat
  BY FS_EmptySet, OrderBoundsAssumption
<1>6. level = 0 /\ bookAt = 0 /\ early = {}
  BY DEF Init
<1>. QED
  BY <1>4, <1>5, <1>6 DEF BookExact

(* Steps that leave the level alone keep it. *)
LEMMA BookStays ==
  ASSUME Steady, BookExact, UNCHANGED <<level, bookAt, early, skew>>, past'[bookAt + 1] = past[bookAt + 1]
  PROVE  BookExact'
<1>1. ChainLevel(bookAt)' = ChainLevel(bookAt)
  BY DEF ChainLevel
<1>. QED
  BY <1>1 DEF BookExact

(* An event that does not touch the level is passed. *)
LEMMA BookTake ==
  ASSUME Steady, BookExact, Skip \/ Take \/ TakeExecuted
  PROVE  BookExact'
<1>0. TypeOK /\ ChainSound
  BY SteadyChain
<1>1. /\ worker.pc = "idle" /\ applied < Len(log) /\ past' = past /\ log' = log
  BY DEF Skip, Take, TakeExecuted, worker
<1>2. bookAt = applied /\ applied \in 0..Len(log) - 1
  BY <1>0, <1>1, LogFacts DEF Steady, BookAt
<1>. DEFINE e == log[applied + 1]
            x == NewSize * Cardinality(early)
<1>3. e \in Event /\ e.order \in Order
  BY <1>1, EventFacts
<1>4. x \in Nat
  BY <1>3, EarlyCount
<1>5. /\ ChainLevel(applied) \in Nat /\ ChainLevel(applied + 1) \in Nat
      /\ e.kind = "executed" => ChainLevel(applied + 1) = ChainLevel(applied)
      /\ e.kind = "created" => ChainLevel(applied + 1) = ChainLevel(applied) + NewSize
  BY <1>0, <1>2, <1>4, LevelSteps
<1>6. ~ skew => level = ChainLevel(applied) + x
  BY <1>2 DEF BookExact
<1>7. \A k : ChainLevel(k)' = ChainLevel(k)
  BY <1>1 DEF ChainLevel
<1>8. CASE Take
  <2>1. UNCHANGED <<level, bookAt, early, skew>>
    BY <1>8 DEF Take, book
  <2>. QED
    BY <1>1, <2>1, BookStays
<1>9. CASE TakeExecuted
  <2>1. UNCHANGED <<level, early, skew>> /\ bookAt' = applied + 1 /\ e.kind = "executed"
    BY <1>2, <1>9 DEF TakeExecuted
  <2>. QED
    BY <1>5, <1>6, <1>7, <2>1 DEF BookExact
<1>10. CASE Skip
  <2>1. /\ Known(e) /\ early' = early \ {e.order} /\ level' = level /\ bookAt' = applied + 1
        /\ ~ skew' => ~ skew /\ (e.kind = "created" => e.order \in early)
    BY <1>2, <1>10 DEF Skip
  <2>2. CASE e.kind = "created"
    <3>1. ~ skew' => ~ skew /\ e.order \in early
      BY <2>1, <2>2
    <3>2. e.order \in early => /\ x = NewSize * Cardinality(early') + NewSize
                               /\ NewSize * Cardinality(early') \in Nat
      BY <1>3, <2>1, EarlyCount
    <3>3. NewSize \in Nat
      BY OrderBoundsAssumption
    <3>4. ~ skew' => level' = ChainLevel(applied + 1) + NewSize * Cardinality(early')
      BY <1>5, <1>6, <2>1, <2>2, <3>1, <3>2, <3>3
    <3>. QED
      BY <1>7, <2>1, <3>4 DEF BookExact
  <2>3. CASE e.kind = "executed"
    <3>1. e.order \notin early
      <4>. SUFFICES ASSUME e.order \in early PROVE FALSE
        OBVIOUS
      <4>1. PICK j \in 1..Len(log) : log[j].kind = "created" /\ log[j].order = e.order
        BY DEF Steady, EarlyCreated, CreatedBy
      <4>2. applied + 1 \in 1..Len(log)
        BY <1>2, <1>0, LogFacts
      <4>3. j = applied + 1
        BY <1>0, <2>3, <4>1, <4>2, CreatedOnce
      <4>. QED
        BY <2>3, <4>1, <4>3
    <3>2. early' = early
      BY <2>1, <3>1
    <3>3. ~ skew' => level' = ChainLevel(applied + 1) + NewSize * Cardinality(early')
      BY <1>5, <1>6, <2>1, <2>3, <3>2
    <3>. QED
      BY <1>7, <2>1, <3>3 DEF BookExact
  <2>. QED
    BY <2>1, <2>2, <2>3 DEF Known
<1>. QED
  BY <1>8, <1>9, <1>10

(* The apply worker changes the level as the node has. *)
LEMMA BookChanges ==
  ASSUME Steady, BookExact, Book
  PROVE  BookExact'
<1>0. TypeOK /\ ChainSound
  BY SteadyChain
<1>. DEFINE e == worker.ev
            x == NewSize * Cardinality(early)
<1>1. /\ worker.pc = "book" /\ worker.pc # "idle" /\ worker.pc \in Before
      /\ past' = past /\ level' = LevelAfter(level, e) /\ bookAt' = bookAt + 1 /\ early' = early
      /\ ~ skew' => ~ skew
  BY DEF Book, worker, Before
<1>2. /\ bookAt = applied /\ e = log[applied + 1] /\ e \in Event /\ e.kind # "executed" /\ applied < Len(log)
  BY <1>1, WorkerFacts DEF Steady, BookAt, Worker, Before
<1>3. applied \in 0..Len(log) - 1 /\ e.order \in Order
  BY <1>0, <1>2, LogFacts DEF Event
<1>4. x \in Nat
  BY <1>3, EarlyCount
<1>. HIDE DEF e, x
<1>5. LevelAfter(ChainLevel(applied) + x, e) = ChainLevel(applied + 1) + x
  BY <1>0, <1>2, <1>3, <1>4, LevelSteps
<1>6. ~ skew' => level' = ChainLevel(applied + 1) + x
  BY <1>1, <1>2, <1>5 DEF BookExact, x
<1>7. ChainLevel(bookAt)' = ChainLevel(applied + 1)
  BY <1>1, <1>2 DEF ChainLevel
<1>. QED
  BY <1>1, <1>6, <1>7 DEF BookExact, x

(* index_from_event changes it ahead of its event, which is noted in early or *)
(* skew.                                                                      *)
LEMMA BookIndexed ==
  ASSUME Steady, BookExact, IndexBook
  PROVE  BookExact'
<1>. DEFINE e == proc["index"].ev
<1>1. /\ proc["index"].pc = "book" /\ past' = past /\ level' = LevelAfter(level, e) /\ bookAt' = bookAt
      /\ ~ skew' => ~ skew /\ e.order \notin early /\ early' = early \union {e.order}
  BY DEF IndexBook
<1>2. e \in Event /\ e.kind = "created" /\ e.size = NewSize /\ e.order \in Order
  BY <1>1 DEF Steady, Hands, Handlers, Event
<1>3. level' = level + NewSize
  BY <1>1, <1>2 DEF LevelAfter
<1>4. /\ e.order \notin early => NewSize * Cardinality(early \union {e.order}) = NewSize * Cardinality(early) + NewSize
      /\ NewSize * Cardinality(early) \in Nat
  BY <1>2, EarlyCount
<1>5. ChainLevel(bookAt)' = ChainLevel(bookAt)
  BY <1>1 DEF ChainLevel
<1>6. ChainLevel(bookAt) \in Nat /\ NewSize \in Nat
  <2>1. bookAt \in 0..Len(log)
    <3>1. TypeOK /\ Len(log) \in Nat /\ applied \in Nat /\ applied <= Len(log)
      BY SteadyChain, LogFacts
    <3>2. bookAt = applied \/ (bookAt = applied + 1 /\ applied < Len(log))
      BY DEF Steady, BookAt, Worker
    <3>. QED
      BY <3>1, <3>2
  <2>. QED
    BY <2>1, SteadyChain, ChainLevelNat, OrderBoundsAssumption
<1>7. ASSUME ~ skew' PROVE level' = ChainLevel(bookAt) + NewSize * Cardinality(early')
  <2>1. level = ChainLevel(bookAt) + NewSize * Cardinality(early)
    BY <1>1, <1>7 DEF BookExact
  <2>2. NewSize * Cardinality(early') = NewSize * Cardinality(early) + NewSize
    BY <1>1, <1>4, <1>7
  <2>. QED
    BY <1>3, <1>4, <1>6, <2>1, <2>2
<1>. QED
  BY <1>5, <1>7 DEF BookExact

(* A book of the node is installed: exact at its own height, else skew is *)
(* set.                                                                   *)
LEMMA BookInstalled ==
  ASSUME Steady, BookExact, NEW p \in {"apply", "reader"}, Fetch(p) \/ Install(p)
  PROVE  BookExact'
<1>1. CASE Fetch(p)
  <2>1. UNCHANGED <<level, bookAt, early, skew>> /\ past' = past
    BY <1>1 DEF Fetch, book
  <2>. QED
    BY <2>1, BookStays
<1>2. CASE Install(p)
  <2>1. /\ level' = ChainLevel(proc[p].at) /\ past' = past /\ bookAt' = bookAt /\ early' = early
        /\ ~ skew' => proc[p].at = bookAt /\ early = {}
    BY <1>2 DEF Install
  <2>2. ChainLevel(bookAt)' = ChainLevel(bookAt)
    BY <2>1 DEF ChainLevel
  <2>3. proc[p].at \in 0..Len(log)
    BY SteadyChain DEF Hands, Proc
  <2>4. ChainLevel(proc[p].at) \in Nat
    BY <2>3, SteadyChain, ChainLevelNat
  <2>5. NewSize * Cardinality({}) = 0
    BY FS_EmptySet, OrderBoundsAssumption
  <2>6. ~ skew' => level' = ChainLevel(bookAt) + NewSize * Cardinality(early')
    BY <2>1, <2>4, <2>5
  <2>. QED
    BY <2>2, <2>6 DEF BookExact
<1>. QED
  BY <1>1, <1>2

(* BookExact is inductive, given Steady. *)
LEMMA BookStep ==
  ASSUME Steady, BookExact, [Next]_vars
  PROVE  BookExact'
<1>1. CASE UNCHANGED <<past, book>>
  <2>1. UNCHANGED <<level, bookAt, early, skew>> /\ past' = past
    BY <1>1 DEF book
  <2>. QED
    BY <2>1, BookStays
<1>2. CASE \E o \in Order : NodeStep(o)
  <2>1. UNCHANGED <<applied, proc, book, index, holding, requests>> /\ \A k \in 1..Len(past) : past'[k] = past[k]
    BY <1>2, NodeGoesOn
  <2>2. bookAt + 1 \in 1..Len(past)
    <3>1. TypeOK /\ Len(log) \in Nat /\ applied \in Nat /\ applied <= Len(log) /\ Len(past) = Len(log) + 1
      BY SteadyChain, LogFacts
    <3>2. bookAt = applied \/ (bookAt = applied + 1 /\ applied < Len(log))
      BY DEF Steady, BookAt, Worker
    <3>. QED
      BY <3>1, <3>2
  <2>3. UNCHANGED <<level, bookAt, early, skew>>
    BY <2>1 DEF book
  <2>. QED
    BY <2>1, <2>2, <2>3, BookStays
<1>3. CASE UNCHANGED vars
  BY <1>1, <1>3 DEF vars
<1>4. CASE \/ Read \/ Holding \/ Tell
           \/ \E o \in Order, b \in BOOLEAN, st \in {"open", "filled"} :
                IndexRequest(o, b, st, IF st = "open" THEN 0 ELSE NewSize)
           \/ \E p \in {"apply", "index"} : Insert(p) \/ Put(p)
           \/ \E o \in Order : MarkRequest(o)
           \/ \E p \in {"apply", "mark"} : Lookup(p) \/ Modify(p) \/ Unlink(p) \/ Drop(p)
  <2>1. UNCHANGED <<past, book>>
    BY <1>4 DEF Read, Holding, Tell, IndexRequest, Insert, Put, MarkRequest, Lookup, Modify, Unlink, Drop
  <2>. QED
    BY <1>1, <2>1
<1>. QED
  BY <1>2, <1>3, <1>4, BookTake, BookChanges, BookIndexed, BookInstalled, Zenon DEF Next
-----------------------------------------------------------------------------
(* Credited is an invariant. *)

(* One event more adds its amount. *)
LEMMA TotalMore ==
  ASSUME TypeOK, NEW K \in SUBSET (1..Len(log)), NEW k \in 1..Len(log), k \notin K
  PROVE  Total(K) \in Nat /\ Total(K \union {k}) = Total(K) + log[k].amt /\ log[k].amt \in Nat
<1>. DEFINE S == K \union {k}
            f == [j \in S |-> log[j].amt]
            g == [j \in K |-> log[j].amt]
<1>0. Len(log) \in Nat /\ \A j \in 1..Len(log) : log[j].amt \in Nat
  BY LogFacts
<1>1. IsFiniteSet(K) /\ IsFiniteSet(S)
  <2>1. IsFiniteSet(1..Len(log))
    BY <1>0, FS_Interval
  <2>. QED
    BY <2>1, FS_Subset
<1>2. f \in [S -> Nat] /\ k \in S /\ g = Without(f, S, k) /\ f[k] = log[k].amt
  BY <1>0 DEF Without
<1>3. Total(S) = SumFunction(f) /\ Total(K) = SumFunction(g)
  BY DEF Total
<1>. HIDE DEF S, f, g
<1>4. SplitOff(f, S, k)
  BY <1>1, <1>2, SumSplit
<1>5. SumFunction(g) \in Nat /\ SumFunction(f) = log[k].amt + SumFunction(g)
  BY <1>2, <1>4 DEF SplitOff
<1>. QED
  BY <1>0, <1>3, <1>5 DEF S

(* The total of some events is a natural number. *)
LEMMA TotalNat ==
  ASSUME TypeOK, NEW K \in SUBSET (1..Len(log))
  PROVE  Total(K) \in Nat
<1>. DEFINE g == [j \in K |-> log[j].amt]
<1>0. Len(log) \in Nat /\ \A j \in 1..Len(log) : log[j].amt \in Nat
  BY LogFacts
<1>1. IsFiniteSet(K)
  <2>1. IsFiniteSet(1..Len(log))
    BY <1>0, FS_Interval
  <2>. QED
    BY <2>1, FS_Subset
<1>2. g \in [K -> Nat] /\ Total(K) = SumFunction(g)
  BY <1>0 DEF Total
<1>. HIDE DEF g
<1>. QED
  BY <1>1, <1>2, SumNat

(* Credited holds initially. *)
LEMMA CreditedInit ==
  ASSUME Init
  PROVE  Credited
<1>1. worker.pc = "idle" /\ holding = 0 /\ applied = 0
  BY IdleFacts DEF Init, worker, Proc
<1>2. Fills = {} /\ LastFills = {}
  BY <1>1 DEF Fills, LastFills
<1>3. [k \in {} |-> log[k].amt] \in [{} -> Nat]
  OBVIOUS
<1>4. Total({}) = 0
  BY <1>3, SumEmpty DEF Total
<1>5. Ahead = 0
  BY <1>1 DEF Ahead
<1>. QED
  BY <1>1, <1>2, <1>4, <1>5 DEF Credited

(* Steps that neither credit nor end an event keep it. *)
LEMMA CreditedStays ==
  ASSUME Steady, Credited, UNCHANGED <<holding, applied>>, \A k \in 1..applied : log'[k] = log[k],
         Ahead' = Ahead, marked \subseteq marked', indexed \subseteq indexed'
  PROVE  Credited'
<1>1. Fills' = Fills /\ Fills \subseteq 1..applied
  BY DEF Fills
<1>2. LastFills' = LastFills /\ LastFills \subseteq 1..applied
  BY <1>1 DEF LastFills
<1>3. ASSUME NEW K \in SUBSET (1..applied)
      PROVE  [k \in K |-> log'[k].amt] = [k \in K |-> log[k].amt]
  BY <1>3
<1>4. Total(Fills)' = Total(Fills) /\ Total(LastFills)' = Total(LastFills)
  BY <1>1, <1>2, <1>3 DEF Total
<1>. QED
  BY <1>4 DEF Credited

(* Ahead is about the worker that is telling. *)
LEMMA NotAhead ==
  ASSUME Steady, UNCHANGED <<holding, applied>>, log' = log, marked \subseteq marked', indexed \subseteq indexed', Credited,
         \/ worker' = worker
         \/ worker.pc # "tell" /\ ~ (worker'.pc = "tell" /\ worker'.ev.kind = "filled")
  PROVE  Credited'
<1>1. Ahead' = Ahead
  BY DEF Ahead
<1>2. UNCHANGED <<holding, applied>> /\ \A k \in 1..applied : log'[k] = log[k]
  OBVIOUS
<1>. QED
  BY <1>1, <1>2, CreditedStays

(* The worker is done with an event. *)
LEMMA CreditedDone ==
  ASSUME Steady, Credited, applied < Len(log), applied' = applied + 1, worker'.pc = "idle",
         UNCHANGED <<log, holding, marked, indexed>>,
         \/ worker.pc = "idle" /\ log[applied + 1].kind # "filled"
         \/ worker.pc = "tell" /\ worker.ev = log[applied + 1]
  PROVE  Credited'
<1>. DEFINE n == applied + 1
            e == log[n]
<1>0. /\ TypeOK /\ applied \in Nat /\ Len(log) \in Nat /\ n \in 1..Len(log) /\ n \notin 1..applied
      /\ 1..n = (1..applied) \union {n} /\ 1..applied \subseteq 1..Len(log)
  BY SteadyChain, LogFacts
<1>1. Fills \subseteq 1..applied /\ LastFills \subseteq 1..applied
  BY DEF Fills, LastFills
<1>2. Fills' = IF e.kind = "filled" THEN Fills \union {n} ELSE Fills
  BY <1>0 DEF Fills
<1>3. LastFills' = IF e.kind = "filled" /\ e.left = 0 THEN LastFills \union {n} ELSE LastFills
  BY <1>2, <1>0, <1>1 DEF LastFills
<1>4. Total(Fills)' = Total(Fills') /\ Total(LastFills)' = Total(LastFills')
  BY DEF Total
<1>. HIDE DEF n
<1>5. /\ Total(Fills) \in Nat /\ Total(Fills \union {n}) = Total(Fills) + e.amt
      /\ Total(LastFills) \in Nat /\ Total(LastFills \union {n}) = Total(LastFills) + e.amt
      /\ e.amt \in Nat
  BY <1>0, <1>1, TotalMore
<1>6. Ahead' = 0
  BY DEF Ahead
<1>7. Ahead = IF e.kind = "filled" /\ e.left # 0 THEN e.amt ELSE 0
  BY DEF Ahead, n
<1>8. holding \in Nat /\ holding' = holding
  BY TypeFacts
<1>. HIDE DEF e
<1>9. ASSUME marked' = {} /\ indexed' = {}
      PROVE  holding' + Total(LastFills') = Total(Fills') + Ahead'
  <2>1. holding + Total(LastFills) = Total(Fills) + Ahead
    BY <1>9 DEF Credited
  <2>2. CASE e.kind = "filled" /\ e.left = 0
    BY <1>2, <1>3, <1>5, <1>6, <1>7, <1>8, <2>1, <2>2
  <2>3. CASE e.kind = "filled" /\ e.left # 0
    BY <1>2, <1>3, <1>5, <1>6, <1>7, <1>8, <2>1, <2>3
  <2>4. CASE e.kind # "filled"
    BY <1>2, <1>3, <1>5, <1>6, <1>7, <1>8, <2>1, <2>4
  <2>. QED
    BY <2>2, <2>3, <2>4
<1>. QED
  BY <1>4, <1>9 DEF Credited

(* What a lookup by id finds of an order the handlers know nothing of. *)
LEMMA Stored ==
  ASSUME Steady, NEW o \in Order, NEW r, RowSound(r), Place(o) = Wanted(o, r)
  PROVE  stored_order_by_chain_id(o) = IF Hot(r) THEN {r} ELSE {}
<1>1. orders[o] = (IF Hot(r) THEN r ELSE NoRow) /\ byId \intersect {o} = IF Hot(r) THEN {o} ELSE {}
  BY DEF Place, Wanted
<1>2. Hot(r) => r # NoRow
  BY NoRowFacts
<1>. QED
  BY <1>1, <1>2 DEF stored_order_by_chain_id

(* A fill that leaves its order open is credited, the last one is not. *)
LEMMA CreditedHolding ==
  ASSUME Steady, Indexed, Credited, Holding
  PROVE  Credited'
<1>1. worker.pc = "holding" /\ worker.pc # "idle" /\ UNCHANGED <<log, past, marked, indexed>> /\ Goto("apply", "tell")
  BY DEF Holding, worker, requests
<1>2. PICK o : o = worker.ev.order
  OBVIOUS
<1>. DEFINE e == worker.ev
            s == past[applied + 2][o]
<1>3. /\ o \in Order /\ e = log[applied + 1] /\ e \in Event /\ RowSound(past[applied + 1][o]) /\ RowSound(s)
      /\ Emits(past[applied + 1][o], e, s) /\ applied < Len(log) /\ e.kind = "filled"
  BY <1>1, <1>2, WorkerFacts, EventFacts DEF Steady, Worker
<1>4. Hot(s) <=> e.left # 0
  BY <1>3, EmitsTo
<1>5. worker'.pc = "tell" /\ worker'.ev = e /\ applied' = applied
  BY <1>1, WorkerGoes DEF Step
<1>6. Ahead = 0 /\ Ahead' = IF e.left # 0 THEN e.amt ELSE 0
  BY <1>1, <1>3, <1>5 DEF Ahead
<1>7. Fills' = Fills /\ LastFills' = LastFills
  BY <1>1, <1>5 DEF Fills, LastFills
<1>8. Total(Fills)' = Total(Fills) /\ Total(LastFills)' = Total(LastFills)
  BY <1>1, <1>7 DEF Total
<1>9. holding \in Nat /\ e.amt \in Nat /\ Total(Fills) \in Nat /\ Total(LastFills) \in Nat
  <2>1. Fills \subseteq 1..Len(log) /\ LastFills \subseteq 1..Len(log) /\ TypeOK
    BY SteadyChain, LogFacts DEF Fills, LastFills
  <2>2. e.amt \in Nat
    BY <1>3, OrderBoundsAssumption DEF Event
  <2>. QED
    BY <2>1, <2>2, TypeFacts, TotalNat
<1>10. ASSUME marked' = {} /\ indexed' = {}
       PROVE  holding' + Total(LastFills) = Total(Fills) + Ahead'
  <2>1. holding + Total(LastFills) = Total(Fills)
    BY <1>1, <1>6, <1>9, <1>10 DEF Credited
  <2>2. InHand(Place(o), worker, o, past[applied + 1][o], s)
    BY <1>1, <1>2, <1>10, InHandNow
  <2>3. Place(o) = Wanted(o, s)
    BY <1>1, <2>2 DEF InHand
  <2>4. stored_order_by_chain_id(o) = IF Hot(s) THEN {s} ELSE {}
    BY <1>3, <2>3, Stored
  <2>5. holding' = IF stored_order_by_chain_id(o) # {} THEN holding + e.amt ELSE holding
    BY <1>2 DEF Holding, Credit, worker
  <2>6. holding' = IF e.left # 0 THEN holding + e.amt ELSE holding
    BY <1>4, <2>4, <2>5
  <2>. HIDE DEF e
  <2>. QED
    BY <1>6, <1>9, <2>1, <2>6
<1>. QED
  BY <1>8, <1>10 DEF Credited

(* On its way to the portfolio the worker tells nobody of a fill. *)
LEMMA OnTheWay ==
  ASSUME Steady, Touching("apply") \/ Fetch("apply") \/ Install("apply") \/ Book
  PROVE  /\ worker.pc # "tell" /\ ~ (worker'.pc = "tell" /\ worker'.ev.kind = "filled")
         /\ worker'.pc # "idle"
         /\ UNCHANGED <<holding, applied>> /\ UNCHANGED <<log, past, marked, indexed>>
<1>1. /\ worker.pc \notin {"idle", "tell"} /\ UNCHANGED <<log, past, marked, indexed>> /\ holding' = holding
      /\ worker = proc["apply"]
  BY DEF Touching, Insert, Put, Lookup, Modify, Unlink, Drop, Fetch, Install, Book, worker, requests
<1>2. worker.pc \in {"insert", "put"} => worker.ev.kind # "filled"
  BY DEF Steady, Worker
<1>3. worker.pc \in {"lookup", "modify", "unlink", "drop"} =>
        Rest("apply") = IF worker.ev.kind = "filled" THEN "holding" ELSE "tell"
  BY <1>1, RestFacts
<1>4. \/ \E pc \in Step : Goto("apply", pc) /\ pc # "idle" /\ (pc = "tell" => worker.ev.kind # "filled")
      \/ \E k : proc' = [proc EXCEPT !["apply"] = k] /\ applied' = applied /\ k.pc \in {"unlink", "install"}
  <2>1. CASE Insert("apply") \/ Put("apply")
    <3>1. (Goto("apply", "put") \/ Goto("apply", "tell")) /\ worker.pc \in {"insert", "put"}
      BY <1>1, <2>1 DEF Insert, Put, Done
    <3>. QED
      BY <1>2, <3>1 DEF Step
  <2>2. CASE Lookup("apply") \/ Unlink("apply") \/ Drop("apply")
    <3>1. /\ worker.pc \in {"lookup", "modify", "unlink", "drop"}
          /\ Goto("apply", "modify") \/ Goto("apply", "drop") \/ Goto("apply", Rest("apply"))
      BY <1>1, <2>2 DEF Lookup, Unlink, Drop
    <3>. QED
      BY <1>3, <3>1 DEF Step
  <2>3. CASE Modify("apply")
    <3>. DEFINE k == [worker EXCEPT !.pc = "unlink", !.row = Updated(orders[worker.ev.order], worker.ev)]
    <3>1. /\ worker.pc = "modify"
          /\ Goto("apply", Rest("apply")) \/ (proc' = [proc EXCEPT !["apply"] = k] /\ applied' = applied)
      BY <1>1, <2>3 DEF Modify, worker, Steady, Hands, Proc
    <3>2. k.pc = "unlink"
      BY <1>1, HandFacts DEF Hand
    <3>. HIDE DEF k
    <3>3. Rest("apply") \in Step /\ Rest("apply") # "idle" /\ (Rest("apply") = "tell" => worker.ev.kind # "filled")
      BY <1>3, <3>1 DEF Step
    <3>. QED
      BY <3>1, <3>2, <3>3
  <2>4. CASE Fetch("apply") \/ Install("apply") \/ Book
    <3>. DEFINE k == [worker EXCEPT !.pc = "install", !.at = Len(log)]
    <3>1. \/ proc' = [proc EXCEPT !["apply"] = k] /\ applied' = applied
          \/ \E pc \in {"book", "insert", "lookup"} : Goto("apply", pc)
      BY <2>4 DEF Fetch, Install, Book, worker, Steady, Hands, Proc
    <3>2. k.pc = "install"
      BY <1>1, HandFacts DEF Hand
    <3>. HIDE DEF k
    <3>. QED
      BY <3>1, <3>2 DEF Step
  <2>. QED
    BY <2>1, <2>2, <2>3, <2>4 DEF Touching
<1>5. CASE \E pc \in Step : Goto("apply", pc) /\ pc # "idle" /\ (pc = "tell" => worker.ev.kind # "filled")
  BY <1>1, <1>5, WorkerGoes
<1>6. CASE \E k : proc' = [proc EXCEPT !["apply"] = k] /\ applied' = applied /\ k.pc \in {"unlink", "install"}
  BY <1>1, <1>6 DEF worker, Steady, Hands, Proc
<1>. QED
  BY <1>4, <1>5, <1>6

(* An event ends: what it credited is now counted among the applied ones. *)
LEMMA CreditedTake ==
  ASSUME Steady, Credited, Skip \/ Take \/ TakeExecuted \/ Tell
  PROVE  Credited'
<1>1. CASE Skip
  <2>1. /\ worker.pc = "idle" /\ worker' = worker /\ applied < Len(log) /\ applied' = applied + 1
        /\ log[applied + 1].kind # "filled" /\ UNCHANGED <<log, holding, marked, indexed>>
    BY <1>1 DEF Skip, Known, worker, requests
  <2>. QED
    BY <2>1, CreditedDone
<1>2. CASE Take \/ TakeExecuted
  <2>1. /\ worker.pc # "tell" /\ worker'.pc # "tell" /\ UNCHANGED <<holding, applied>> /\ log' = log
        /\ marked' = marked /\ indexed' = indexed
    BY <1>2 DEF Take, TakeExecuted, worker, requests, Steady, Hands, Proc
  <2>. QED
    BY <2>1, NotAhead
<1>3. CASE Tell
  <2>1. /\ worker.pc = "tell" /\ worker.pc # "idle" /\ Goto("apply", "idle") /\ UNCHANGED <<log, past, marked, indexed>>
        /\ UNCHANGED <<log, holding, marked, indexed>>
    BY <1>3 DEF Tell, worker, requests
  <2>2. worker'.pc = "idle" /\ applied' = applied + 1
    BY <2>1, WorkerGoes DEF Step
  <2>3. applied < Len(log) /\ worker.ev = log[applied + 1]
    BY <2>1, WorkerFacts
  <2>. QED
    BY <2>1, <2>2, <2>3, CreditedDone
<1>. QED
  BY <1>1, <1>2, <1>3

(* Credited is inductive, given Steady and Indexed. *)
LEMMA CreditedStep ==
  ASSUME Steady, Indexed, Credited, [Next]_vars
  PROVE  Credited'
<1>1. CASE UNCHANGED vars
  <2>1. worker' = worker /\ UNCHANGED <<holding, applied>> /\ log' = log /\ marked' = marked /\ indexed' = indexed
    BY <1>1 DEF vars, requests, worker
  <2>. QED
    BY <2>1, NotAhead
<1>2. CASE \E o \in Order : NodeStep(o)
  <2>1. UNCHANGED <<applied, proc, book, index, holding, requests>> /\ \A k \in 1..Len(log) : log'[k] = log[k]
    BY <1>2, NodeGoesOn
  <2>2. /\ UNCHANGED <<holding, applied>> /\ Ahead' = Ahead /\ marked' = marked /\ indexed' = indexed
        /\ \A k \in 1..applied : log'[k] = log[k]
    <3>1. 1..applied \subseteq 1..Len(log)
      BY SteadyChain, LogFacts
    <3>. QED
      BY <2>1, <3>1 DEF Ahead, worker, requests
  <2>. QED
    BY <2>2, CreditedStays
<1>3. CASE Asking
  BY <1>3, AskingMoves, NotAhead
<1>4. CASE \/ Touching("mark") \/ Touching("index")
  <2>1. worker' = worker /\ applied' = applied /\ UNCHANGED <<log, past, book, holding, requests>>
    BY <1>4, HandlerStep
  <2>2. UNCHANGED <<holding, applied>> /\ log' = log /\ marked' = marked /\ indexed' = indexed
    BY <2>1 DEF requests
  <2>. QED
    BY <2>1, <2>2, NotAhead
<1>5. CASE Touching("apply") \/ Fetch("apply") \/ Install("apply") \/ Book
  BY <1>5, OnTheWay, NotAhead
<1>6. CASE \E p \in {"apply", "reader"} : Fetch(p) \/ Install(p)
  BY <1>3, <1>5, <1>6 DEF Asking
<1>7. CASE \E p \in {"apply", "index"} : Insert(p) \/ Put(p)
  BY <1>4, <1>5, <1>7 DEF Touching
<1>8. CASE \E p \in {"apply", "mark"} : Lookup(p) \/ Modify(p) \/ Unlink(p) \/ Drop(p)
  BY <1>4, <1>5, <1>8 DEF Touching
<1>. QED
  BY <1>1, <1>2, <1>3, <1>5, <1>6, <1>7, <1>8, CreditedTake, CreditedHolding, Zenon DEF Next, Asking
-----------------------------------------------------------------------------
(* OwnerTold is an invariant. *)

(* What OwnerTold says of the messages t of event e, which left row r. *)
ToldRight(t, e, r) ==
  LET kept == e.kind = "executed" \/ Hot(r)
      trade(a) == IF e.kind \in {"filled", "executed"} /\ e.amt > 0
                   THEN {[to |-> a, amt |-> e.amt]} ELSE {}
  IN  IF t.quiet THEN t.orders = {} /\ t.trades = {}
      ELSE IF kept THEN t.orders = {r} /\ t.trades = trade("owner")
      ELSE /\ t.orders = {}
           /\ IF t.cloid THEN \E a \in Address : t.trades = trade(a) ELSE t.trades = {}

(* OwnerTold, in these words. *)
LEMMA ToldMeans ==
  OwnerTold <=> (applied > 0 /\ worker.pc = "idle" /\ log[applied].order \notin marked \union indexed =>
                   ToldRight(told, log[applied], past[applied + 1][log[applied].order]))
BY DEF OwnerTold, ToldRight, worker

(* The same of the next state. *)
LEMMA ToldMeansNext ==
  OwnerTold' <=> (applied' > 0 /\ worker'.pc = "idle" /\ log'[applied'].order \notin marked' \union indexed' =>
                    ToldRight(told', log'[applied'], past'[applied' + 1][log'[applied'].order]))
BY DEF OwnerTold, ToldRight, worker

(* While the worker is at an event nothing is claimed. *)
LEMMA ToldBusy ==
  ASSUME worker'.pc # "idle"
  PROVE  OwnerTold'
BY ToldMeansNext

(* Nobody but the worker touches what was told. *)
LEMMA ToldStays ==
  ASSUME Steady, OwnerTold, worker' = worker, applied' = applied, told' = told,
         \A k \in 1..Len(log) : log'[k] = log[k], \A k \in 1..Len(past) : past'[k] = past[k],
         marked \subseteq marked', indexed \subseteq indexed'
  PROVE  OwnerTold'
<1>1. TypeOK
  BY DEF Steady
<1>2. applied > 0 => applied \in 1..Len(log) /\ applied + 1 \in 1..Len(past)
  BY <1>1 DEF TypeOK
<1>3. applied > 0 => log'[applied] = log[applied] /\ past'[applied + 1] = past[applied + 1]
  BY <1>2
<1>. QED
  BY <1>3, ToldMeans, ToldMeansNext

(* An event that is skipped is one of an order a handler was called for. *)
LEMMA ToldSkip ==
  ASSUME Steady, Indexed, Skip
  PROVE  OwnerTold'
<1>1. /\ worker.pc = "idle" /\ applied < Len(log) /\ applied' = applied + 1 /\ log' = log
      /\ marked' = marked /\ indexed' = indexed /\ Known(log[applied + 1])
  BY DEF Skip, worker, requests
<1>2. PICK o : o = log[applied + 1].order
  OBVIOUS
<1>3. /\ o \in Order /\ o \in byId /\ past[applied + 1][o] = NoRow
  BY <1>1, <1>2, EventFacts, EmitsFrom DEF Known
<1>4. ASSUME o \notin marked \union indexed PROVE FALSE
  <2>1. Place(o) = Wanted(o, NoRow)
    BY <1>1, <1>3, <1>4 DEF Indexed
  <2>2. byId \intersect {o} = {}
    BY <2>1, NoRowFacts DEF Place, Wanted
  <2>. QED
    BY <1>3, <2>2
<1>. QED
  BY <1>1, <1>2, <1>4, ToldMeansNext

(* Where the order is when the messages are sent decides who is told what. *)
LEMMA ToldNow ==
  ASSUME Steady, Indexed, Tell
  PROVE  OwnerTold'
<1>. DEFINE e == worker.ev
<1>0. /\ worker.pc = "tell" /\ worker.pc # "idle" /\ Goto("apply", "idle") /\ UNCHANGED <<log, past, marked, indexed>>
  BY DEF Tell, worker, requests
<1>1. PICK o : o = e.order
  OBVIOUS
<1>. DEFINE r == past[applied + 2][o]
            kept == e.kind = "executed" \/ Hot(r)
            trade(a) == {[to |-> a, amt |-> e.amt]}
<1>2. /\ o \in Order /\ e = log[applied + 1] /\ e \in Event /\ RowSound(past[applied + 1][o])
      /\ RowSound(r) /\ Emits(past[applied + 1][o], e, r)
  BY <1>0, <1>1, WorkerFacts, EventFacts
<1>3. applied' = applied + 1 /\ applied' + 1 = applied + 2
  BY <1>0, WorkerGoes, SteadyChain, LogFacts DEF Step
<1>. SUFFICES ASSUME o \notin marked \union indexed
              PROVE  ToldRight(told', e, r)
  BY <1>0, <1>1, <1>2, <1>3, ToldMeansNext
<1>4. Place(o) = Wanted(o, r)
  <2>1. InHand(Place(o), worker, o, past[applied + 1][o], r)
    BY <1>0, <1>1, InHandNow
  <2>. QED
    BY <1>0, <2>1 DEF InHand
<1>5. stored_order_by_chain_id(o) = IF Hot(r) THEN {r} ELSE {}
  BY <1>2, <1>4, Stored
<1>6. e.kind = "executed" => worker.row = r
  BY <1>0, <1>2, EmitsTo DEF Steady, Worker
<1>7. e.kind = "filled" => e.amt > 0
  <2>1. e.kind = "filled" => e.amt >= 1
    BY <1>2, EmitsTo
  <2>2. e.amt \in Nat
    BY <1>2, OrderBoundsAssumption DEF Event
  <2>. QED
    BY <2>1, <2>2
<1>8. PICK quiet \in BOOLEAN, cloid \in BOOLEAN, sender \in Address :
        /\ cloid => e.kind = "filled" /\ OrderMessage(e) = {}
        /\ told' = IF quiet THEN [NothingTold EXCEPT !.quiet = TRUE]
                   ELSE [quiet |-> FALSE, cloid |-> cloid, orders |-> OrderMessage(e),
                         trades |-> TradeMessage(e, cloid, sender)]
  BY DEF Tell, worker
<1>. HIDE DEF e, r
<1>9. CASE quiet
  BY <1>8, <1>9 DEF ToldRight, NothingTold
<1>10. CASE ~ quiet
  <2>1. OrderMessage(e) = IF kept THEN {r} ELSE {}
    BY <1>1, <1>5, <1>6 DEF OrderMessage, worker, e
  <2>2. TradeMessage(e, cloid, sender) =
          CASE e.kind = "executed" -> IF e.amt > 0 THEN trade("owner") ELSE {}
            [] e.kind = "filled" -> IF Hot(r) THEN trade("owner") ELSE IF cloid THEN trade(sender) ELSE {}
            [] OTHER -> {}
    BY <1>1, <1>5 DEF TradeMessage
  <2>3. /\ told'.quiet = FALSE /\ told'.cloid = cloid /\ told'.orders = OrderMessage(e)
        /\ told'.trades = TradeMessage(e, cloid, sender)
    BY <1>8, <1>10
  <2>4. CASE e.kind = "executed"
    BY <2>1, <2>2, <2>3, <2>4 DEF ToldRight
  <2>5. CASE e.kind = "filled"
    BY <1>7, <2>1, <2>2, <2>3, <2>5 DEF ToldRight
  <2>6. CASE e.kind \notin {"executed", "filled"}
    BY <1>8, <2>1, <2>2, <2>3, <2>6 DEF ToldRight
  <2>. QED
    BY <2>4, <2>5, <2>6
<1>. QED
  BY <1>9, <1>10

(* OwnerTold is inductive, given Steady and Indexed. *)
LEMMA ToldStep ==
  ASSUME Steady, Indexed, OwnerTold, [Next]_vars
  PROVE  OwnerTold'
<1>1. CASE UNCHANGED vars
  <2>1. /\ worker' = worker /\ applied' = applied /\ told' = told /\ log' = log /\ past' = past
        /\ marked' = marked /\ indexed' = indexed
    BY <1>1 DEF vars, requests, worker
  <2>. QED
    BY <2>1, ToldStays
<1>2. CASE \E o \in Order : NodeStep(o)
  <2>1. /\ UNCHANGED <<applied, proc, book, index, holding, requests>> /\ \A k \in 1..Len(log) : log'[k] = log[k]
        /\ \A k \in 1..Len(past) : past'[k] = past[k]
    BY <1>2, NodeGoesOn
  <2>2. told' = told
    BY <1>2 DEF NodeStep, Emit
  <2>3. worker' = worker /\ applied' = applied /\ marked' = marked /\ indexed' = indexed
    BY <2>1 DEF worker, requests
  <2>. QED
    BY <2>1, <2>2, <2>3, ToldStays
<1>3. CASE Asking
  <2>1. told' = told
    BY <1>3 DEF Asking, Read, Fetch, Install, IndexBook, MarkRequest, IndexRequest
  <2>2. /\ UNCHANGED <<log, past>> /\ marked \subseteq marked' /\ indexed \subseteq indexed'
        /\ worker' = worker /\ applied' = applied
    BY <1>3, AskingMoves
  <2>. QED
    BY <2>1, <2>2, ToldStays
<1>4. CASE \/ Touching("mark") \/ Touching("index")
  <2>1. worker' = worker /\ applied' = applied /\ UNCHANGED <<log, past, book, holding, requests>>
    BY <1>4, HandlerStep
  <2>2. told' = told
    BY <1>4 DEF Touching, Insert, Put, Lookup, Modify, Unlink, Drop
  <2>3. marked' = marked /\ indexed' = indexed /\ log' = log /\ past' = past
    BY <2>1 DEF requests
  <2>. QED
    BY <2>1, <2>2, <2>3, ToldStays
<1>5. CASE Touching("apply") \/ Fetch("apply") \/ Install("apply") \/ Book
  BY <1>5, OnTheWay, ToldBusy
<1>6. CASE \E p \in {"apply", "reader"} : Fetch(p) \/ Install(p)
  BY <1>3, <1>5, <1>6 DEF Asking
<1>7. CASE \E p \in {"apply", "index"} : Insert(p) \/ Put(p)
  BY <1>4, <1>5, <1>7 DEF Touching
<1>8. CASE \E p \in {"apply", "mark"} : Lookup(p) \/ Modify(p) \/ Unlink(p) \/ Drop(p)
  BY <1>4, <1>5, <1>8 DEF Touching
<1>9. CASE Take \/ TakeExecuted
  <2>1. worker'.pc # "idle"
    BY <1>9 DEF Take, TakeExecuted, worker, Steady, Hands, Proc
  <2>. QED
    BY <2>1, ToldBusy
<1>10. CASE Holding
  <2>1. worker.pc = "holding" /\ worker.pc # "idle" /\ UNCHANGED <<log, past, marked, indexed>> /\ Goto("apply", "tell")
    BY <1>10 DEF Holding, worker, requests
  <2>2. worker'.pc = "tell"
    BY <2>1, WorkerGoes DEF Step
  <2>. QED
    BY <2>2, ToldBusy
<1>. QED
  BY <1>1, <1>2, <1>3, <1>5, <1>6, <1>7, <1>8, <1>9, <1>10, ToldSkip, ToldNow, Zenon DEF Next, Asking
-----------------------------------------------------------------------------
(* The theorems. *)

(* What Indexed says of idle times is OrdersExact. *)
LEMMA OrdersSafe ==
  ASSUME Steady, Indexed
  PROVE  OrdersExact
<1>. SUFFICES ASSUME worker.pc = "idle", NEW o \in Order \ (marked \union indexed)
              PROVE  LET r == past[applied + 1][o]
                     IN  /\ orders[o] = IF Hot(r) THEN r ELSE NoRow
                         /\ rows[o] = orders[o]
                         /\ (o \in byId) = Hot(r)
                         /\ Archived(o) = IF r = NoRow \/ Hot(r) THEN {} ELSE {r}
  BY DEF OrdersExact, worker
<1>. DEFINE r == past[applied + 1][o]
<1>1. Place(o) = Wanted(o, r)
  BY DEF Indexed
<1>. HIDE DEF r
<1>2. /\ orders[o] = (IF Hot(r) THEN r ELSE NoRow) /\ rows[o] = (IF Hot(r) THEN r ELSE NoRow)
      /\ byId \intersect {o} = (IF Hot(r) THEN {o} ELSE {})
      /\ Archived(o) = (IF r = NoRow \/ Hot(r) THEN {} ELSE {r})
  BY <1>1 DEF Place, Wanted
<1>3. (o \in byId) <=> Hot(r)
  BY <1>2
<1>4. (o \in byId) = Hot(r)
  BY <1>3 DEF Hot
<1>. QED
  BY <1>2, <1>4 DEF r

(* Joined gives IndexesAgree. *)
LEMMA AgreeSafe ==
  ASSUME Steady, Joined
  PROVE  IndexesAgree
<1>. SUFFICES ASSUME Quiet, NEW o \in Order \ indexed PROVE (o \in byId) = (orders[o] # NoRow)
  BY DEF IndexesAgree
<1>1. proc["apply"].pc = "idle" /\ proc["mark"].pc = "idle"
  BY DEF Quiet, Proc
<1>2. o \in byId <=> orders[o] # NoRow
  BY <1>1 DEF Joined, Paired, Dropping, worker
<1>. QED
  BY <1>2

(* Credited gives the bound on the portfolio. *)
LEMMA HoldingSafe ==
  ASSUME Steady, Credited
  PROVE  HoldingMissesOnlyLastFills
<1>1. worker.pc = "idle" => Ahead = 0
  BY DEF Ahead
<1>2. TypeOK /\ Fills \subseteq 1..Len(log) /\ LastFills \subseteq 1..Len(log)
  BY SteadyChain, LogFacts DEF Fills, LastFills
<1>3. Total(Fills) \in Nat
  BY <1>2, TotalNat
<1>4. marked = {} /\ indexed = {} /\ worker.pc = "idle" => holding + Total(LastFills) = Total(Fills)
  BY <1>1, <1>3 DEF Credited
<1>. QED
  BY <1>4 DEF HoldingMissesOnlyLastFills, Total, worker

(* Steady is an invariant. *)
LEMMA SteadyAlways == Spec => []Steady
<1>1. Init => Steady
  BY SteadyInit
<1>2. Steady /\ [Next]_vars => Steady'
  BY SteadyStep
<1>. QED
  BY <1>1, <1>2, PTL DEF Spec

(* Indexed is an invariant. *)
LEMMA IndexedAlways == Spec => []Indexed
<1>1. Init => Indexed
  BY IndexedInit
<1>2. Steady /\ Indexed /\ [Next]_vars => Indexed'
  BY IndexedStep
<1>. QED
  BY <1>1, <1>2, SteadyAlways, PTL DEF Spec

(* For any orders and sizes: between two events, every order that no HTTP     *)
(* handler was called for is in orders, in orders_by_id and in the tables     *)
(* with the node's row exactly while it is open there, and has one history    *)
(* row afterwards (insert_order, update_order_fill, archive_terminal_order).  *)
THEOREM OrdersCorrect == Spec => []OrdersExact
<1>1. Steady /\ Indexed => OrdersExact
  BY OrdersSafe
<1>. QED
  BY <1>1, SteadyAlways, IndexedAlways, PTL

(* The state keeps its types (no level and no holding below zero), and once   *)
(* nothing is in progress an id is in orders_by_id exactly if its order is in *)
(* orders, however mark_cancelled and the apply worker archived together.     *)
THEOREM IndexCorrect == Spec => []IndexSound
<1>1. Init => Joined
  BY JoinedInit
<1>2. Steady /\ Joined /\ [Next]_vars => Joined'
  BY JoinedStep
<1>3. Steady /\ Joined => IndexSound
  BY AgreeSafe DEF IndexSound, Steady
<1>. QED
  BY <1>1, <1>2, <1>3, SteadyAlways, PTL DEF Spec

(* As long as nothing has put the level out of step, it is the sum of what    *)
(* remains of the open orders at the height it accounts for, plus the orders  *)
(* index_from_event announced ahead of their event (apply_created,            *)
(* apply_filled, apply_updated, apply_cancelled, hydrate_from_chain).         *)
THEOREM LevelCorrect == Spec => []BookExact
<1>1. Init => BookExact
  BY BookInit
<1>2. Steady /\ BookExact /\ [Next]_vars => BookExact'
  BY BookStep
<1>. QED
  BY <1>1, <1>2, SteadyAlways, PTL DEF Spec

(* The portfolio (apply_vault_fill_to_portfolio) misses the fill that ends an *)
(* order and no other.  Of a block applied with publish_ws the owner is told  *)
(* every event with the node's row, except the one that ends a limit order:   *)
(* its trade goes to the sender of the transaction, if the fill has a client  *)
(* id.  Of a quiet block nobody is told anything.                             *)
THEOREM OwnerCorrect == Spec => []OwnerMissesOnlyTheEnd
<1>1. Init => Credited
  BY CreditedInit
<1>2. Steady /\ Indexed /\ Credited /\ [Next]_vars => Credited'
  BY CreditedStep
<1>3. Init => OwnerTold
  BY ToldMeans DEF Init
<1>4. Steady /\ Indexed /\ OwnerTold /\ [Next]_vars => OwnerTold'
  BY ToldStep
<1>5. Steady /\ Credited /\ OwnerTold => OwnerMissesOnlyTheEnd
  BY HoldingSafe DEF OwnerMissesOnlyTheEnd
<1>. QED
  BY <1>1, <1>2, <1>3, <1>4, <1>5, SteadyAlways, IndexedAlways, PTL DEF Spec
=============================================================================
