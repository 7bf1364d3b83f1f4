----------------------------- MODULE ChannelLemmas -----------------------------
(***************************************************************************)
(* Facts about the operators of ChannelState and SimulatedChannel: what an *)
(* addition and a removal do to the sum in flight, and that both preserve *)
(* the funds, the limits and the indexes of a channel.  They speak of      *)
(* values only, so that the proofs about one channel and about the network *)
(* share them.                                                             *)
(***************************************************************************)
EXTENDS SimulatedChannel, FiniteSetTheorems, WellFoundedInduction, TLAPS

\* A channel SimGraph::new accepts.
ValidChannel(c) ==
    /\ c.capacity_msat \in Nat
    /\ c.policy \in [Ends(c) -> ChannelPolicy]
    /\ channel_validate(c)

\* The funds of the channel are the two halves it was created with.
FundsKept(c, sides) == channel_balance(c, sides) = 2 * (c.capacity_msat \div 2)

SidesFinite(c, sides) == \A n \in Ends(c) : IsFiniteSet(DOMAIN sides[n].in_flight)

\* The inductive invariant of one channel.
SidesInv(c, sides, Hash) ==
    /\ SidesTyped(c, sides, Hash)
    /\ SidesFinite(c, sides)
    /\ FundsKept(c, sides)
    /\ WithinLimits(c, sides)
    /\ IndexesDistinct(c, sides)

-----------------------------------------------------------------------------
\* Cardinalities of disjoint finite sets add up.
LEMMA DisjointUnion ==
    ASSUME NEW S, IsFiniteSet(S), NEW T, IsFiniteSet(T), S \cap T = {}
    PROVE  /\ IsFiniteSet(S \cup T)
           /\ Cardinality(S) \in Nat
           /\ Cardinality(S \cup T) = Cardinality(S) + Cardinality(T)
<1>1. /\ IsFiniteSet(S \cup T)
      /\ Cardinality(S \cup T) = Cardinality(S) + Cardinality(T) - Cardinality(S \cap T)
  BY FS_Union, Zenon
<1>2. Cardinality(S) \in Nat /\ Cardinality(T) \in Nat
  BY FS_CardinalityType
<1>3. Cardinality(S \cap T) = 0
  BY FS_EmptySet
<1>4. QED
  BY <1>1, <1>2, <1>3

\* A value of amt units is made of amt pairs.
LEMMA UnitsOfOne ==
    ASSUME NEW h, NEW amt \in Nat
    PROVE  /\ IsFiniteSet({h} \X (1 .. amt))
           /\ Cardinality({h} \X (1 .. amt)) = amt
<1>1. IsFiniteSet(1 .. amt) /\ Cardinality(1 .. amt) = amt
  BY FS_Interval
<1>2. IsFiniteSet({h}) /\ Cardinality({h}) = 1
  BY FS_Singleton
<1>3. QED
  BY <1>1, <1>2, FS_Product

-----------------------------------------------------------------------------
(* Sums over finite sets, SumFunctionOnSet of the library.                 *)

\* The units of the values of f on S: f[x] of them for every x.
Units(f, S) == UNION {{x} \X (1 .. f[x]) : x \in S}

\* Finitely many natural numbers have finitely many units.
LEMMA UnitsFinite ==
    ASSUME NEW f, NEW S, IsFiniteSet(S), \A x \in S : f[x] \in Nat
    PROVE  IsFiniteSet(Units(f, S))
<1> DEFINE of == [x \in S |-> {x} \X (1 .. f[x])]
           T  == {{x} \X (1 .. f[x]) : x \in S}
<1>1. of \in Surjection(S, T)
  BY DEF Surjection
<1>2. IsFiniteSet(T)
  BY <1>1, FS_Surjection, Zenon
<1>3. ASSUME NEW U \in T PROVE IsFiniteSet(U)
  <2>1. PICK x \in S : U = {x} \X (1 .. f[x])
    BY <1>3
  <2>2. QED
    BY <2>1, UnitsOfOne
<1>4. QED
  BY <1>2, <1>3, FS_UNION, Zenon DEF Units

\* One element more has its units more.
LEMMA UnitsMore ==
    ASSUME NEW f, NEW S, IsFiniteSet(S), \A x \in S : f[x] \in Nat, NEW x \in S
    PROVE  /\ Cardinality(Units(f, S \ {x})) \in Nat
           /\ Cardinality(Units(f, S)) = f[x] + Cardinality(Units(f, S \ {x}))
<1>1. Units(f, S) = Units(f, S \ {x}) \cup ({x} \X (1 .. f[x]))
  BY DEF Units
<1>2. Units(f, S \ {x}) \cap ({x} \X (1 .. f[x])) = {}
  BY DEF Units
<1>3. IsFiniteSet(Units(f, S \ {x}))
  <2>1. IsFiniteSet(S \ {x})
    BY FS_RemoveElement
  <2>2. QED BY <2>1, UnitsFinite
<1>4. /\ IsFiniteSet({x} \X (1 .. f[x]))
      /\ Cardinality({x} \X (1 .. f[x])) = f[x]
      /\ f[x] \in Nat
  BY UnitsOfOne
<1>5. /\ Cardinality(Units(f, S \ {x})) \in Nat
      /\ Cardinality(Units(f, S)) = Cardinality(Units(f, S \ {x})) + Cardinality({x} \X (1 .. f[x]))
  BY <1>1, <1>2, <1>3, <1>4, DisjointUnion
<1>6. QED
  BY <1>4, <1>5

(***************************************************************************)
(* Induction over the subsets of a finite set.  The induction theorems of  *)
(* the library take a predicate; here the set B of the subsets that have   *)
(* been reached stands for it, which makes the lemma first-order.          *)
(***************************************************************************)
LEMMA SubsetInduction ==
    ASSUME NEW S, IsFiniteSet(S), NEW B,
           ASSUME NEW T \in SUBSET S, \A x \in T : T \ {x} \in B PROVE T \in B
    PROVE  \A T \in SUBSET S : T \in B
<1> DEFINE less == StrictSubsetOrdering(S)
           bad  == {T \in SUBSET S : T \notin B}
<1> SUFFICES ASSUME bad # {} PROVE FALSE
  OBVIOUS
<1>1. bad \subseteq FiniteSubsetsOf(S)
  BY FS_Subset DEF FiniteSubsetsOf
<1>2. IsWellFoundedOn(less, FiniteSubsetsOf(S))
  BY FS_StrictSubsetOrderingWellFounded
<1>3. PICK T \in bad : \A U \in bad : <<U, T>> \notin less
  BY <1>1, <1>2, WFMin, Zenon
<1>4. ASSUME NEW x \in T PROVE T \ {x} \in B
  <2>1. <<T \ {x}, T>> \in less
    BY <1>3, <1>4 DEF StrictSubsetOrdering
  <2>2. T \ {x} \notin bad
    BY <1>3, <2>1, Zenon
  <2>3. QED
    BY <1>3, <2>2
<1>5. QED
  BY <1>3, <1>4

(***************************************************************************)
(* The equation that defines SumFunctionOnSet(f, S), as Folds writes it.   *)
(***************************************************************************)
SumEquation(f, S, g) ==
  g = [s \in SUBSET S |-> IF s = {} THEN 0
         ELSE f[CHOOSE x \in s : TRUE] + g[s \ {CHOOSE x \in s : TRUE}]]

\* The sum is a function that solves it, applied to S.
LEMMA SumUnfolds ==
  ASSUME NEW f, NEW S
  PROVE  SumFunctionOnSet(f, S) = (CHOOSE g : SumEquation(f, S, g))[S]
  BY Zenon DEF SumFunctionOnSet, FoldFunctionOnSet, MapThenFoldSet, SumEquation

(***************************************************************************)
(* A sum of natural numbers is the number of their units.                  *)
(***************************************************************************)
LEMMA SumIsCount ==
    ASSUME NEW f, NEW S, IsFiniteSet(S), \A x \in S : f[x] \in Nat
    PROVE  SumFunctionOnSet(f, S) = Cardinality(Units(f, S))
<1> DEFINE count == [s \in SUBSET S |-> Cardinality(Units(f, s))]
           pick(s) == CHOOSE x \in s : TRUE
<1>1. Cardinality(Units(f, {})) = 0
  BY FS_EmptySet DEF Units
<1>2. ASSUME NEW s \in SUBSET S, s # {}
      PROVE  /\ pick(s) \in s
             /\ s \ {pick(s)} \in SUBSET S
             /\ Cardinality(Units(f, s)) = f[pick(s)] + Cardinality(Units(f, s \ {pick(s)}))
  <2>1. pick(s) \in s
    BY <1>2
  <2>2. IsFiniteSet(s) /\ \A x \in s : f[x] \in Nat
    BY FS_Subset
  <2> HIDE DEF pick
  <2>3. QED
    BY <2>1, <2>2, UnitsMore
<1>3. SumEquation(f, S, count)
  <2>1. ASSUME NEW s \in SUBSET S
        PROVE  count[s] = IF s = {} THEN 0 ELSE f[pick(s)] + count[s \ {pick(s)}]
    BY <1>1, <1>2
  <2>2. QED
    BY <2>1, Zenon DEF SumEquation
<1>4. PICK g : /\ SumEquation(f, S, g)
               /\ SumFunctionOnSet(f, S) = g[S]
  BY <1>3, SumUnfolds, Zenon
<1>5. \A s \in SUBSET S : g[s] = IF s = {} THEN 0 ELSE f[pick(s)] + g[s \ {pick(s)}]
  BY <1>4, Zenon DEF SumEquation
<1> DEFINE B == {s \in SUBSET S : g[s] = Cardinality(Units(f, s))}
<1>6. ASSUME NEW T \in SUBSET S, \A x \in T : T \ {x} \in B PROVE T \in B
  <2>1. CASE T = {}
    BY <1>1, <1>5, <2>1
  <2>2. CASE T # {}
    <3>1. pick(T) \in T
      BY <1>2, <2>2
    <3>2. g[T \ {pick(T)}] = Cardinality(Units(f, T \ {pick(T)}))
      BY <1>6, <3>1
    <3> HIDE DEF pick
    <3>3. QED BY <1>2, <1>5, <2>2, <3>2
  <2>3. QED BY <2>1, <2>2
<1> HIDE DEF B
<1>7. \A T \in SUBSET S : T \in B
  BY <1>6, SubsetInduction, Zenon
<1>8. QED BY <1>4, <1>7 DEF B

\* The empty sum.
LEMMA SumEmpty ==
    ASSUME NEW f
    PROVE  SumFunctionOnSet(f, {}) = 0
<1>1. IsFiniteSet({}) /\ Cardinality({}) = 0 /\ Units(f, {}) = {}
  BY FS_EmptySet DEF Units
<1>2. QED
  BY <1>1, SumIsCount

\* One more summand adds its value.
LEMMA SumMore ==
    ASSUME NEW f, NEW S, IsFiniteSet(S), \A y \in S : f[y] \in Nat,
           NEW x, x \notin S, f[x] \in Nat
    PROVE  /\ SumFunctionOnSet(f, S) \in Nat
           /\ SumFunctionOnSet(f, S \cup {x}) = SumFunctionOnSet(f, S) + f[x]
<1> DEFINE T == S \cup {x}
<1>1. IsFiniteSet(T) /\ (\A y \in T : f[y] \in Nat) /\ x \in T /\ T \ {x} = S
  BY FS_AddElement
<1> HIDE DEF T
<1>2. /\ Cardinality(Units(f, T \ {x})) \in Nat
      /\ Cardinality(Units(f, T)) = f[x] + Cardinality(Units(f, T \ {x}))
  BY <1>1, UnitsMore
<1>3. /\ SumFunctionOnSet(f, T) = Cardinality(Units(f, T))
      /\ SumFunctionOnSet(f, S) = Cardinality(Units(f, S))
  BY <1>1, SumIsCount
<1>4. Cardinality(Units(f, T \ {x})) = Cardinality(Units(f, S))
  BY <1>1, Zenon
<1>5. /\ SumFunctionOnSet(f, S) \in Nat
      /\ SumFunctionOnSet(f, T) = SumFunctionOnSet(f, S) + f[x]
  BY <1>2, <1>3, <1>4
<1>6. QED
  BY <1>5, Zenon DEF T

\* A sum depends on the values of its summands only.
LEMMA SumSame ==
    ASSUME NEW f, NEW g, NEW S, IsFiniteSet(S), \A x \in S : f[x] \in Nat /\ g[x] = f[x]
    PROVE  SumFunctionOnSet(g, S) = SumFunctionOnSet(f, S)
<1>1. Units(g, S) = Units(f, S)
  BY DEF Units
<1>2. /\ SumFunctionOnSet(f, S) = Cardinality(Units(f, S))
      /\ SumFunctionOnSet(g, S) = Cardinality(Units(g, S))
  BY SumIsCount
<1>3. QED
  BY <1>1, <1>2, Zenon

-----------------------------------------------------------------------------
\* The amounts of the HTLCs in flight.
Amounts(s) == [h \in DOMAIN s.in_flight |-> s.in_flight[h].amount_msat]

\* in_flight_total, with its summands named.
LEMMA TotalUnfolds ==
    ASSUME NEW s
    PROVE  /\ in_flight_total(s) = SumFunctionOnSet(Amounts(s), DOMAIN s.in_flight)
           /\ \A h \in DOMAIN s.in_flight : Amounts(s)[h] = s.in_flight[h].amount_msat
<1>1. DOMAIN Amounts(s) = DOMAIN s.in_flight
  BY DEF Amounts
<1>2. in_flight_total(s) = SumFunctionOnSet(Amounts(s), DOMAIN Amounts(s))
  BY Zenon DEF in_flight_total, SumFunction, Amounts
<1>3. QED
  BY <1>1, <1>2 DEF Amounts

\* The total is that of the map, whatever the balance and the index are.
LEMMA TotalOfMap ==
    ASSUME NEW s, NEW t, t.in_flight = s.in_flight
    PROVE  in_flight_total(t) = in_flight_total(s)
BY Zenon DEF in_flight_total

\* An amount is a natural number, and so is their sum.
LEMMA TotalTyped ==
    ASSUME NEW s, NEW Hash, SideTyped(s, Hash), IsFiniteSet(DOMAIN s.in_flight)
    PROVE  /\ \A h \in DOMAIN s.in_flight : s.in_flight[h].amount_msat \in Nat
           /\ in_flight_total(s) \in Nat
<1>1. \A h \in DOMAIN s.in_flight : s.in_flight[h].amount_msat \in Nat
  BY DEF SideTyped, InFlightHtlc
<1>2. \A h \in DOMAIN s.in_flight : Amounts(s)[h] \in Nat
  BY <1>1, TotalUnfolds
<1>3. /\ IsFiniteSet(Units(Amounts(s), DOMAIN s.in_flight))
      /\ SumFunctionOnSet(Amounts(s), DOMAIN s.in_flight)
           = Cardinality(Units(Amounts(s), DOMAIN s.in_flight))
  BY <1>2, UnitsFinite, SumIsCount
<1>4. QED
  BY <1>1, <1>3, TotalUnfolds, FS_CardinalityType

(***************************************************************************)
(* Adding an HTLC under a new hash raises the total in flight by its       *)
(* amount.                                                                 *)
(***************************************************************************)
LEMMA AddTotal ==
    ASSUME NEW s, NEW Hash, SideTyped(s, Hash), IsFiniteSet(DOMAIN s.in_flight),
           NEW hash \in Hash, hash \notin DOMAIN s.in_flight,
           NEW htlc \in Htlc
    PROVE  LET t == add_outgoing_htlc(s, hash, htlc)
           IN  /\ DOMAIN t.in_flight = DOMAIN s.in_flight \cup {hash}
               /\ IsFiniteSet(DOMAIN t.in_flight)
               /\ Cardinality(DOMAIN t.in_flight) = Cardinality(DOMAIN s.in_flight) + 1
               /\ in_flight_total(s) \in Nat
               /\ in_flight_total(t) = in_flight_total(s) + htlc.amount_msat
<1> DEFINE t == add_outgoing_htlc(s, hash, htlc)
           D == DOMAIN s.in_flight
<1>1. /\ DOMAIN t.in_flight = D \cup {hash}
      /\ t.in_flight[hash].amount_msat = htlc.amount_msat
      /\ \A h \in D : t.in_flight[h] = s.in_flight[h]
  BY DEF add_outgoing_htlc
<1>2. htlc.amount_msat \in Nat
  BY DEF Htlc
<1>3. /\ IsFiniteSet(D \cup {hash})
      /\ Cardinality(D \cup {hash}) = Cardinality(D) + 1
  BY FS_AddElement
<1> HIDE DEF t
<1>4. /\ \A h \in D : Amounts(s)[h] \in Nat /\ Amounts(t)[h] = Amounts(s)[h]
      /\ Amounts(t)[hash] = htlc.amount_msat
  BY <1>1, TotalTyped, TotalUnfolds
<1>5. SumFunctionOnSet(Amounts(t), D) = SumFunctionOnSet(Amounts(s), D)
  BY <1>4, SumSame
<1>6. /\ SumFunctionOnSet(Amounts(t), D) \in Nat
      /\ SumFunctionOnSet(Amounts(t), D \cup {hash})
           = SumFunctionOnSet(Amounts(t), D) + htlc.amount_msat
  BY <1>2, <1>4, SumMore
<1>7. /\ in_flight_total(s) = SumFunctionOnSet(Amounts(s), D)
      /\ in_flight_total(t) = SumFunctionOnSet(Amounts(t), D \cup {hash})
  <2>1. in_flight_total(t) = SumFunctionOnSet(Amounts(t), DOMAIN t.in_flight)
    BY TotalUnfolds
  <2>2. QED BY <1>1, <2>1, TotalUnfolds
<1>8. QED
  BY <1>1, <1>3, <1>5, <1>6, <1>7 DEF t

(* Removing an HTLC lowers the total in flight by its amount.              *)
LEMMA RemoveTotal ==
    ASSUME NEW s, NEW Hash, SideTyped(s, Hash), IsFiniteSet(DOMAIN s.in_flight),
           NEW hash \in DOMAIN s.in_flight
    PROVE  LET t == remove_outgoing_htlc(s, hash)
           IN  /\ DOMAIN t.in_flight = DOMAIN s.in_flight \ {hash}
               /\ IsFiniteSet(DOMAIN t.in_flight)
               /\ Cardinality(DOMAIN t.in_flight) <= Cardinality(DOMAIN s.in_flight)
               /\ Cardinality(DOMAIN t.in_flight) \in Nat
               /\ Cardinality(DOMAIN s.in_flight) \in Nat
               /\ in_flight_total(t) \in Nat
               /\ s.in_flight[hash].amount_msat \in Nat
               /\ in_flight_total(s) = in_flight_total(t) + s.in_flight[hash].amount_msat
<1> DEFINE t == remove_outgoing_htlc(s, hash)
           D == DOMAIN s.in_flight
           E == D \ {hash}
<1>1. /\ DOMAIN t.in_flight = E
      /\ \A h \in E : t.in_flight[h] = s.in_flight[h]
  BY DEF remove_outgoing_htlc, SideTyped
<1>2. s.in_flight[hash].amount_msat \in Nat
  BY TotalTyped
<1>3. E \in SUBSET D /\ E \cup {hash} = D /\ hash \notin E
  OBVIOUS
<1>4. /\ IsFiniteSet(E)
      /\ Cardinality(E) <= Cardinality(D)
      /\ Cardinality(E) \in Nat
      /\ Cardinality(D) \in Nat
  BY <1>3, FS_Subset, FS_CardinalityType
<1> HIDE DEF t, E
<1>5. /\ \A h \in E : /\ Amounts(s)[h] \in Nat
                      /\ Amounts(t)[h] = Amounts(s)[h]
      /\ Amounts(s)[hash] = s.in_flight[hash].amount_msat
  BY <1>1, <1>3, TotalTyped, TotalUnfolds
<1>6. SumFunctionOnSet(Amounts(t), E) = SumFunctionOnSet(Amounts(s), E)
  BY <1>4, <1>5, SumSame
<1>7. /\ SumFunctionOnSet(Amounts(s), E) \in Nat
      /\ SumFunctionOnSet(Amounts(s), E \cup {hash})
           = SumFunctionOnSet(Amounts(s), E) + s.in_flight[hash].amount_msat
  <2>1. Amounts(s)[hash] \in Nat /\ \A h \in E : Amounts(s)[h] \in Nat
    BY <1>2, <1>5
  <2>2. /\ SumFunctionOnSet(Amounts(s), E) \in Nat
        /\ SumFunctionOnSet(Amounts(s), E \cup {hash})
             = SumFunctionOnSet(Amounts(s), E) + Amounts(s)[hash]
    BY <1>3, <1>4, <2>1, SumMore, Zenon
  <2>3. QED BY <1>5, <2>2
<1>8. /\ in_flight_total(s) = SumFunctionOnSet(Amounts(s), E \cup {hash})
      /\ in_flight_total(t) = SumFunctionOnSet(Amounts(t), E)
  <2>1. in_flight_total(t) = SumFunctionOnSet(Amounts(t), DOMAIN t.in_flight)
    BY TotalUnfolds
  <2>2. QED BY <1>1, <1>3, <2>1, TotalUnfolds
<1>9. QED
  BY <1>1, <1>2, <1>4, <1>6, <1>7, <1>8 DEF t, E

-----------------------------------------------------------------------------
(***************************************************************************)
(* What an addition that returns no error has checked.                     *)
(***************************************************************************)
LEMMA AddChecks ==
    ASSUME NEW c, NEW sides, NEW n, NEW hash, NEW htlc,
           add_htlc_error(c, sides, n, hash, htlc) = "Ok"
    PROVE  /\ n \in Ends(c)
           /\ sanity_check(c, sides)
           /\ htlc.amount_msat # 0
           /\ hash \notin DOMAIN sides[n].in_flight
           /\ ~ (htlc.amount_msat > c.policy[n].max_htlc_size_msat)
           /\ ~ (htlc.amount_msat < c.policy[n].min_htlc_size_msat)
           /\ ~ (Cardinality(DOMAIN sides[n].in_flight) + 1
                   > c.policy[Counterparty(c, n)].max_htlc_count)
           /\ ~ (in_flight_total(sides[n]) + htlc.amount_msat
                   > c.policy[Counterparty(c, n)].max_in_flight_msat)
           /\ ~ (htlc.amount_msat > sides[n].local_balance_msat)
<1>1. /\ htlc.amount_msat # 0
      /\ sanity_check(c, sides)
      /\ n \in Ends(c)
      /\ add_outgoing_error(sides[n], c.policy[n], c.policy[Counterparty(c, n)],
                            hash, htlc) = "Ok"
  BY DEF add_htlc_error
<1>2. /\ hash \notin DOMAIN sides[n].in_flight
      /\ check_outgoing_addition(sides[n], c.policy[n],
                                 c.policy[Counterparty(c, n)], htlc) = "Ok"
  BY <1>1 DEF add_outgoing_error
<1>3. QED
  BY <1>1, <1>2 DEF check_outgoing_addition

(* The two ends of a valid channel are each other's counterparty.          *)
LEMMA TwoEnds ==
    ASSUME NEW c, c.node_1 # c.node_2, NEW n \in Ends(c)
    PROVE  /\ Counterparty(c, n) \in Ends(c)
           /\ Counterparty(c, n) # n
           /\ Counterparty(c, Counterparty(c, n)) = n
           /\ \A m \in Ends(c) : m = n \/ m = Counterparty(c, n)
BY DEF Ends, Counterparty

(* The funds of a channel, seen from either of its ends.                   *)
LEMMA BalanceFrom ==
    ASSUME NEW c, c.node_1 # c.node_2, NEW sides, NEW n \in Ends(c),
           \A m \in Ends(c) : /\ sides[m].local_balance_msat \in Nat
                              /\ in_flight_total(sides[m]) \in Nat
    PROVE  channel_balance(c, sides) =
              sides[n].local_balance_msat + in_flight_total(sides[n])
              + sides[Counterparty(c, n)].local_balance_msat
              + in_flight_total(sides[Counterparty(c, n)])
<1> USE DEF channel_balance, Counterparty, Ends
<1>1. CASE n = c.node_1
  BY <1>1
<1>2. CASE n = c.node_2
  BY <1>2
<1>3. QED
  BY <1>1, <1>2

-----------------------------------------------------------------------------
(***************************************************************************)
(* An addition that returns no error preserves the invariant of the        *)
(* channel: the amount moves from the balance to the HTLCs in flight.      *)
(***************************************************************************)
LEMMA AddPreserves ==
    ASSUME NEW c, ValidChannel(c), NEW Hash, NEW sides, SidesInv(c, sides, Hash),
           NEW n, NEW hash \in Hash, NEW htlc \in Htlc,
           add_htlc_error(c, sides, n, hash, htlc) = "Ok"
    PROVE  SidesInv(c, add_htlc(c, sides, n, hash, htlc), Hash)
<1> DEFINE new == add_htlc(c, sides, n, hash, htlc)
           o   == Counterparty(c, n)
           amt == htlc.amount_msat
<1>1. /\ n \in Ends(c)
      /\ amt # 0
      /\ hash \notin DOMAIN sides[n].in_flight
      /\ ~ (amt > c.policy[n].max_htlc_size_msat)
      /\ ~ (amt < c.policy[n].min_htlc_size_msat)
      /\ ~ (Cardinality(DOMAIN sides[n].in_flight) + 1 > c.policy[o].max_htlc_count)
      /\ ~ (in_flight_total(sides[n]) + amt > c.policy[o].max_in_flight_msat)
      /\ ~ (amt > sides[n].local_balance_msat)
  BY AddChecks
<1>2. /\ amt \in Nat
      /\ htlc.cltv_expiry \in Nat
  BY DEF Htlc
<1>3. /\ o \in Ends(c)
      /\ o # n
      /\ Counterparty(c, o) = n
      /\ \A m \in Ends(c) : m = n \/ m = o
      /\ c.node_1 # c.node_2
  BY <1>1, TwoEnds DEF ValidChannel, channel_validate
<1>4. /\ SidesTyped(c, sides, Hash)
      /\ SidesFinite(c, sides)
      /\ FundsKept(c, sides)
      /\ WithinLimits(c, sides)
      /\ IndexesDistinct(c, sides)
  BY DEF SidesInv
<1>5. /\ DOMAIN sides = Ends(c)
      /\ \A m \in Ends(c) :
            /\ SideTyped(sides[m], Hash)
            /\ sides[m].local_balance_msat \in Nat
            /\ sides[m].index \in Nat
  BY <1>4 DEF SidesTyped, SideTyped
<1>6. /\ new = [m \in Ends(c) |-> IF m = n THEN add_outgoing_htlc(sides[n], hash, htlc)
                                           ELSE sides[m]]
      /\ new[n] = add_outgoing_htlc(sides[n], hash, htlc)
      /\ new[o] = sides[o]
  BY <1>1, <1>3, <1>4, <1>5 DEF add_htlc, SidesTyped
<1>7. /\ DOMAIN new[n].in_flight = DOMAIN sides[n].in_flight \cup {hash}
      /\ IsFiniteSet(DOMAIN new[n].in_flight)
      /\ Cardinality(DOMAIN new[n].in_flight) = Cardinality(DOMAIN sides[n].in_flight) + 1
      /\ in_flight_total(sides[n]) \in Nat
      /\ in_flight_total(new[n]) = in_flight_total(sides[n]) + amt
  BY <1>1, <1>4, <1>5, <1>6, AddTotal DEF SidesFinite
<1>8. /\ new[n].local_balance_msat = sides[n].local_balance_msat - amt
      /\ new[n].local_balance_msat \in Nat
      /\ new[n].index = sides[n].index + 1
      /\ new[n].in_flight[hash] = [amount_msat |-> amt,
                                   cltv_expiry |-> htlc.cltv_expiry,
                                   index |-> sides[n].index]
      /\ \A h \in DOMAIN sides[n].in_flight : new[n].in_flight[h] = sides[n].in_flight[h]
  BY <1>1, <1>2, <1>5, <1>6 DEF add_outgoing_htlc
<1>9. \A m \in Ends(c) : in_flight_total(sides[m]) \in Nat
  BY <1>4, TotalTyped DEF SidesTyped, SidesFinite
<1> HIDE DEF new, o, amt
<1>10. SidesTyped(c, new, Hash)
  <2>1. SideTyped(new[n], Hash)
    <3>1. PICK D \in SUBSET Hash :
             sides[n] \in [local_balance_msat : Nat, in_flight : [D -> InFlightHtlc], index : Nat]
      BY <1>1, <1>5 DEF SideTyped
    <3>2. new[n] \in [local_balance_msat : Nat,
                      in_flight : [D \cup {hash} -> InFlightHtlc], index : Nat]
      BY <3>1, <1>1, <1>2, <1>5, <1>6, <1>8 DEF add_outgoing_htlc, InFlightHtlc, amt
    <3>3. D \cup {hash} \in SUBSET Hash
      OBVIOUS
    <3>4. QED
      BY <3>2, <3>3 DEF SideTyped
  <2>2. new = [m \in Ends(c) |-> new[m]]
    BY <1>6
  <2>3. \A m \in Ends(c) : SideTyped(new[m], Hash)
    BY <2>1, <1>3, <1>5, <1>6
  <2>4. QED
    BY <2>2, <2>3 DEF SidesTyped
<1>11. SidesFinite(c, new)
  BY <1>3, <1>4, <1>6, <1>7 DEF SidesFinite
<1>12. FundsKept(c, new)
  <2>1. /\ channel_balance(c, sides) =
             sides[n].local_balance_msat + in_flight_total(sides[n])
             + sides[o].local_balance_msat + in_flight_total(sides[o])
    BY <1>1, <1>3, <1>5, <1>9, BalanceFrom DEF o
  <2>2. \A m \in Ends(c) : /\ new[m].local_balance_msat \in Nat
                           /\ in_flight_total(new[m]) \in Nat
    BY <1>1, <1>2, <1>3, <1>5, <1>6, <1>7, <1>8, <1>9
  <2>3. channel_balance(c, new) =
             new[n].local_balance_msat + in_flight_total(new[n])
             + new[o].local_balance_msat + in_flight_total(new[o])
    BY <1>1, <1>3, <2>2, BalanceFrom DEF o
  <2>4. /\ in_flight_total(sides[n]) \in Nat
        /\ in_flight_total(sides[o]) \in Nat
        /\ sides[n].local_balance_msat \in Nat
        /\ sides[o].local_balance_msat \in Nat
    BY <1>1, <1>3, <1>5, <1>9
  <2>5. channel_balance(c, new) = channel_balance(c, sides)
    BY <2>1, <2>3, <2>4, <1>2, <1>6, <1>7, <1>8
  <2>6. QED
    BY <2>5, <1>4 DEF FundsKept
<1>13. WithinLimits(c, new)
  <2>1. /\ c.policy[n].max_htlc_size_msat \in Nat
        /\ c.policy[n].min_htlc_size_msat \in Nat
        /\ c.policy[o].max_htlc_count \in Nat
        /\ c.policy[o].max_in_flight_msat \in Nat
    BY <1>1, <1>3 DEF ValidChannel, ChannelPolicy
  <2>2. Cardinality(DOMAIN sides[n].in_flight) \in Nat
    BY <1>1, <1>4, FS_CardinalityType DEF SidesFinite
  <2>3. /\ Cardinality(DOMAIN new[n].in_flight) <= c.policy[o].max_htlc_count
        /\ in_flight_total(new[n]) <= c.policy[o].max_in_flight_msat
    BY <1>1, <1>2, <1>7, <2>1, <2>2 DEF amt
  <2>4. /\ new[n].in_flight[hash].amount_msat = amt
        /\ amt > 0
        /\ amt >= c.policy[n].min_htlc_size_msat
        /\ amt <= c.policy[n].max_htlc_size_msat
    BY <1>1, <1>2, <1>8, <2>1
  <2>5. \A h \in DOMAIN new[n].in_flight :
              /\ new[n].in_flight[h].amount_msat > 0
              /\ new[n].in_flight[h].amount_msat >= c.policy[n].min_htlc_size_msat
              /\ new[n].in_flight[h].amount_msat <= c.policy[n].max_htlc_size_msat
    BY <1>1, <1>4, <1>7, <1>8, <2>4 DEF WithinLimits
  <2>6. QED
    BY <1>3, <1>4, <1>6, <2>3, <2>5 DEF WithinLimits, o
<1>14. IndexesDistinct(c, new)
  <2>1. \A h \in DOMAIN sides[n].in_flight :
           /\ sides[n].in_flight[h].index \in Nat
           /\ sides[n].in_flight[h].index < sides[n].index
    BY <1>1, <1>4, <1>5 DEF IndexesDistinct, SideTyped, InFlightHtlc
  <2>2. /\ sides[n].index \in Nat
        /\ new[n].in_flight[hash].index = sides[n].index
    BY <1>1, <1>5, <1>8
  <2>3. \A h \in DOMAIN new[n].in_flight : new[n].in_flight[h].index < new[n].index
    BY <1>7, <1>8, <2>1, <2>2
  <2>4. \A g, h \in DOMAIN new[n].in_flight :
           new[n].in_flight[g].index = new[n].in_flight[h].index => g = h
    BY <1>1, <1>4, <1>7, <1>8, <2>1, <2>2 DEF IndexesDistinct
  <2>5. QED
    BY <1>3, <1>4, <1>6, <2>3, <2>4 DEF IndexesDistinct
<1>15. QED
  BY <1>10, <1>11, <1>12, <1>13, <1>14 DEF SidesInv, new

(***************************************************************************)
(* A removal that finds its HTLC preserves the invariant: the amount goes  *)
(* to the receiver when the HTLC succeeded and back to the sender when it  *)
(* failed.                                                                 *)
(***************************************************************************)
LEMMA RemovePreserves ==
    ASSUME NEW c, ValidChannel(c), NEW Hash, NEW sides, SidesInv(c, sides, Hash),
           NEW n \in Ends(c), NEW hash \in DOMAIN sides[n].in_flight,
           NEW success \in BOOLEAN
    PROVE  SidesInv(c, remove_htlc(c, sides, n, hash, success), Hash)
<1> DEFINE new  == remove_htlc(c, sides, n, hash, success)
           o    == Counterparty(c, n)
           amt  == sides[n].in_flight[hash].amount_msat
           less == remove_outgoing_htlc(sides[n], hash)
<1>1. /\ o \in Ends(c)
      /\ o # n
      /\ Counterparty(c, o) = n
      /\ \A m \in Ends(c) : m = n \/ m = o
      /\ c.node_1 # c.node_2
  BY TwoEnds DEF ValidChannel, channel_validate
<1>2. /\ SidesTyped(c, sides, Hash)
      /\ SidesFinite(c, sides)
      /\ FundsKept(c, sides)
      /\ WithinLimits(c, sides)
      /\ IndexesDistinct(c, sides)
  BY DEF SidesInv
<1>3. /\ DOMAIN sides = Ends(c)
      /\ \A m \in Ends(c) :
            /\ SideTyped(sides[m], Hash)
            /\ sides[m].local_balance_msat \in Nat
            /\ sides[m].index \in Nat
  BY <1>2 DEF SidesTyped, SideTyped
<1>4. /\ DOMAIN less.in_flight = DOMAIN sides[n].in_flight \ {hash}
      /\ IsFiniteSet(DOMAIN less.in_flight)
      /\ Cardinality(DOMAIN less.in_flight) <= Cardinality(DOMAIN sides[n].in_flight)
      /\ Cardinality(DOMAIN less.in_flight) \in Nat
      /\ Cardinality(DOMAIN sides[n].in_flight) \in Nat
      /\ in_flight_total(less) \in Nat
      /\ amt \in Nat
      /\ in_flight_total(sides[n]) = in_flight_total(less) + amt
  BY <1>2, <1>3, RemoveTotal DEF SidesFinite
<1>5. PICK D \in SUBSET Hash :
         sides[n] \in [local_balance_msat : Nat, in_flight : [D -> InFlightHtlc], index : Nat]
  BY <1>3 DEF SideTyped
<1>6. less = [local_balance_msat |-> sides[n].local_balance_msat,
              in_flight |-> [h \in D \ {hash} |-> sides[n].in_flight[h]],
              index     |-> sides[n].index]
  BY <1>5 DEF remove_outgoing_htlc
<1>7. new = [m \in Ends(c) |-> IF m = n THEN settle_outgoing_htlc(less, amt, success)
                                        ELSE settle_incoming_htlc(sides[m], amt, success)]
  BY <1>3 DEF remove_htlc, settle_htlc
<1>8. new[n] = [local_balance_msat |-> sides[n].local_balance_msat
                                          + (IF success THEN 0 ELSE amt),
                in_flight |-> less.in_flight,
                index     |-> sides[n].index]
  <2>1. less \in [local_balance_msat : Nat, in_flight : [D \ {hash} -> InFlightHtlc],
                  index : Nat]
    BY <1>5, <1>6
  <2>2. new[n] = settle_outgoing_htlc(less, amt, success)
    BY <1>7
  <2>3. less.local_balance_msat = sides[n].local_balance_msat /\ less.index = sides[n].index
    BY <1>6
  <2> HIDE DEF less, amt, new
  <2>4. QED
    BY <2>1, <2>2, <2>3 DEF settle_outgoing_htlc
<1>9. new[o] = [local_balance_msat |-> sides[o].local_balance_msat
                                          + (IF success THEN amt ELSE 0),
                in_flight |-> sides[o].in_flight,
                index     |-> sides[o].index]
  <2>1. PICK E \in SUBSET Hash :
           sides[o] \in [local_balance_msat : Nat, in_flight : [E -> InFlightHtlc], index : Nat]
    BY <1>1, <1>3 DEF SideTyped
  <2>2. new[o] = settle_incoming_htlc(sides[o], amt, success)
    BY <1>1, <1>7
  <2>3. QED
    BY <2>1, <2>2 DEF settle_incoming_htlc
<1>10. \A m \in Ends(c) : in_flight_total(sides[m]) \in Nat
  BY <1>2, TotalTyped DEF SidesTyped, SidesFinite
<1>11. /\ new[n].in_flight = less.in_flight
       /\ new[o].in_flight = sides[o].in_flight
       /\ new[n].index = sides[n].index
       /\ new[o].index = sides[o].index
       /\ in_flight_total(new[n]) = in_flight_total(less)
       /\ in_flight_total(new[o]) = in_flight_total(sides[o])
  BY <1>8, <1>9, TotalOfMap
<1>12. \A h \in DOMAIN less.in_flight : less.in_flight[h] = sides[n].in_flight[h]
  BY <1>4, <1>6
<1> HIDE DEF new, o, amt, less
<1>13. SidesTyped(c, new, Hash)
  <2>1. SideTyped(new[n], Hash)
    <3>1. new[n] \in [local_balance_msat : Nat,
                      in_flight : [D \ {hash} -> InFlightHtlc], index : Nat]
      BY <1>3, <1>4, <1>5, <1>6, <1>8
    <3>2. D \ {hash} \in SUBSET Hash
      OBVIOUS
    <3>3. QED
      BY <3>1, <3>2 DEF SideTyped
  <2>2. SideTyped(new[o], Hash)
    BY <1>1, <1>3, <1>4, <1>9 DEF SideTyped
  <2>3. new = [m \in Ends(c) |-> new[m]]
    BY <1>7
  <2>4. QED
    BY <2>1, <2>2, <2>3, <1>1 DEF SidesTyped
<1>14. SidesFinite(c, new)
  BY <1>1, <1>2, <1>4, <1>11 DEF SidesFinite
<1>15. FundsKept(c, new)
  <2>1. /\ channel_balance(c, sides) =
             sides[n].local_balance_msat + in_flight_total(sides[n])
             + sides[o].local_balance_msat + in_flight_total(sides[o])
    BY <1>1, <1>3, <1>10, BalanceFrom DEF o
  <2>2. \A m \in Ends(c) : /\ new[m].local_balance_msat \in Nat
                           /\ in_flight_total(new[m]) \in Nat
    BY <1>1, <1>3, <1>4, <1>8, <1>9, <1>10, <1>11
  <2>3. channel_balance(c, new) =
             new[n].local_balance_msat + in_flight_total(new[n])
             + new[o].local_balance_msat + in_flight_total(new[o])
    BY <1>1, <2>2, BalanceFrom DEF o
  <2>4. /\ in_flight_total(sides[o]) \in Nat
        /\ sides[n].local_balance_msat \in Nat
        /\ sides[o].local_balance_msat \in Nat
    BY <1>1, <1>3, <1>10
  <2>5. channel_balance(c, new) = channel_balance(c, sides)
    BY <2>1, <2>3, <2>4, <1>4, <1>8, <1>9, <1>11
  <2>6. QED
    BY <2>5, <1>2 DEF FundsKept
<1>16. WithinLimits(c, new)
  <2>1. /\ c.policy[o].max_htlc_count \in Nat
        /\ c.policy[o].max_in_flight_msat \in Nat
    BY <1>1 DEF ValidChannel, ChannelPolicy
  <2>2. /\ Cardinality(DOMAIN new[n].in_flight) <= c.policy[o].max_htlc_count
        /\ in_flight_total(new[n]) <= c.policy[o].max_in_flight_msat
    <3>1. /\ Cardinality(DOMAIN sides[n].in_flight) <= c.policy[o].max_htlc_count
          /\ in_flight_total(sides[n]) <= c.policy[o].max_in_flight_msat
      BY <1>2 DEF WithinLimits, o
    <3>2. Cardinality(DOMAIN new[n].in_flight) <= c.policy[o].max_htlc_count
      <4>1. Cardinality(DOMAIN new[n].in_flight) = Cardinality(DOMAIN less.in_flight)
        BY <1>11, Zenon
      <4>2. QED
        BY <3>1, <4>1, <2>1, <1>4
    <3>3. in_flight_total(new[n]) <= c.policy[o].max_in_flight_msat
      BY <3>1, <2>1, <1>4, <1>10, <1>11
    <3>4. QED
      BY <3>2, <3>3
  <2>3. \A h \in DOMAIN new[n].in_flight :
              /\ new[n].in_flight[h].amount_msat > 0
              /\ new[n].in_flight[h].amount_msat >= c.policy[n].min_htlc_size_msat
              /\ new[n].in_flight[h].amount_msat <= c.policy[n].max_htlc_size_msat
    BY <1>2, <1>4, <1>11, <1>12 DEF WithinLimits
  <2>4. QED
    BY <1>1, <1>2, <1>11, <2>2, <2>3 DEF WithinLimits, o
<1>17. IndexesDistinct(c, new)
  BY <1>1, <1>2, <1>4, <1>11, <1>12 DEF IndexesDistinct
<1>18. QED
  BY <1>13, <1>14, <1>15, <1>16, <1>17 DEF SidesInv, new

(* A new channel satisfies the invariant.                                  *)
LEMMA NewChannelInv ==
    ASSUME NEW c, ValidChannel(c), NEW Hash
    PROVE  SidesInv(c, SimulatedChannel_new(c), Hash)
<1> DEFINE new == SimulatedChannel_new(c)
<1>1. \A n \in Ends(c) : new[n] = [local_balance_msat |-> c.capacity_msat \div 2,
                                   in_flight |-> NoHtlcs, index |-> 0]
  BY DEF SimulatedChannel_new, ChannelState_new
<1>2. c.capacity_msat \div 2 \in Nat
  BY DEF ValidChannel
<1> HIDE DEF new
<1>3. /\ DOMAIN NoHtlcs = {}
      /\ NoHtlcs \in [{} -> InFlightHtlc]
  BY DEF NoHtlcs
<1>4. IsFiniteSet({}) /\ Cardinality({}) = 0
  BY FS_EmptySet
<1>5. \A n \in Ends(c) : /\ new[n].local_balance_msat = c.capacity_msat \div 2
                         /\ new[n].in_flight = NoHtlcs
                         /\ new[n].index = 0
                         /\ in_flight_total(new[n]) = 0
  <2> SUFFICES ASSUME NEW n \in Ends(c)
               PROVE  /\ new[n].local_balance_msat = c.capacity_msat \div 2
                      /\ new[n].in_flight = NoHtlcs
                      /\ new[n].index = 0
                      /\ in_flight_total(new[n]) = 0
    OBVIOUS
  <2>0. new[n] = [local_balance_msat |-> c.capacity_msat \div 2,
                  in_flight |-> NoHtlcs, index |-> 0]
    BY <1>1
  <2>1. new[n].in_flight = NoHtlcs
    BY <2>0
  <2>2. /\ new[n].local_balance_msat = c.capacity_msat \div 2
        /\ new[n].index = 0
    BY <1>1
  <2>3. in_flight_total(new[n]) = SumFunctionOnSet(Amounts(new[n]), {})
    BY <1>3, <2>1, TotalUnfolds
  <2>4. QED
    BY <2>1, <2>2, <2>3, SumEmpty
<1>6. SidesTyped(c, new, Hash)
  <2>1. ASSUME NEW n \in Ends(c)
        PROVE  new[n] \in [local_balance_msat : Nat,
                           in_flight : [{} -> InFlightHtlc], index : Nat]
    <3>1. new[n] = [local_balance_msat |-> c.capacity_msat \div 2,
                    in_flight |-> NoHtlcs, index |-> 0]
      BY <1>1
    <3>2. QED
      BY <3>1, <1>2, <1>3
  <2>2. {} \in SUBSET Hash
    OBVIOUS
  <2>3. new = [n \in Ends(c) |-> new[n]]
    BY DEF SimulatedChannel_new, new
  <2>4. QED
    BY <2>1, <2>2, <2>3 DEF SidesTyped, SideTyped
<1>7. SidesFinite(c, new)
  BY <1>5, <1>3, <1>4 DEF SidesFinite
<1>8. FundsKept(c, new)
  <2>1. c.node_1 \in Ends(c) /\ c.node_2 \in Ends(c)
    BY DEF Ends
  <2>2. QED
    BY <2>1, <1>2, <1>5 DEF FundsKept, channel_balance
<1>9. WithinLimits(c, new)
  <2>1. \A n \in Ends(c) : /\ c.policy[Counterparty(c, n)].max_htlc_count \in Nat
                           /\ c.policy[Counterparty(c, n)].max_in_flight_msat \in Nat
    BY TwoEnds DEF ValidChannel, channel_validate, ChannelPolicy
  <2>2. QED
    BY <2>1, <1>3, <1>4, <1>5 DEF WithinLimits
<1>10. IndexesDistinct(c, new)
  BY <1>3, <1>5 DEF IndexesDistinct
<1>11. QED
  BY <1>6, <1>7, <1>8, <1>9, <1>10 DEF SidesInv, new

-----------------------------------------------------------------------------
(* What an addition changes: one new HTLC, numbered with the sender's next *)
(* index, on the sender's side only.                                       *)
LEMMA AddEffect ==
    ASSUME NEW c, NEW Hash, NEW sides, SidesTyped(c, sides, Hash), NEW n \in Ends(c),
           NEW hash, hash \notin DOMAIN sides[n].in_flight, NEW htlc
    PROVE  LET new == add_htlc(c, sides, n, hash, htlc)
           IN  /\ \A m \in Ends(c) : m # n => new[m] = sides[m]
               /\ DOMAIN new[n].in_flight = DOMAIN sides[n].in_flight \cup {hash}
               /\ new[n].in_flight[hash].amount_msat = htlc.amount_msat
               /\ new[n].in_flight[hash].index = sides[n].index
               /\ \A h \in DOMAIN sides[n].in_flight :
                     new[n].in_flight[h] = sides[n].in_flight[h]
               /\ new[n].index = sides[n].index + 1
<1>1. DOMAIN sides = Ends(c)
  BY DEF SidesTyped
<1>2. /\ \A m \in Ends(c) : m # n => add_htlc(c, sides, n, hash, htlc)[m] = sides[m]
      /\ add_htlc(c, sides, n, hash, htlc)[n] = add_outgoing_htlc(sides[n], hash, htlc)
  BY <1>1 DEF add_htlc
<1>3. QED
  BY <1>2 DEF add_outgoing_htlc

(* What a removal changes besides the balances: one HTLC less.             *)
LEMMA RemoveEffect ==
    ASSUME NEW c, NEW Hash, NEW sides, SidesTyped(c, sides, Hash), NEW n \in Ends(c),
           NEW hash \in DOMAIN sides[n].in_flight, NEW success
    PROVE  LET new == remove_htlc(c, sides, n, hash, success)
           IN  /\ \A m \in Ends(c) : /\ new[m].index = sides[m].index
                                     /\ m # n => new[m].in_flight = sides[m].in_flight
               /\ DOMAIN new[n].in_flight = DOMAIN sides[n].in_flight \ {hash}
               /\ \A h \in DOMAIN sides[n].in_flight \ {hash} :
                     new[n].in_flight[h] = sides[n].in_flight[h]
<1> DEFINE new  == remove_htlc(c, sides, n, hash, success)
           amt  == sides[n].in_flight[hash].amount_msat
           less == remove_outgoing_htlc(sides[n], hash)
<1>1. /\ DOMAIN sides = Ends(c)
      /\ \A m \in Ends(c) : SideTyped(sides[m], Hash)
  BY DEF SidesTyped
<1>2. /\ new[n] = settle_outgoing_htlc(less, amt, success)
      /\ \A m \in Ends(c) : m # n => new[m] = settle_incoming_htlc(sides[m], amt, success)
  BY <1>1 DEF remove_htlc, settle_htlc
<1>3. ASSUME NEW D, NEW r \in [local_balance_msat : Nat, in_flight : D, index : Nat]
      PROVE  /\ settle_outgoing_htlc(r, amt, success).index = r.index
             /\ settle_outgoing_htlc(r, amt, success).in_flight = r.in_flight
             /\ settle_incoming_htlc(r, amt, success).index = r.index
             /\ settle_incoming_htlc(r, amt, success).in_flight = r.in_flight
  <2> HIDE DEF amt
  <2>1. QED
    BY DEF settle_outgoing_htlc, settle_incoming_htlc
<1>4. \A m \in Ends(c) : m # n => /\ new[m].index = sides[m].index
                                  /\ new[m].in_flight = sides[m].in_flight
  <2> SUFFICES ASSUME NEW m \in Ends(c), m # n
               PROVE  /\ new[m].index = sides[m].index
                      /\ new[m].in_flight = sides[m].in_flight
    OBVIOUS
  <2>1. PICK E \in SUBSET Hash :
           sides[m] \in [local_balance_msat : Nat, in_flight : [E -> InFlightHtlc], index : Nat]
    BY <1>1 DEF SideTyped
  <2> HIDE DEF new, amt
  <2>2. QED
    BY <2>1, <1>2, <1>3
<1>5. PICK D \in SUBSET Hash :
         sides[n] \in [local_balance_msat : Nat, in_flight : [D -> InFlightHtlc], index : Nat]
  BY <1>1 DEF SideTyped
<1>6. /\ less \in [local_balance_msat : Nat, in_flight : [D \ {hash} -> InFlightHtlc],
                   index : Nat]
      /\ less.index = sides[n].index
      /\ DOMAIN less.in_flight = DOMAIN sides[n].in_flight \ {hash}
      /\ \A h \in DOMAIN sides[n].in_flight \ {hash} : less.in_flight[h] = sides[n].in_flight[h]
  BY <1>5 DEF remove_outgoing_htlc
<1> HIDE DEF new, less, amt
<1>7. /\ new[n].index = sides[n].index
      /\ new[n].in_flight = less.in_flight
  BY <1>2, <1>3, <1>6
<1>8. QED
  BY <1>4, <1>6, <1>7 DEF new

\* The sender pays when the HTLC is added, the receiver is not paid yet.
LEMMA AddBalances ==
    ASSUME NEW c, NEW Hash, NEW sides, SidesTyped(c, sides, Hash), NEW n \in Ends(c),
           NEW hash, NEW htlc
    PROVE  LET new == add_htlc(c, sides, n, hash, htlc)
           IN  \A m \in Ends(c) :
                  new[m].local_balance_msat
                     = IF m = n THEN sides[n].local_balance_msat - htlc.amount_msat
                       ELSE sides[m].local_balance_msat
<1>1. DOMAIN sides = Ends(c)
  BY DEF SidesTyped
<1>2. /\ \A m \in Ends(c) : m # n => add_htlc(c, sides, n, hash, htlc)[m] = sides[m]
      /\ add_htlc(c, sides, n, hash, htlc)[n] = add_outgoing_htlc(sides[n], hash, htlc)
  BY <1>1 DEF add_htlc
<1>3. QED
  BY <1>2 DEF add_outgoing_htlc

\* When the HTLC goes the receiver has the amount if it succeeded, and the
\* sender has it back if not.
LEMMA RemoveBalances ==
    ASSUME NEW c, NEW Hash, NEW sides, SidesTyped(c, sides, Hash), NEW n \in Ends(c),
           NEW hash \in DOMAIN sides[n].in_flight, NEW success \in BOOLEAN
    PROVE  LET new == remove_htlc(c, sides, n, hash, success)
               amt == sides[n].in_flight[hash].amount_msat
           IN  \A m \in Ends(c) :
                  new[m].local_balance_msat
                     = IF success = (m = n) THEN sides[m].local_balance_msat
                       ELSE sides[m].local_balance_msat + amt
<1> DEFINE new  == remove_htlc(c, sides, n, hash, success)
           amt  == sides[n].in_flight[hash].amount_msat
           less == remove_outgoing_htlc(sides[n], hash)
<1>1. /\ DOMAIN sides = Ends(c)
      /\ \A m \in Ends(c) : SideTyped(sides[m], Hash)
  BY DEF SidesTyped
<1>2. /\ new[n] = settle_outgoing_htlc(less, amt, success)
      /\ \A m \in Ends(c) : m # n => new[m] = settle_incoming_htlc(sides[m], amt, success)
  BY <1>1 DEF remove_htlc, settle_htlc
<1>3. ASSUME NEW D, NEW r \in [local_balance_msat : Nat, in_flight : D, index : Nat]
      PROVE  /\ settle_outgoing_htlc(r, amt, success).local_balance_msat
                   = r.local_balance_msat + (IF success THEN 0 ELSE amt)
             /\ settle_incoming_htlc(r, amt, success).local_balance_msat
                   = r.local_balance_msat + (IF success THEN amt ELSE 0)
             /\ r.local_balance_msat \in Nat
  <2> HIDE DEF amt
  <2>1. QED
    BY DEF settle_outgoing_htlc, settle_incoming_htlc
<1>4. PICK D \in SUBSET Hash :
         sides[n] \in [local_balance_msat : Nat, in_flight : [D -> InFlightHtlc], index : Nat]
  BY <1>1 DEF SideTyped
<1>5. /\ less \in [local_balance_msat : Nat, in_flight : [D \ {hash} -> InFlightHtlc],
                   index : Nat]
      /\ less.local_balance_msat = sides[n].local_balance_msat
  BY <1>4 DEF remove_outgoing_htlc
<1> HIDE DEF new, less, amt
<1>6. new[n].local_balance_msat
         = sides[n].local_balance_msat + (IF success THEN 0 ELSE amt)
  BY <1>2, <1>3, <1>5
<1>7. sides[n].local_balance_msat \in Nat
  BY <1>4
<1>8. ASSUME NEW m \in Ends(c), m # n
      PROVE  /\ sides[m].local_balance_msat \in Nat
             /\ new[m].local_balance_msat
                   = sides[m].local_balance_msat + (IF success THEN amt ELSE 0)
  <2>1. PICK E \in SUBSET Hash :
           sides[m] \in [local_balance_msat : Nat, in_flight : [E -> InFlightHtlc], index : Nat]
    BY <1>1, <1>8 DEF SideTyped
  <2>2. QED
    BY <2>1, <1>2, <1>3, <1>8
<1>9. QED
  BY <1>6, <1>7, <1>8 DEF new, amt

===============================================================================
