----------------------------- MODULE SumTheorems -----------------------------
(***************************************************************************)
(* What sums over finitely many rows are: naturals, additive, monotone,    *)
(* and changed by the difference when one row changes.                     *)
(***************************************************************************)
EXTENDS Sums, Integers, FiniteSetTheorems, TLAPS

\* The units of one row.
LEMMA OneRow ==
    ASSUME NEW n \in Nat, NEW r
    PROVE  IsFiniteSet({r} \X (1 .. n)) /\ Cardinality({r} \X (1 .. n)) = n
<1>1. IsFiniteSet({r}) /\ Cardinality({r}) = 1
    BY FS_Singleton
<1>2. IsFiniteSet(1 .. n) /\ Cardinality(1 .. n) = n
    BY FS_Interval
<1>3. IsFiniteSet({r} \X (1 .. n))
      /\ Cardinality({r} \X (1 .. n)) = Cardinality({r}) * Cardinality(1 .. n)
    BY <1>1, <1>2, FS_Product
<1> QED BY <1>1, <1>2, <1>3

\* Finitely many rows have finitely many units.
LEMMA UnitsFinite ==
    ASSUME NEW S, IsFiniteSet(S), NEW f, \A r \in S : f[r] \in Nat
    PROVE  IsFiniteSet(Units(f, S))
<1> DEFINE T == {{r} \X (1 .. f[r]) : r \in S}
           g == [r \in S |-> {r} \X (1 .. f[r])]
<1>1. g \in Surjection(S, T)
    BY DEF Surjection
<1>2. IsFiniteSet(T)
    BY <1>1, FS_Surjection
<1>3. \A U \in T : IsFiniteSet(U)
    BY OneRow
<1> QED BY <1>2, <1>3, FS_UNION DEF Units

\* A sum is a natural number.
THEOREM SumNat ==
    ASSUME NEW S, IsFiniteSet(S), NEW f, \A r \in S : f[r] \in Nat
    PROVE  SumOver(f, S) \in Nat
BY UnitsFinite, FS_CardinalityType DEF SumOver

\* No rows come to nothing.
THEOREM SumEmpty == ASSUME NEW f PROVE SumOver(f, {}) = 0
<1>1. Units(f, {}) = {} BY DEF Units
<1> QED BY <1>1, FS_EmptySet DEF SumOver

\* Only the amounts of the rows matter.
THEOREM SumSame ==
    ASSUME NEW S, NEW f, NEW g, \A r \in S : f[r] = g[r]
    PROVE  SumOver(f, S) = SumOver(g, S)
<1>1. Units(f, S) = Units(g, S) BY DEF Units
<1> QED BY <1>1 DEF SumOver

\* More rows, and greater amounts, do not come to less.
THEOREM SumMonotone ==
    ASSUME NEW S, IsFiniteSet(S), NEW T \in SUBSET S, NEW f, NEW g,
           \A r \in S : g[r] \in Nat,
           \A r \in T : f[r] \in Nat /\ f[r] <= g[r]
    PROVE  SumOver(f, T) <= SumOver(g, S)
<1>1. Units(f, T) \subseteq Units(g, S)
    <2> SUFFICES ASSUME NEW r \in T, NEW u \in {r} \X (1 .. f[r])
                 PROVE  u \in {r} \X (1 .. g[r])
        BY DEF Units
    <2> QED OBVIOUS
<1> QED BY <1>1, UnitsFinite, FS_Subset DEF SumOver

\* Two groups of rows come to what each comes to.
THEOREM SumUnion ==
    ASSUME NEW S, NEW T, IsFiniteSet(S), IsFiniteSet(T), S \cap T = {}, NEW f,
           \A r \in S \cup T : f[r] \in Nat
    PROVE  SumOver(f, S \cup T) = SumOver(f, S) + SumOver(f, T)
<1>1. Units(f, S \cup T) = Units(f, S) \cup Units(f, T)
    BY DEF Units
<1>2. Units(f, S) \cap Units(f, T) = {}
    BY DEF Units
<1>3. /\ IsFiniteSet(Units(f, S)) /\ IsFiniteSet(Units(f, T))
      /\ Cardinality(Units(f, S)) \in Nat /\ Cardinality(Units(f, T)) \in Nat
    BY UnitsFinite, FS_CardinalityType
<1>4. Cardinality(Units(f, S) \cup Units(f, T))
        = Cardinality(Units(f, S)) + Cardinality(Units(f, T)) - Cardinality({})
    BY <1>2, <1>3, FS_Union
<1>5. Cardinality({}) = 0
    BY FS_EmptySet
<1>6. Cardinality(Units(f, S \cup T)) = Cardinality(Units(f, S)) + Cardinality(Units(f, T))
    <2> DEFINE a == Cardinality(Units(f, S))
               b == Cardinality(Units(f, T))
               c == Cardinality(Units(f, S) \cup Units(f, T))
               d == Cardinality({})
    <2>1. a \in Nat /\ b \in Nat /\ c = a + b - d /\ d = 0
        BY <1>3, <1>4, <1>5
    <2> HIDE DEF a, b, c, d
    <2>2. c = a + b
        BY <2>1
    <2> QED BY <1>1, <2>2 DEF a, b, c
<1> QED BY <1>6 DEF SumOver

\* One row comes to its amount.
THEOREM SumOne ==
    ASSUME NEW r, NEW f, f[r] \in Nat PROVE SumOver(f, {r}) = f[r]
<1>1. Units(f, {r}) = {r} \X (1 .. f[r]) BY DEF Units
<1> QED BY <1>1, OneRow DEF SumOver

\* A row is counted once, with its amount.
THEOREM SumWith ==
    ASSUME NEW S, IsFiniteSet(S), NEW r, NEW f, \A q \in S \cup {r} : f[q] \in Nat
    PROVE  /\ r \notin S => SumOver(f, S \cup {r}) = SumOver(f, S) + f[r]
           /\ r \in S => SumOver(f, S) = SumOver(f, S \ {r}) + f[r]
<1>0. IsFiniteSet({r}) /\ IsFiniteSet(S \ {r})
    BY FS_Singleton, FS_RemoveElement
<1>1. ASSUME r \notin S PROVE SumOver(f, S \cup {r}) = SumOver(f, S) + f[r]
    <2>1. S \cap {r} = {} BY <1>1
    <2>2. SumOver(f, S \cup {r}) = SumOver(f, S) + SumOver(f, {r})
        BY <1>0, <2>1, SumUnion
    <2>3. SumOver(f, {r}) = f[r]
        BY SumOne
    <2> QED BY <2>2, <2>3
<1>2. ASSUME r \in S PROVE SumOver(f, S) = SumOver(f, S \ {r}) + f[r]
    <2>1. S = (S \ {r}) \cup {r} BY <1>2
    <2>2. SumOver(f, (S \ {r}) \cup {r}) = SumOver(f, S \ {r}) + SumOver(f, {r})
        BY <1>0, <1>2, SumUnion
    <2> QED BY <2>1, <2>2, SumOne
<1> QED BY <1>1, <1>2

\* When one row's amount changes, the sum changes by as much.
THEOREM SumUpdate ==
    ASSUME NEW S, IsFiniteSet(S), NEW r \in S, NEW f, NEW g,
           \A q \in S : f[q] \in Nat /\ g[q] \in Nat,
           \A q \in S \ {r} : f[q] = g[q]
    PROVE  SumOver(g, S) + f[r] = SumOver(f, S) + g[r]
<1>1. SumOver(f, S \ {r}) = SumOver(g, S \ {r})
    BY SumSame
<1>2. SumOver(f, S) = SumOver(f, S \ {r}) + f[r] /\ SumOver(g, S) = SumOver(g, S \ {r}) + g[r]
    BY SumWith
<1>3. SumOver(f, S \ {r}) \in Nat
    BY SumNat, FS_RemoveElement
<1> QED BY <1>1, <1>2, <1>3
=============================================================================
