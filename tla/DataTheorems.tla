----------------------------- MODULE DataTheorems -----------------------------
(***************************************************************************)
(* What the proofs need of numbers, finite sets, sequences and sums: least *)
(* and largest elements, division, sequences without duplicates, and that  *)
(* a sum over a finite set takes its elements in any order.                *)
(*                                                                         *)
(* A sum is a recursive function on the subsets of its index set, which    *)
(* takes an element with CHOOSE.  The facts about it are proved with a     *)
(* subset of least cardinality that is a counterexample.                   *)
(***************************************************************************)
EXTENDS Integers, Sequences, FiniteSetsExt, Functions, FiniteSetTheorems,
        WellFoundedInduction, TLAPS

-----------------------------------------------------------------------------
(* Least and largest elements *)

\* A set of natural numbers has a least element.
LEMMA LeastOf ==
    ASSUME NEW S \in SUBSET Nat, S # {}
    PROVE  \E x \in S : \A y \in S : x <= y
<1> DEFINE Less == {ss \in Nat \X Nat : ss[1] < ss[2]}
<1>1. IsWellFoundedOn(Less, Nat)
  BY NatLessThanWellFounded, Zenon DEF OpToRel
<1> HIDE DEF Less
<1>2. PICK x \in S : \A y \in S : ~ (<<y, x>> \in Less)
  BY <1>1, WFMin
<1>3. ASSUME NEW y \in S
      PROVE  x <= y
  <2>1. x \in Nat /\ y \in Nat
    OBVIOUS
  <2>2. y < x => <<y, x>> \in Less
    BY <2>1, Zenon DEF Less
  <2> QED
    BY <1>2, <2>1, <2>2
<1> QED
  BY <1>3

\* Among finite sets there is one with the fewest elements.
LEMMA SmallestOf ==
    ASSUME NEW C, C # {}, \A s \in C : IsFiniteSet(s)
    PROVE  \E s \in C : \A t \in C : Cardinality(s) <= Cardinality(t)
<1> DEFINE N == {Cardinality(s) : s \in C}
<1>1. N \in SUBSET Nat /\ N # {}
  BY FS_CardinalityType
<1>2. PICK n \in N : \A m \in N : n <= m
  BY <1>1, LeastOf
<1> QED
  BY <1>2

\* Removing an element makes a finite set smaller.
LEMMA RemoveShrinks ==
    ASSUME NEW S, IsFiniteSet(S), NEW x \in S
    PROVE  /\ IsFiniteSet(S \ {x})
           /\ Cardinality(S \ {x}) \in Nat
           /\ Cardinality(S) = Cardinality(S \ {x}) + 1
           /\ Cardinality(S \ {x}) < Cardinality(S)
<1>1. IsFiniteSet(S \ {x}) /\ Cardinality(S \ {x}) = Cardinality(S) - 1
  BY FS_RemoveElement
<1>2. Cardinality(S) \in Nat /\ Cardinality(S \ {x}) \in Nat
  BY <1>1, FS_CardinalityType
<1> QED
  BY <1>1, <1>2

\* A function has finitely many values on a finite set.
LEMMA ImageFinite ==
    ASSUME NEW f, NEW S, IsFiniteSet(S)
    PROVE  IsFiniteSet({f[i] : i \in S})
<1> DEFINE Image(T) == {f[i] : i \in T}
           Bad == {T \in SUBSET S : ~ IsFiniteSet(Image(T))}
<1> SUFFICES ASSUME Bad # {} PROVE FALSE
  OBVIOUS
<1>1. \A T \in Bad : IsFiniteSet(T)
  BY FS_Subset
<1>2. PICK T \in Bad : \A U \in Bad : Cardinality(T) <= Cardinality(U)
  <2> HIDE DEF Bad
  <2> QED
    BY <1>1, SmallestOf
<1>3. PICK t \in T : TRUE
  <2>1. Image({}) = {}
    OBVIOUS
  <2> HIDE DEF Image
  <2> QED
    BY <2>1, FS_EmptySet
<1>4. T \ {t} \notin Bad
  <2>1. IsFiniteSet(T)
    BY <1>1
  <2>2. /\ Cardinality(T \ {t}) \in Nat /\ Cardinality(T) \in Nat
        /\ Cardinality(T \ {t}) < Cardinality(T)
    BY <2>1, RemoveShrinks, FS_CardinalityType
  <2> HIDE DEF Bad
  <2> QED
    BY <1>2, <2>2
<1>5. Image(T) = Image(T \ {t}) \cup {f[t]}
  OBVIOUS
<1> HIDE DEF Image
<1>6. IsFiniteSet(Image(T \ {t})) /\ ~ IsFiniteSet(Image(T))
  BY <1>4
<1>7. PICK A : A = Image(T \ {t})
  OBVIOUS
<1>8. IsFiniteSet(A \cup {f[t]})
  BY <1>6, <1>7, FS_AddElement
<1> QED
  BY <1>5, <1>6, <1>7, <1>8

\* A finite set of integers has a largest element.
LEMMA MaxOf ==
    ASSUME NEW S \in SUBSET Int, IsFiniteSet(S), S # {}
    PROVE  Max(S) \in S /\ \A x \in S : x <= Max(S)
<1> DEFINE Bad == {T \in SUBSET S : T # {} /\ ~ \E m \in T : \A x \in T : x <= m}
<1>1. Bad = {}
  <2> SUFFICES ASSUME Bad # {} PROVE FALSE
    OBVIOUS
  <2>1. \A T \in Bad : IsFiniteSet(T)
    BY FS_Subset
  <2>2. PICK T \in Bad : \A U \in Bad : Cardinality(T) <= Cardinality(U)
    BY <2>1, SmallestOf
  <2>3. PICK t \in T : TRUE
    OBVIOUS
  <2>4. T \ {t} \notin Bad
    <3>1. IsFiniteSet(T)
      BY <2>1
    <3>2. /\ Cardinality(T \ {t}) \in Nat /\ Cardinality(T) \in Nat
          /\ Cardinality(T \ {t}) < Cardinality(T)
      BY <3>1, RemoveShrinks, FS_CardinalityType
    <3> HIDE DEF Bad
    <3> QED
      BY <2>2, <3>2
  <2>5. T \ {t} # {}
    BY <2>3
  <2>6. PICK m \in T \ {t} : \A x \in T \ {t} : x <= m
    BY <2>4, <2>5
  <2>7. t \in Int /\ m \in Int /\ \A x \in T : x \in Int
    OBVIOUS
  <2>8. CASE m <= t
    BY <2>6, <2>7, <2>8
  <2>9. CASE t <= m
    BY <2>6, <2>7, <2>9
  <2> QED
    BY <2>7, <2>8, <2>9
<1>2. \E m \in S : \A x \in S : x <= m
  BY <1>1
<1> QED
  BY <1>2 DEF Max

-----------------------------------------------------------------------------
(* Products and quotients *)

\* Multiplication keeps the order, and a positive factor can be cancelled.
LEMMA TimesMonotone ==
    ASSUME NEW a \in Int, NEW b \in Int, NEW c \in Nat
    PROVE  /\ a <= b => a * c <= b * c
           /\ a * c <= b * c /\ c # 0 => a <= b
OBVIOUS

\* A quotient is rounded down.
LEMMA QuotientBounds ==
    ASSUME NEW a \in Nat, NEW b \in Nat \ {0}
    PROVE  /\ a \div b \in Nat
           /\ (a \div b) * b <= a
           /\ a < ((a \div b) + 1) * b
OBVIOUS

-----------------------------------------------------------------------------
(* Sequences without duplicates *)

\* Appending adds an element, and no duplicate if it is a new one.
LEMMA AppendIs ==
    ASSUME NEW S, NEW s \in Seq(S), NEW x \in S
    PROVE  /\ Append(s, x) \in Seq(S)
           /\ Len(Append(s, x)) = Len(s) + 1
           /\ Range(Append(s, x)) = Range(s) \cup {x}
           /\ IsInjective(s) /\ x \notin Range(s) => IsInjective(Append(s, x))
<1>1. /\ Append(s, x) \in Seq(S)
      /\ Len(Append(s, x)) = Len(s) + 1
      /\ DOMAIN s = 1 .. Len(s)
      /\ DOMAIN Append(s, x) = 1 .. (Len(s) + 1)
      /\ Len(s) \in Nat
      /\ \A i \in 1 .. Len(s) : Append(s, x)[i] = s[i]
      /\ Append(s, x)[Len(s) + 1] = x
  OBVIOUS
<1>2. Range(Append(s, x)) = Range(s) \cup {x}
  <2>1. \A i \in DOMAIN Append(s, x) : i \in DOMAIN s \/ i = Len(s) + 1
    BY <1>1
  <2>2. \A i \in DOMAIN s : i \in DOMAIN Append(s, x)
    BY <1>1
  <2>3. Len(s) + 1 \in DOMAIN Append(s, x)
    BY <1>1
  <2> QED BY <1>1, <2>1, <2>2, <2>3 DEF Range
<1>3. IsInjective(s) /\ x \notin Range(s) => IsInjective(Append(s, x))
  BY <1>1 DEF IsInjective, Range
<1> QED BY <1>1, <1>2, <1>3

\* Concatenating adds elements, and no duplicates if they are new ones.
LEMMA ConcatIs ==
    ASSUME NEW S, NEW s \in Seq(S), NEW t \in Seq(S)
    PROVE  /\ s \o t \in Seq(S)
           /\ Range(s \o t) = Range(s) \cup Range(t)
           /\ /\ IsInjective(s) /\ IsInjective(t)
              /\ \A x \in Range(s) : x \notin Range(t)
              => IsInjective(s \o t)
<1>1. /\ s \o t \in Seq(S)
      /\ Len(s) \in Nat /\ Len(t) \in Nat
      /\ DOMAIN s = 1 .. Len(s) /\ DOMAIN t = 1 .. Len(t)
      /\ DOMAIN (s \o t) = 1 .. (Len(s) + Len(t))
      /\ \A i \in 1 .. (Len(s) + Len(t)) :
            (s \o t)[i] = IF i <= Len(s) THEN s[i] ELSE t[i - Len(s)]
  OBVIOUS
<1>2. PICK u : u = s \o t
  OBVIOUS
<1>3. \A i \in DOMAIN u : \/ i \in DOMAIN s /\ u[i] = s[i]
                          \/ i > Len(s) /\ i - Len(s) \in DOMAIN t /\ u[i] = t[i - Len(s)]
  BY <1>1, <1>2
<1>4. \A i \in DOMAIN s : i \in DOMAIN u /\ u[i] = s[i]
  BY <1>1, <1>2
<1>5. ASSUME NEW i \in DOMAIN t
      PROVE  i + Len(s) \in DOMAIN u /\ u[i + Len(s)] = t[i]
  <2>1. i + Len(s) \in 1 .. (Len(s) + Len(t)) /\ ~ (i + Len(s) <= Len(s))
        /\ (i + Len(s)) - Len(s) = i
    BY <1>1
  <2> QED
    BY <1>1, <1>2, <2>1
<1>6. Range(u) = Range(s) \cup Range(t)
  BY <1>3, <1>4, <1>5 DEF Range
<1>7. ASSUME IsInjective(s), IsInjective(t), \A x \in Range(s) : x \notin Range(t)
      PROVE  IsInjective(u)
  <2> SUFFICES ASSUME NEW i \in DOMAIN u, NEW j \in DOMAIN u, u[i] = u[j]
               PROVE  i = j
    BY DEF IsInjective
  <2>1. i \in Int /\ j \in Int /\ Len(s) \in Int
    BY <1>1, <1>2
  <2>2. CASE i \in DOMAIN s /\ j \in DOMAIN s
    BY <1>4, <1>7, <2>2 DEF IsInjective
  <2>3. CASE i \notin DOMAIN s /\ j \notin DOMAIN s
    <3>1. i - Len(s) = j - Len(s)
      BY <1>3, <1>7, <2>3 DEF IsInjective
    <3> QED
      BY <2>1, <3>1
  <2>4. CASE i \in DOMAIN s /\ j \notin DOMAIN s
    BY <1>3, <1>4, <1>7, <2>4 DEF Range
  <2>5. CASE i \notin DOMAIN s /\ j \in DOMAIN s
    BY <1>3, <1>4, <1>7, <2>5 DEF Range
  <2> QED
    BY <2>2, <2>3, <2>4, <2>5
<1> QED
  BY <1>1, <1>2, <1>6, <1>7

\* A sequence without duplicates is as long as it has elements.
LEMMA InjectiveLength ==
    ASSUME NEW S, NEW s \in Seq(S), IsInjective(s)
    PROVE  Len(s) = Cardinality(Range(s))
<1>1. /\ Len(s) \in Nat
      /\ DOMAIN s = 1 .. Len(s)
  OBVIOUS
<1>2. PICK D, R : D = 1 .. Len(s) /\ R = Range(s)
  OBVIOUS
<1>3. s \in Bijection(D, R)
  <2>1. s \in [D -> R]
    BY <1>1, <1>2 DEF Range
  <2>2. \A t \in R : \E i \in D : s[i] = t
    BY <1>1, <1>2 DEF Range
  <2> QED
    BY <1>2, <2>1, <2>2 DEF Bijection, Injection, Surjection, IsInjective
<1>4. IsFiniteSet(D) /\ Cardinality(D) = Len(s)
  BY <1>1, <1>2, FS_Interval
<1>5. ExistsBijection(D, R)
  BY <1>3 DEF ExistsBijection
<1>6. Cardinality(R) = Cardinality(D)
  BY <1>4, <1>5, FS_Bijection
<1> QED
  BY <1>2, <1>4, <1>6

-----------------------------------------------------------------------------
(* Sums *)

\* The element a sum takes out of a set.
Taken(s) == CHOOSE x \in s : TRUE

\* g has the sums of f over the subsets of S.
IsSumTable(g, f, S) ==
    g = [s \in SUBSET S |->
           IF s = {} THEN 0 ELSE f[Taken(s)] + g[s \ {Taken(s)}]]

\* f has an integer for each element of S.
IsIntOn(f, S) == \A i \in S : f[i] \in Int

\* The sum over S can take any element first.
TakesAny(g, f, S) == \A x \in S : g[S] = f[x] + g[S \ {x}]

\* Something is taken.
LEMMA TakenIn == ASSUME NEW s, s # {} PROVE Taken(s) \in s
BY DEF Taken

\* There is such a table: one for the subsets with at most n elements, for
\* every n.
LEMMA SumTableExists ==
    ASSUME NEW f, NEW S, IsFiniteSet(S)
    PROVE  \E g : IsSumTable(g, f, S)
<1> DEFINE Upto(n) == {s \in SUBSET S : Cardinality(s) <= n}
           Step(g, s) == IF s = {} THEN 0 ELSE f[Taken(s)] + g[s \ {Taken(s)}]
           Table(g, n) == g = [s \in Upto(n) |-> Step(g, s)]
           Bad == {n \in Nat : ~ \E g : Table(g, n)}
<1>1. \A s \in SUBSET S : IsFiniteSet(s) /\ Cardinality(s) \in Nat
  BY FS_Subset, FS_CardinalityType
<1>2. Bad = {}
  <2> SUFFICES ASSUME Bad # {} PROVE FALSE
    OBVIOUS
  <2>1. PICK n \in Bad : \A m \in Bad : n <= m
    <3>1. Bad \in SUBSET Nat
      OBVIOUS
    <3> QED
      BY <3>1, LeastOf
  <2>2. PICK h : \A t \in Upto(n - 1) : h[t] = Step(h, t)
    <3>1. CASE n = 0
      <4>1. Upto(n - 1) = {}
        BY <1>1, <3>1
      <4> QED
        BY <4>1
    <3>2. CASE n # 0
      <4>1. n - 1 \in Nat /\ ~ (n <= n - 1)
        BY <3>2
      <4>2. n - 1 \notin Bad
        BY <2>1, <4>1
      <4>3. PICK h : Table(h, n - 1)
        BY <4>1, <4>2
      <4>4. \A t \in Upto(n - 1) : h[t] = Step(h, t)
        BY <4>3
      <4> QED
        BY <4>4
    <3> QED
      BY <3>1, <3>2
  <2> DEFINE g == [s \in Upto(n) |-> Step(h, s)]
  <2>3. ASSUME NEW s \in Upto(n), s # {}
        PROVE  g[s \ {Taken(s)}] = h[s \ {Taken(s)}]
    <3> DEFINE t == s \ {Taken(s)}
    <3>1. t \in SUBSET S /\ Cardinality(t) < Cardinality(s)
      BY <1>1, <2>3, TakenIn, RemoveShrinks
    <3>2. Cardinality(t) \in Nat /\ Cardinality(s) \in Nat /\ n \in Nat
      BY <1>1, <3>1
    <3>3. t \in Upto(n - 1) /\ t \in Upto(n)
      BY <3>1, <3>2
    <3>4. h[t] = Step(h, t)
      BY <2>2, <3>3
    <3> HIDE DEF t, Step
    <3> QED
      BY <3>3, <3>4 DEF t
  <2>4. \A s \in Upto(n) : Step(h, s) = Step(g, s)
    <3> HIDE DEF g, Upto
    <3> QED
      BY <2>3
  <2>5. Table(g, n)
    <3> HIDE DEF Step, Upto
    <3> QED
      BY <2>4
  <2> HIDE DEF Table, g
  <2> QED
    BY <2>5
<1>3. Cardinality(S) \in Nat /\ Upto(Cardinality(S)) = SUBSET S
  BY FS_CardinalityType, FS_Subset
<1>4. PICK g : Table(g, Cardinality(S))
  <2> HIDE DEF Table
  <2> QED
    BY <1>2, <1>3
<1>5. IsSumTable(g, f, S)
  BY <1>3, <1>4 DEF IsSumTable
<1> QED
  BY <1>5

\* Tables agree where their summands do.
LEMMA SumTablesAgree ==
    ASSUME NEW f, NEW S, NEW g, IsSumTable(g, f, S),
           NEW k, NEW T, NEW h, IsSumTable(h, k, T),
           NEW U, U \subseteq S, U \subseteq T, IsFiniteSet(U),
           \A i \in U : f[i] = k[i]
    PROVE  g[U] = h[U]
<1> DEFINE Bad == {s \in SUBSET U : g[s] # h[s]}
<1> SUFFICES ASSUME Bad # {} PROVE FALSE
  OBVIOUS
<1>1. \A s \in Bad : IsFiniteSet(s)
  BY FS_Subset
<1>2. PICK s \in Bad : \A t \in Bad : Cardinality(s) <= Cardinality(t)
  BY <1>1, SmallestOf
<1>3. /\ g[s] = IF s = {} THEN 0 ELSE f[Taken(s)] + g[s \ {Taken(s)}]
      /\ h[s] = IF s = {} THEN 0 ELSE k[Taken(s)] + h[s \ {Taken(s)}]
  <2>1. s \in SUBSET S /\ s \in SUBSET T
    OBVIOUS
  <2> QED
    BY <2>1 DEF IsSumTable
<1>4. s # {}
  BY <1>3
<1>5. Taken(s) \in s
  BY <1>4, TakenIn
<1>6. s \ {Taken(s)} \notin Bad
  <2>1. /\ Cardinality(s \ {Taken(s)}) \in Nat /\ Cardinality(s) \in Nat
        /\ Cardinality(s \ {Taken(s)}) < Cardinality(s)
    BY <1>1, <1>5, RemoveShrinks, FS_CardinalityType
  <2> QED
    BY <1>2, <2>1
<1>7. g[s \ {Taken(s)}] = h[s \ {Taken(s)}] /\ f[Taken(s)] = k[Taken(s)]
  BY <1>5, <1>6
<1> QED
  BY <1>3, <1>4, <1>7

\* The sum of the library is the entry of a table.
LEMMA SumIsInTable ==
    ASSUME NEW f, NEW S, IsFiniteSet(S)
    PROVE  \E g : IsSumTable(g, f, S) /\ SumFunctionOnSet(f, S) = g[S]
<1> DEFINE g == CHOOSE h : IsSumTable(h, f, S)
<1>1. IsSumTable(g, f, S)
  BY SumTableExists
<1>2. SumFunctionOnSet(f, S) = g[S]
  BY DEF SumFunctionOnSet, FoldFunctionOnSet, MapThenFoldSet, IsSumTable, Taken
<1> QED
  BY <1>1, <1>2

\* A sum depends on its summands only.
LEMMA SumSame ==
    ASSUME NEW f, NEW k, NEW S, IsFiniteSet(S), \A i \in S : f[i] = k[i]
    PROVE  SumFunctionOnSet(f, S) = SumFunctionOnSet(k, S)
<1>1. PICK g : IsSumTable(g, f, S) /\ SumFunctionOnSet(f, S) = g[S]
  BY SumIsInTable
<1>2. PICK h : IsSumTable(h, k, S) /\ SumFunctionOnSet(k, S) = h[S]
  BY SumIsInTable
<1>3. g[S] = h[S]
  BY <1>1, <1>2, SumTablesAgree
<1> QED
  BY <1>1, <1>2, <1>3

\* The sum of nothing.
LEMMA SumOfNothing ==
    ASSUME NEW f
    PROVE  SumFunctionOnSet(f, {}) = 0
<1>1. PICK g : IsSumTable(g, f, {}) /\ SumFunctionOnSet(f, {}) = g[{}]
  BY SumIsInTable, FS_EmptySet
<1> QED
  BY <1>1 DEF IsSumTable

\* Sums of integers are integers.
LEMMA SumTableType ==
    ASSUME NEW f, NEW S, IsFiniteSet(S), \A i \in S : f[i] \in Int,
           NEW g, IsSumTable(g, f, S)
    PROVE  \A s \in SUBSET S : g[s] \in Int
<1> DEFINE Bad == {s \in SUBSET S : g[s] \notin Int}
<1> SUFFICES ASSUME Bad # {} PROVE FALSE
  OBVIOUS
<1>1. \A s \in Bad : IsFiniteSet(s)
  BY FS_Subset
<1>2. PICK s \in Bad : \A t \in Bad : Cardinality(s) <= Cardinality(t)
  BY <1>1, SmallestOf
<1>3. g[s] = IF s = {} THEN 0 ELSE f[Taken(s)] + g[s \ {Taken(s)}]
  BY DEF IsSumTable
<1>4. s # {}
  BY <1>3
<1>5. Taken(s) \in s
  BY <1>4, TakenIn
<1>6. s \ {Taken(s)} \notin Bad
  <2>1. /\ Cardinality(s \ {Taken(s)}) \in Nat /\ Cardinality(s) \in Nat
        /\ Cardinality(s \ {Taken(s)}) < Cardinality(s)
    BY <1>1, <1>5, RemoveShrinks, FS_CardinalityType
  <2> HIDE DEF Bad
  <2> QED
    BY <1>2, <2>1
<1>7. g[s \ {Taken(s)}] \in Int /\ f[Taken(s)] \in Int
  BY <1>5, <1>6
<1> QED
  BY <1>3, <1>4, <1>7

\* A sum takes any of its elements first.
LEMMA SumTableAnyOrder ==
    ASSUME NEW f, NEW S, IsFiniteSet(S), IsIntOn(f, S),
           NEW g, IsSumTable(g, f, S)
    PROVE  TakesAny(g, f, S)
<1> DEFINE Bad == {s \in SUBSET S : ~ TakesAny(g, f, s)}
<1> SUFFICES ASSUME Bad # {} PROVE FALSE
  OBVIOUS
<1>1. \A s \in Bad : IsFiniteSet(s)
  BY FS_Subset
<1>2. PICK s \in Bad : \A t \in Bad : Cardinality(s) <= Cardinality(t)
  BY <1>1, SmallestOf
<1>3. PICK x \in s : g[s] # f[x] + g[s \ {x}]
  BY DEF TakesAny
<1> DEFINE y == Taken(s)
<1>4. y \in s /\ g[s] = f[y] + g[s \ {y}]
  BY TakenIn DEF IsSumTable
<1> HIDE DEF y
<1>5. x # y
  BY <1>3, <1>4
<1>6. ASSUME NEW z \in s
      PROVE  s \ {z} \notin Bad
  <2>1. IsFiniteSet(s)
    BY <1>1
  <2>2. /\ Cardinality(s \ {z}) \in Nat /\ Cardinality(s) \in Nat
        /\ Cardinality(s \ {z}) < Cardinality(s)
    BY <2>1, RemoveShrinks, FS_CardinalityType
  <2> HIDE DEF Bad
  <2> QED
    BY <1>2, <2>2
<1>7. g[s \ {y}] = f[x] + g[(s \ {y}) \ {x}]
  BY <1>4, <1>5, <1>6 DEF TakesAny
<1>8. g[s \ {x}] = f[y] + g[(s \ {x}) \ {y}]
  BY <1>4, <1>5, <1>6 DEF TakesAny
<1>9. (s \ {y}) \ {x} = (s \ {x}) \ {y}
  OBVIOUS
<1> DEFINE r == g[(s \ {x}) \ {y}]
<1>10. f[x] \in Int /\ f[y] \in Int /\ r \in Int
  BY <1>4, SumTableType DEF IsIntOn
<1>11. f[y] + (f[x] + r) = f[x] + (f[y] + r)
  <2> HIDE DEF r
  <2> QED
    BY <1>10
<1>12. g[s] = f[y] + (f[x] + r) /\ g[s \ {x}] = f[y] + r
  BY <1>4, <1>7, <1>8, <1>9
<1> HIDE DEF r
<1> QED
  BY <1>3, <1>11, <1>12

\* A sum of integers is an integer.
LEMMA SumType ==
    ASSUME NEW f, NEW S, IsFiniteSet(S), \A i \in S : f[i] \in Int
    PROVE  SumFunctionOnSet(f, S) \in Int
<1>1. PICK g : IsSumTable(g, f, S) /\ SumFunctionOnSet(f, S) = g[S]
  BY SumIsInTable
<1> QED
  BY <1>1, SumTableType

\* Adding an element to the set adds its summand to the sum.
LEMMA SumAddElement ==
    ASSUME NEW f, NEW S, IsFiniteSet(S), NEW x, x \notin S,
           \A i \in S \cup {x} : f[i] \in Int
    PROVE  SumFunctionOnSet(f, S \cup {x}) = f[x] + SumFunctionOnSet(f, S)
<1>1. PICK T : T = S \cup {x}
  OBVIOUS
<1>2. IsFiniteSet(T) /\ IsIntOn(f, T)
  BY <1>1, FS_AddElement DEF IsIntOn
<1>3. PICK g : IsSumTable(g, f, T) /\ SumFunctionOnSet(f, T) = g[T]
  BY <1>2, SumIsInTable
<1>4. PICK h : IsSumTable(h, f, S) /\ SumFunctionOnSet(f, S) = h[S]
  BY SumIsInTable
<1>5. g[S] = h[S]
  BY <1>1, <1>3, <1>4, SumTablesAgree
<1>6. x \in T /\ T \ {x} = S
  BY <1>1
<1>7. g[T] = f[x] + g[T \ {x}]
  BY <1>2, <1>3, <1>6, SumTableAnyOrder DEF TakesAny
<1>8. g[T] = f[x] + g[S]
  BY <1>6, <1>7
<1> QED
  BY <1>1, <1>3, <1>4, <1>5, <1>8

\* The sum of one element.
LEMMA SumOfOne ==
    ASSUME NEW f, NEW x, f[x] \in Int
    PROVE  SumFunctionOnSet(f, {x}) = f[x]
<1>1. SumFunctionOnSet(f, {} \cup {x}) = f[x] + SumFunctionOnSet(f, {})
  BY SumAddElement, FS_EmptySet
<1>2. {} \cup {x} = {x}
  OBVIOUS
<1> QED
  BY <1>1, <1>2, SumOfNothing
=============================================================================
