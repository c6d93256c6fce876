----------------------------- MODULE BalanceProofs -----------------------------
(***************************************************************************)
(* Proofs about processTransactions and balance, for any ledger that obeys  *)
(* the rules of the chain, any set of scanned addresses, any transactions   *)
(* that do not parse, and every order in which Go may visit the maps: the   *)
(* balance is the value of the unspent outputs, and no sanity check fires.  *)
(***************************************************************************)
EXTENDS Balance, FiniteSetTheorems, WellFoundedInduction, TLAPS

-----------------------------------------------------------------------------
(* Sums over finite sets.  A sum is a function on the subsets of a set,     *)
(* defined by taking one element off; it does not depend on which.          *)

Pick(s) == CHOOSE x \in s : TRUE

\* g is the sum of val over each subset of D.
IsSum(g, D, val) ==
  /\ g[{}] = 0
  /\ \A s \in SUBSET D : s # {} => g[s] = val[Pick(s)] + g[s \ {Pick(s)}]

\* The pick of a set is in it.
LEMMA PickIsIn == \A s : s # {} => Pick(s) \in s
  BY DEF Pick

\* Among sets of elements of a finite set one has no other below it.
LEMMA SmallestSet ==
  ASSUME NEW D, IsFiniteSet(D), NEW F \in SUBSET SUBSET D, F # {}
  PROVE  \E x \in F : \A y \in SUBSET x : y \in F => y = x
<1>1. F \subseteq FiniteSubsetsOf(D)
  BY FS_Subset DEF FiniteSubsetsOf
<1>2. IsWellFoundedOn(StrictSubsetOrdering(D), FiniteSubsetsOf(D))
  BY FS_StrictSubsetOrderingWellFounded
<1>3. PICK x \in F : \A y \in F : <<y, x>> \notin StrictSubsetOrdering(D)
  BY <1>1, <1>2, WFMin
<1>4. ASSUME NEW y \in SUBSET x, y \in F, y # x PROVE FALSE
  BY <1>3, <1>4 DEF StrictSubsetOrdering
<1> QED BY <1>4

\* A sum over a set is one over every set below it.
LEMMA SumRestricts ==
  ASSUME NEW D, NEW val, NEW g, IsSum(g, D, val), NEW S \in SUBSET D
  PROVE  IsSum(g, S, val)
BY DEF IsSum

\* Two sums over one set agree.
LEMMA SumUnique ==
  ASSUME NEW D, IsFiniteSet(D), NEW val, NEW g, NEW h,
         IsSum(g, D, val), IsSum(h, D, val)
  PROVE  g[D] = h[D]
<1> DEFINE F == {T \in SUBSET D : g[T] # h[T]}
<1>1. ASSUME F # {} PROVE FALSE
  <2>1. PICK T \in F : \A y \in SUBSET T : y \in F => y = T
    <3>1. F \in SUBSET SUBSET D
      OBVIOUS
    <3> HIDE DEF F
    <3> QED BY <1>1, <3>1, SmallestSet
  <2>2. /\ T \in SUBSET D /\ g[T] # h[T]
        /\ \A y \in SUBSET T : y # T => g[y] = h[y]
    BY <2>1
  <2> HIDE DEF F
  <2>3. T # {} /\ Pick(T) \in T
    BY <2>2, PickIsIn DEF IsSum
  <2>4. g[T \ {Pick(T)}] = h[T \ {Pick(T)}]
    BY <2>2, <2>3
  <2>5. g[T] = val[Pick(T)] + g[T \ {Pick(T)}]
    BY <2>2, <2>3, PickIsIn DEF IsSum
  <2>6. h[T] = val[Pick(T)] + h[T \ {Pick(T)}]
    BY <2>2, <2>3, PickIsIn DEF IsSum
  <2> QED BY <2>2, <2>4, <2>5, <2>6
<1> QED BY <1>1

\* There is such a function for every finite set: for the smallest set without one it
\* could be put together from those of its subsets.
LEMMA SumExists ==
  ASSUME NEW D, IsFiniteSet(D), NEW val
  PROVE  \E g : g = [s \in SUBSET D |-> g[s]] /\ IsSum(g, D, val)
<1> DEFINE F == {T \in SUBSET D : ~\E g : g = [s \in SUBSET T |-> g[s]] /\ IsSum(g, T, val)}
           sumOf(s) == CHOOSE g : g = [u \in SUBSET s |-> g[u]] /\ IsSum(g, s, val)
<1>1. ASSUME F # {} PROVE FALSE
  <2>1. PICK T \in F : \A y \in SUBSET T : y \in F => y = T
    <3>1. F \in SUBSET SUBSET D
      OBVIOUS
    <3> HIDE DEF F
    <3> QED BY <1>1, <3>1, SmallestSet
  <2>2. \A s \in SUBSET T : s # T => IsSum(sumOf(s), s, val)
    BY <2>1
  <2> DEFINE part(s) == sumOf(s)[s]
             h == [s \in SUBSET T |-> IF s = {} THEN 0
                                      ELSE IF s = T THEN val[Pick(T)] + part(T \ {Pick(T)})
                                      ELSE part(s)]
  <2>3. ASSUME NEW s \in SUBSET T, s # T, s # {}
        PROVE  part(s) = val[Pick(s)] + part(s \ {Pick(s)})
    <3>1. Pick(s) \in s
      BY <2>3, PickIsIn
    <3> DEFINE r == s \ {Pick(s)}
    <3>2. r \in SUBSET s /\ r \in SUBSET T /\ r # T
      BY <2>3, <3>1
    <3>3. IsSum(sumOf(s), s, val) /\ IsSum(sumOf(r), r, val)
      BY <2>2, <2>3, <3>2
    <3>4. IsFiniteSet(s)
      BY <2>1, FS_Subset
    <3> HIDE DEF sumOf, r
    <3>5. sumOf(s)[r] = sumOf(r)[r]
      <4>1. IsSum(sumOf(s), r, val) /\ IsFiniteSet(r)
        BY <3>2, <3>3, <3>4, SumRestricts, FS_Subset
      <4> QED BY <3>3, <4>1, SumUnique
    <3>6. sumOf(s)[s] = val[Pick(s)] + sumOf(s)[r]
      BY <2>3, <3>3, PickIsIn DEF IsSum, r
    <3> QED BY <3>5, <3>6 DEF r
  <2>4. part({}) = 0 \/ T = {}
    BY <2>2, PickIsIn DEF IsSum
  <2> HIDE DEF part
  <2>5. ASSUME NEW s \in SUBSET T, s # {}
        PROVE  h[s] = val[Pick(s)] + h[s \ {Pick(s)}]
    <3>1. Pick(s) \in s /\ s \ {Pick(s)} \in SUBSET T /\ s \ {Pick(s)} # T
      BY <2>5, PickIsIn
    <3>2. h[s \ {Pick(s)}] = part(s \ {Pick(s)})
      BY <2>4, <2>5, <3>1
    <3>3. CASE s = T
      BY <2>5, <3>2, <3>3
    <3>4. CASE s # T
      BY <2>3, <2>5, <3>2, <3>4
    <3> QED BY <3>3, <3>4
  <2>6. h = [s \in SUBSET T |-> h[s]] /\ h[{}] = 0
    OBVIOUS
  <2> HIDE DEF h
  <2>7. IsSum(h, T, val)
    BY <2>5, <2>6 DEF IsSum
  <2> QED BY <2>1, <2>6, <2>7
<1> QED BY <1>1

\* A sum of naturals is one.
LEMMA SumType ==
  ASSUME NEW D, IsFiniteSet(D), NEW val \in [D -> Nat], NEW g, IsSum(g, D, val),
         NEW S \in SUBSET D
  PROVE  g[S] \in Nat
<1> DEFINE F == {T \in SUBSET D : g[T] \notin Nat}
<1>1. ASSUME F # {} PROVE FALSE
  <2>1. PICK T \in F : \A y \in SUBSET T : y \in F => y = T
    <3>1. F \in SUBSET SUBSET D
      OBVIOUS
    <3> HIDE DEF F
    <3> QED BY <1>1, <3>1, SmallestSet
  <2>2. /\ T \in SUBSET D /\ g[T] \notin Nat
        /\ \A y \in SUBSET T : y # T => g[y] \in Nat
    BY <2>1
  <2> HIDE DEF F
  <2>3. T # {} /\ Pick(T) \in T
    <3>1. T = {} => g[T] = 0
      BY DEF IsSum
    <3>2. 0 \in Nat
      OBVIOUS
    <3> QED BY <2>2, <3>1, <3>2, PickIsIn
  <2>4. g[T \ {Pick(T)}] \in Nat /\ val[Pick(T)] \in Nat
    BY <2>2, <2>3
  <2>5. g[T] = val[Pick(T)] + g[T \ {Pick(T)}]
    BY <2>2, <2>3, PickIsIn DEF IsSum
  <2> QED BY <2>2, <2>4, <2>5
<1> QED BY <1>1

\* Whichever element is added, the sum grows by its value.
LEMMA SumAdds ==
  ASSUME NEW D, IsFiniteSet(D), NEW val \in [D -> Nat], NEW g, IsSum(g, D, val),
         NEW S \in SUBSET D, NEW x \in D, x \notin S
  PROVE  g[S \cup {x}] = val[x] + g[S]
<1> DEFINE F == {T \in SUBSET D : \E y \in D : y \notin T /\ g[T \cup {y}] # val[y] + g[T]}
<1>1. ASSUME F # {} PROVE FALSE
  <2>1. PICK T \in F : \A u \in SUBSET T : u \in F => u = T
    <3>1. F \in SUBSET SUBSET D
      OBVIOUS
    <3> HIDE DEF F
    <3> QED BY <1>1, <3>1, SmallestSet
  <2>2. PICK y \in D : y \notin T /\ g[T \cup {y}] # val[y] + g[T]
    BY <2>1
  <2>a. /\ T \in SUBSET D
        /\ \A u \in SUBSET T : u # T =>
             \A z \in D : z \notin u => g[u \cup {z}] = val[z] + g[u]
    BY <2>1
  <2> HIDE DEF F
  <2> DEFINE U == T \cup {y}
             c == Pick(U)
             R == T \ {c}
  <2>3. c \in U /\ U \in SUBSET D /\ g[U] = val[c] + g[U \ {c}]
    <3>1. U \in SUBSET D /\ U # {}
      BY <2>a
    <3> HIDE DEF U
    <3> QED BY <3>1, PickIsIn DEF IsSum
  <2>4. c # y
    <3>1. c = y => U \ {c} = T
      BY <2>2
    <3> QED BY <2>2, <2>3, <3>1
  <2>5. /\ c \in T /\ c \in D /\ R \in SUBSET D /\ R # T /\ R \in SUBSET T
        /\ U \ {c} = R \cup {y} /\ R \cup {c} = T /\ y \notin R /\ c \notin R
    <3> HIDE DEF c
    <3> QED BY <2>a, <2>2, <2>3, <2>4
  <2> HIDE DEF c, R
  <2>7. g[R \cup {y}] = val[y] + g[R] /\ g[R \cup {c}] = val[c] + g[R]
    BY <2>a, <2>2, <2>5
  <2>8. g[R] \in Nat /\ val[y] \in Nat /\ val[c] \in Nat
    BY <2>5, SumType
  <2>9. g[U] = val[c] + (val[y] + g[R]) /\ g[T] = val[c] + g[R] /\ g[U] # val[y] + g[T]
    BY <2>2, <2>3, <2>5, <2>7
  <2> HIDE DEF U
  <2> QED BY <2>8, <2>9
<1> QED BY <1>1

\* The sum over two sets without a common element is that of their sums.
LEMMA SumUnion ==
  ASSUME NEW D, IsFiniteSet(D), NEW val \in [D -> Nat], NEW g, IsSum(g, D, val),
         NEW A \in SUBSET D
  PROVE  \A B \in SUBSET D : A \cap B = {} => g[A \cup B] = g[A] + g[B]
<1>5. \A s \in SUBSET D, x \in D : x \notin s => g[s \cup {x}] = val[x] + g[s]
  BY SumAdds
<1>6. \A s \in SUBSET D : g[s] \in Nat
  BY SumType
<1> DEFINE F == {T \in SUBSET D : A \cap T = {} /\ g[A \cup T] # g[A] + g[T]}
<1>1. ASSUME F # {} PROVE FALSE
  <2>1. PICK T \in F : \A u \in SUBSET T : u \in F => u = T
    <3>1. F \in SUBSET SUBSET D
      OBVIOUS
    <3> HIDE DEF F
    <3> QED BY <1>1, <3>1, SmallestSet
  <2>a. /\ T \in SUBSET D /\ A \cap T = {} /\ g[A \cup T] # g[A] + g[T]
        /\ \A u \in SUBSET T : u # T => g[A \cup u] = g[A] + g[u]
    BY <2>1
  <2> HIDE DEF F
  <2>2. g[A] \in Nat /\ g[{}] = 0
    <3>1. g[A] \in Nat
      BY SumType
    <3> QED BY <3>1, PickIsIn DEF IsSum
  <2>3. T # {}
    <3>1. ASSUME T = {} PROVE FALSE
      <4>1. A \cup T = A
        BY <3>1
      <4> QED BY <2>a, <2>2, <3>1, <4>1
    <3> QED BY <3>1
  <2>4. PICK c \in T : TRUE
    BY <2>3
  <2> DEFINE R == T \ {c}
  <2>5. /\ R \in SUBSET D /\ R \in SUBSET T /\ R # T /\ A \cap R = {} /\ c \in D
        /\ c \notin R /\ c \notin A \cup R /\ T = R \cup {c} /\ A \cup R \in SUBSET D
        /\ A \cup T = (A \cup R) \cup {c}
    BY <2>a, <2>4
  <2> HIDE DEF R
  <2>6. g[A \cup R] = g[A] + g[R]
    BY <2>a, <2>5
  <2>7. g[R \cup {c}] = val[c] + g[R]
    BY <2>5, <1>5
  <2>9. g[(A \cup R) \cup {c}] = val[c] + g[A \cup R]
    <3> DEFINE W == A \cup R
    <3>1. W \in SUBSET D /\ c \notin W /\ c \in D
      BY <2>5
    <3> HIDE DEF W
    <3>2. g[W \cup {c}] = val[c] + g[W]
      BY <3>1, <1>5
    <3> QED BY <3>2 DEF W
  <2>8. g[R] \in Nat /\ val[c] \in Nat
    BY <2>5, <1>6
  <2>10. g[T] = val[c] + g[R] /\ g[A \cup T] = val[c] + (g[A] + g[R])
    BY <2>5, <2>6, <2>7, <2>9
  <2>11. g[A \cup T] # g[A] + g[T]
    BY <2>a
  <2> QED BY <2>2, <2>8, <2>10, <2>11
<1> QED BY <1>1

-----------------------------------------------------------------------------
(* The invariant.                                                           *)

\* The outputs of the ledger, and what sets of them are worth.
OutpointsOf(l) == UNION {OutputsIn(l, t) : t \in Tx}
Value(S, l) == MapThenSumSet(LAMBDA o : l[o.hash].vout[o.index + 1].value, S)

OurOutputs == {o \in OutpointsOf(ledger) : IsOurs(o)}

\* The transactions that the filter keeps, and of those the ones that parse.
Kept == {t \in Mined : Touches(t)}
Readable == Kept \ corrupt

\* What the transactions visited so far create and spend.
Created == {o \in OurOutputs : o.hash \in Readable \ left}
Spent(S) == {o \in OurOutputs : o.hash \in Readable /\ \E t \in S : o \in ledger[t].vin}

\* While the debit loop runs, and when it is over (todo = {}): the balance is what was
\* credited less what was spent, and what was visited spends outputs that were credited.
Debiting(todo) ==
  /\ transactions = Kept
  /\ parsed = Readable
  /\ spent = Spent(Readable \ todo)
  /\ total = Value({o \in OurOutputs : o.hash \in Readable}, ledger) - Value(spent, ledger)
  /\ \A t \in Readable \ todo : \A o \in ledger[t].vin :
       o.hash \in Kept => o.hash \in Readable /\ o \in Outputs(o.hash)

IInv ==
  /\ ledger \in Ledgers
  /\ left \subseteq transactions
  /\ total \in Int
  /\ pc \in {"filter", "parse", "credit", "debit", "done", "panic"}
  /\ pc = "filter" =>
       /\ transactions = {t \in Tx : Touches(t) /\ (t \in left \/ t \in Mined)}
       /\ parsed = {} /\ spent = {} /\ total = 0
  /\ pc = "parse" =>
       /\ transactions = Kept
       /\ parsed = Readable \ left /\ spent = {} /\ total = 0
  /\ pc = "credit" =>
       /\ transactions = Kept
       /\ parsed = Readable /\ spent = {}
       /\ total = Value(Created, ledger)
  /\ pc = "debit" => Debiting(left)
  /\ pc = "done" => Debiting({})
  /\ pc = "panic" => corrupt # {}

-----------------------------------------------------------------------------
(* What outputs are worth.                                                  *)

\* A valid ledger has finitely many outputs.
LEMMA OutputsFinite ==
  ASSUME NEW l \in Ledgers
  PROVE  IsFiniteSet(OutpointsOf(l))
<1>1. ASSUME NEW t \in Tx PROVE IsFiniteSet(OutputsIn(l, t))
  <2> DEFINE I == 0 .. Len(l[t].vout) - 1
             f == [i \in I |-> Outpoint(t, i)]
  <2>1. IsFiniteSet(I)
    <3>1. Len(l[t].vout) - 1 \in Int
      BY BalanceAssumption DEF Valid
    <3> QED BY <3>1, FS_Interval
  <2>2. f \in Surjection(I, OutputsIn(l, t))
    BY DEF Surjection, OutputsIn
  <2> HIDE DEF I, f
  <2> QED BY <2>1, <2>2, FS_Surjection DEF ExistsSurjection
<1>2. IsFiniteSet({OutputsIn(l, t) : t \in Tx})
  <2> DEFINE T == {OutputsIn(l, t) : t \in Tx}
             f == [t \in Tx |-> OutputsIn(l, t)]
  <2>1. f \in Surjection(Tx, T)
    BY DEF Surjection
  <2> HIDE DEF T, f
  <2>2. IsFiniteSet(T)
    BY <2>1, BalanceAssumption, FS_Surjection DEF ExistsSurjection
  <2> QED BY <2>2 DEF T
<1>3. \A T \in {OutputsIn(l, t) : t \in Tx} : IsFiniteSet(T)
  BY <1>1
<1> QED BY <1>2, <1>3, FS_UNION DEF OutpointsOf

\* The model's sum over a set of outputs is the sum of their values.
LEMMA ValueIsSum ==
  ASSUME NEW l, NEW D, IsFiniteSet(D), NEW val, NEW g, IsSum(g, D, val),
         \A o \in D : val[o] = l[o.hash].vout[o.index + 1].value,
         NEW S \in SUBSET D
  PROVE  Value(S, l) = g[S]
<1> DEFINE V(o) == l[o.hash].vout[o.index + 1].value
           body(f) == [s \in SUBSET S |-> IF s = {} THEN 0
                                          ELSE V(Pick(s)) + f[s \ {Pick(s)}]]
           m == CHOOSE f : f = body(f)
<1>1. Value(S, l) = m[S]
  BY DEF Value, MapThenSumSet, MapThenFoldSet, Pick
<1>2. IsFiniteSet(S)
  BY FS_Subset
<1>3. PICK f : f = [s \in SUBSET S |-> f[s]] /\ IsSum(f, S, val)
  BY <1>2, SumExists
<1>4. \A s \in SUBSET S : s # {} => Pick(s) \in s /\ val[Pick(s)] = V(Pick(s))
  BY PickIsIn
<1>5. f = body(f)
  <2> DEFINE e(s) == IF s = {} THEN 0 ELSE V(Pick(s)) + f[s \ {Pick(s)}]
  <2>1. \A s \in SUBSET S : f[s] = e(s)
    BY <1>3, <1>4 DEF IsSum
  <2>2. body(f) = [s \in SUBSET S |-> e(s)]
    OBVIOUS
  <2> HIDE DEF e, body
  <2> QED BY <1>3, <2>1, <2>2
<1>6. m = body(m)
  <2> HIDE DEF body
  <2> QED BY <1>5
<1>7. IsSum(m, S, val)
  <2> DEFINE e(s) == IF s = {} THEN 0 ELSE V(Pick(s)) + m[s \ {Pick(s)}]
  <2>1. m = [s \in SUBSET S |-> e(s)]
    <3> HIDE DEF m
    <3> QED BY <1>6
  <2>2. \A s \in SUBSET S : m[s] = e(s)
    <3> HIDE DEF e, m
    <3> QED BY <2>1
  <2> HIDE DEF m
  <2> QED BY <1>4, <2>2 DEF IsSum
<1> HIDE DEF m
<1>8. m[S] = g[S]
  <2>1. IsSum(g, S, val)
    BY SumRestricts
  <2> QED BY <1>2, <1>7, <2>1, SumUnique
<1> QED BY <1>1, <1>8

\* The value of disjoint sets of outputs adds up.
LEMMA ValueFacts ==
  ASSUME NEW l \in Ledgers
  PROVE  /\ Value({}, l) = 0
         /\ \A S \in SUBSET OutpointsOf(l) : Value(S, l) \in Nat
         /\ \A A, B \in SUBSET OutpointsOf(l) :
              A \cap B = {} => Value(A \cup B, l) = Value(A, l) + Value(B, l)
<1> DEFINE D == OutpointsOf(l)
           val == [o \in D |-> l[o.hash].vout[o.index + 1].value]
<1>1. IsFiniteSet(D)
  BY OutputsFinite
<1>2. val \in [D -> Nat]
  <2>1. ASSUME NEW o \in D PROVE l[o.hash].vout[o.index + 1].value \in Nat
    <3>0. PICK t \in Tx : o \in OutputsIn(l, t)
      BY DEF OutpointsOf
    <3>1. PICK i \in 0 .. Len(l[t].vout) - 1 : o = [hash |-> t, index |-> i]
      BY <3>0 DEF OutputsIn, Outpoint
    <3>2. Len(l[t].vout) \in Nat /\ \A j \in 1 .. Len(l[t].vout) : l[t].vout[j].value \in Nat
      BY BalanceAssumption DEF Valid
    <3>3. o.hash = t /\ o.index = i /\ i + 1 \in 1 .. Len(l[t].vout)
      BY <3>1, <3>2
    <3> QED BY <3>2, <3>3
  <2> QED BY <2>1
<1>3. \A o \in D : val[o] = l[o.hash].vout[o.index + 1].value
  OBVIOUS
<1> HIDE DEF D, val
<1>4. PICK g : IsSum(g, D, val)
  BY <1>1, SumExists
<1>5. \A S \in SUBSET D : Value(S, l) = g[S]
  BY <1>1, <1>3, <1>4, ValueIsSum
<1>6. \A S \in SUBSET D : g[S] \in Nat
  BY <1>1, <1>2, <1>4, SumType
<1>7. ASSUME NEW A \in SUBSET D, NEW B \in SUBSET D, A \cap B = {}
      PROVE  Value(A \cup B, l) = Value(A, l) + Value(B, l)
  <2>1. g[A \cup B] = g[A] + g[B]
    <3>1. \A S \in SUBSET D : A \cap S = {} => g[A \cup S] = g[A] + g[S]
      BY <1>1, <1>2, <1>4, SumUnion
    <3> QED BY <1>7, <3>1
  <2>2. Value(A \cup B, l) = g[A \cup B]
    BY <1>5
  <2> QED BY <1>5, <2>1, <2>2
<1>8. Value({}, l) = 0
  BY <1>4, <1>5 DEF IsSum
<1> QED BY <1>5, <1>6, <1>7, <1>8 DEF D

-----------------------------------------------------------------------------
(* Every step keeps the invariant.                                          *)

\* What the definitions over the ledger say of its outputs.
LEMMA OutputFacts ==
  ASSUME IInv
  PROVE  /\ OurOutputs \subseteq OutpointsOf(ledger)
         /\ \A t \in Tx : \A o \in Outputs(t) : o.hash = t
         /\ \A o \in OurOutputs : o.hash \in Tx /\ o \in Outputs(o.hash) /\ IsOurs(o)
         /\ \A t \in Tx : \A o \in Outputs(t) : IsOurs(o) => o \in OurOutputs
<1>1. \A t \in Tx : \A o \in Outputs(t) : o.hash = t
  BY DEF Outputs, OutputsIn, Outpoint
<1>2. \A o : o \in OutpointsOf(ledger) <=> \E t \in Tx : o \in Outputs(t)
  BY DEF OutpointsOf, Outputs
<1> QED BY <1>1, <1>2 DEF OurOutputs

\* The sum over a set of outputs is its value.
LEMMA SumIsValue == \A S : Sum(S) = Value(S, ledger)
  BY DEF Sum, Value, Output

\* The ledger does not change, nor does what is defined from it.
LEMMA Fixed ==
  ASSUME UNCHANGED chain
  PROVE  /\ ledger' = ledger /\ corrupt' = corrupt
         /\ OurOutputs' = OurOutputs /\ Kept' = Kept /\ Readable' = Readable /\ Mined' = Mined
         /\ \A t : Touches(t)' = Touches(t)
         /\ \A t : Outputs(t)' = Outputs(t)
<1>1. ledger' = ledger /\ corrupt' = corrupt
  BY DEF chain
<1>2. \A t : Outputs(t)' = Outputs(t)
  BY <1>1 DEF Outputs
<1>3. \A o : IsOurs(o)' = IsOurs(o)
  BY <1>1 DEF IsOurs, Output
<1>4. \A t : Touches(t)' = Touches(t)
  BY <1>1, <1>2, <1>3 DEF Touches
<1>5. Mined' = Mined
  BY <1>1 DEF Mined
<1>6. Kept' = Kept
  BY <1>4, <1>5 DEF Kept
<1>7. Readable' = Readable
  BY <1>1, <1>6 DEF Readable
<1>8. OurOutputs' = OurOutputs
  BY <1>1, <1>3 DEF OurOutputs
<1> QED BY <1>1, <1>2, <1>4, <1>5, <1>6, <1>7, <1>8

\* fetchTransactions returns with nothing filtered yet.
LEMMA InitHolds == Init => IInv
<1> SUFFICES ASSUME Init PROVE IInv
  OBVIOUS
<1>1. ledger \in Ledgers /\ pc = "filter" /\ left = transactions /\ total = 0
  BY DEF Init
<1>2. transactions = {t \in Tx : Touches(t) /\ (t \in left \/ t \in Mined)}
  BY DEF Init
<1>3. parsed = {} /\ spent = {}
  BY DEF Init
<1> QED BY <1>1, <1>2, <1>3 DEF IInv

\* What is deleted from the map is what is not mined by blockHeight.
LEMMA FilterKeeps ==
  ASSUME IInv, Filter
  PROVE  IInv'
<1>1. PICK t \in left :
        /\ left' = left \ {t}
        /\ transactions' = IF TooRecent(t) \/ NotMined(t) THEN transactions \ {t}
                           ELSE transactions
  BY DEF Filter
<1>2. /\ pc = "filter" /\ pc' = "filter" /\ parsed' = {} /\ spent' = {} /\ total' = 0
      /\ left \subseteq transactions /\ ledger \in Ledgers
      /\ transactions = {u \in Tx : Touches(u) /\ (u \in left \/ u \in Mined)}
  BY DEF Filter, IInv
<1>3. UNCHANGED chain
  BY DEF Filter
<1>4. ledger' = ledger /\ Mined' = Mined /\ \A u : Touches(u)' = Touches(u)
  BY <1>3, Fixed
<1>5. (TooRecent(t) \/ NotMined(t)) <=> t \notin Mined
  <2>1. t \in Tx /\ ledger[t].height \in Int /\ blockHeight \in Nat
    BY <1>2, BalanceAssumption DEF Valid
  <2> QED BY <2>1 DEF TooRecent, NotMined, Mined
<1>6. transactions' = {u \in Tx : Touches(u) /\ (u \in left \ {t} \/ u \in Mined)}
  <2>1. CASE t \in Mined
    BY <1>1, <1>2, <1>5, <2>1
  <2>2. CASE t \notin Mined
    BY <1>1, <1>2, <1>5, <2>2
  <2> QED BY <2>1, <2>2
<1>7. transactions' = {u \in Tx : Touches(u)' /\ (u \in left' \/ u \in Mined')}
  BY <1>1, <1>4, <1>6
<1>8. left' \subseteq transactions'
  BY <1>1, <1>2, <1>6
<1> QED BY <1>2, <1>4, <1>7, <1>8 DEF IInv

\* What does not parse is left without inputs and outputs.
LEMMA ParseKeeps ==
  ASSUME IInv, Parse
  PROVE  IInv'
<1>1. PICK t \in left :
        /\ left' = left \ {t}
        /\ parsed' = IF t \in corrupt THEN parsed ELSE parsed \cup {t}
  BY DEF Parse
<1>2. /\ pc = "parse" /\ pc' = "parse" /\ spent' = {} /\ total' = 0
      /\ left \subseteq transactions /\ ledger \in Ledgers
      /\ transactions' = transactions /\ transactions = Kept /\ parsed = Readable \ left
  BY DEF Parse, IInv
<1>3. UNCHANGED chain
  BY DEF Parse
<1>4. ledger' = ledger /\ Kept' = Kept /\ Readable' = Readable
  BY <1>3, Fixed
<1>5. parsed' = Readable \ left'
  BY <1>1, <1>2 DEF Readable
<1> QED BY <1>1, <1>2, <1>4, <1>5 DEF IInv

\* A visited transaction adds the value of its outputs to our addresses.
LEMMA CreditKeeps ==
  ASSUME IInv, Credit
  PROVE  IInv'
<1>1. PICK t \in left :
        left' = left \ {t} /\ total' = total + Sum({o \in vout(t) : IsOurs(o)})
  BY DEF Credit
<1>2. /\ pc = "credit" /\ pc' = "credit" /\ spent' = {} /\ parsed' = Readable
      /\ left \subseteq transactions /\ ledger \in Ledgers
      /\ transactions' = transactions /\ transactions = Kept /\ parsed = Readable
      /\ total = Value(Created, ledger)
  BY DEF Credit, IInv
<1>3. UNCHANGED chain
  BY DEF Credit
<1>4. ledger' = ledger /\ Kept' = Kept /\ Readable' = Readable /\ OurOutputs' = OurOutputs
  BY <1>3, Fixed
<1> DEFINE new == {o \in vout(t) : IsOurs(o)}
<1>5. new = {o \in OurOutputs : o.hash = t /\ t \in Readable}
  <2>1. t \in Tx
    BY <1>2 DEF Kept, Mined
  <2>2. new = {o \in Outputs(t) : IsOurs(o) /\ t \in Readable}
    BY <1>2 DEF vout
  <2>3. \A o : o \in Outputs(t) /\ IsOurs(o) <=> o \in OurOutputs /\ o.hash = t
    BY <2>1, OutputFacts
  <2> HIDE DEF new
  <2> QED BY <2>2, <2>3
<1>6. Created' = Created \cup new
  <2>1. Created' = {o \in OurOutputs : o.hash \in Readable \ left'}
    BY <1>4 DEF Created
  <2> HIDE DEF new
  <2> QED BY <1>1, <1>5, <2>1 DEF Created
<1>7. Created \cap new = {} /\ Created \subseteq OurOutputs /\ new \subseteq OurOutputs
  BY <1>1, <1>5 DEF Created
<1>8. /\ Value(Created \cup new, ledger) = Value(Created, ledger) + Value(new, ledger)
      /\ Value(Created \cup new, ledger) \in Nat
  <2> HIDE DEF new
  <2> QED BY <1>2, <1>7, OutputFacts, ValueFacts
<1>9. total' = total + Value(new, ledger)
  BY <1>1, SumIsValue
<1>10. total' = Value(Created, ledger)' /\ total' \in Int
  <2> HIDE DEF new
  <2>1. Value(Created, ledger)' = Value(Created \cup new, ledger)
    BY <1>4, <1>6
  <2> QED BY <1>2, <1>8, <1>9, <2>1
<1> HIDE DEF new
<1> QED BY <1>1, <1>2, <1>4, <1>10 DEF IInv

\* A visited transaction takes off the value of the outputs it spends, which were credited
\* and which no transaction visited earlier spends.
LEMMA DebitKeeps ==
  ASSUME IInv, Debit
  PROVE  IInv'
<1>1. PICK t \in left :
        /\ ~DebitPanics(t)
        /\ left' = left \ {t}
        /\ total' = total - Sum({o \in Known(t) : IsOurs(o)})
        /\ spent' = spent \cup {o \in Known(t) : IsOurs(o)}
  BY DEF Debit
<1>2. /\ pc = "debit" /\ pc' = "debit" /\ parsed' = Readable /\ transactions' = Kept
      /\ left \subseteq transactions /\ ledger \in Ledgers /\ total \in Int
      /\ transactions = Kept /\ parsed = Readable
      /\ spent = Spent(Readable \ left)
      /\ total = Value({o \in OurOutputs : o.hash \in Readable}, ledger) - Value(spent, ledger)
      /\ \A u \in Readable \ left : \A o \in ledger[u].vin :
           o.hash \in Kept => o.hash \in Readable /\ o \in Outputs(o.hash)
  BY DEF Debit, IInv, Debiting
<1>3. UNCHANGED chain
  BY DEF Debit
<1>4. /\ ledger' = ledger /\ Kept' = Kept /\ Readable' = Readable /\ OurOutputs' = OurOutputs
      /\ \A u : Outputs(u)' = Outputs(u)
  BY <1>3, Fixed
<1> DEFINE mine == {o \in Known(t) : IsOurs(o)}
<1>5. \A o \in Known(t) : /\ o.hash \in Readable /\ o \in Outputs(o.hash)
                          /\ ~(IsOurs(o) /\ o \in spent)
  BY <1>1, <1>2 DEF DebitPanics, vout
<1>6. \A o : o \in Known(t) <=> t \in Readable /\ o \in ledger[t].vin /\ o.hash \in Kept
  BY <1>2 DEF Known, vin
<1>7. Readable \subseteq Kept /\ Kept \subseteq Tx
  BY DEF Readable, Kept, Mined
<1>8. mine = {o \in OurOutputs : o.hash \in Readable /\ t \in Readable /\ o \in ledger[t].vin}
  <2>1. ASSUME NEW o \in mine
        PROVE  o \in OurOutputs /\ o.hash \in Readable /\ t \in Readable /\ o \in ledger[t].vin
    BY <1>5, <1>6, <1>7, OutputFacts
  <2>2. ASSUME NEW o \in OurOutputs, o.hash \in Readable, t \in Readable, o \in ledger[t].vin
        PROVE  o \in mine
    BY <1>6, <1>7, <2>2, OutputFacts
  <2> HIDE DEF mine
  <2> QED BY <2>1, <2>2
<1>9. Spent(Readable \ left') = Spent(Readable \ left) \cup mine
  <2>1. \A o : (\E u \in Readable \ left' : o \in ledger[u].vin) <=>
               \/ \E u \in Readable \ left : o \in ledger[u].vin
               \/ t \in Readable /\ o \in ledger[t].vin
    BY <1>1
  <2> HIDE DEF mine
  <2> QED BY <1>8, <2>1 DEF Spent
<1>10. spent \cap mine = {} /\ spent \subseteq OurOutputs /\ mine \subseteq OurOutputs
  BY <1>2, <1>5, <1>8 DEF Spent
<1>11. Spent(Readable \ left)' = Spent(Readable \ left')
  BY <1>4 DEF Spent
<1>12. spent' = Spent(Readable \ left)' /\ spent' = spent \cup mine
  BY <1>1, <1>2, <1>9, <1>11
<1>13. total' = Value({o \in OurOutputs : o.hash \in Readable}, ledger) - Value(spent', ledger)
  <2> DEFINE all == Value({o \in OurOutputs : o.hash \in Readable}, ledger)
  <2>1. all \in Nat
    BY <1>2, OutputFacts, ValueFacts
  <2> HIDE DEF mine, all
  <2>2. /\ Value(spent \cup mine, ledger) = Value(spent, ledger) + Value(mine, ledger)
        /\ Value(spent, ledger) \in Nat /\ Value(mine, ledger) \in Nat
    BY <1>2, <1>10, OutputFacts, ValueFacts
  <2>3. total = all - Value(spent, ledger)
    BY <1>2 DEF all
  <2>4. total' = total - Value(mine, ledger)
    BY <1>1, SumIsValue DEF mine
  <2>5. Value(spent', ledger) = Value(spent, ledger) + Value(mine, ledger)
    BY <1>12, <2>2
  <2>6. total' = all - Value(spent', ledger)
    BY <2>1, <2>2, <2>3, <2>4, <2>5
  <2> QED BY <2>6 DEF all
<1>14. total' \in Int
  <2>1. Sum(mine) \in Nat
    <3> HIDE DEF mine
    <3> QED BY <1>2, <1>10, OutputFacts, ValueFacts, SumIsValue
  <2> QED BY <1>1, <1>2, <2>1
<1>15. ASSUME NEW u \in Readable \ left', NEW o \in ledger[u].vin, o.hash \in Kept
       PROVE  o.hash \in Readable /\ o \in Outputs(o.hash)
  BY <1>1, <1>2, <1>5, <1>6, <1>15
<1> HIDE DEF mine
<1>16. Debiting(left)'
  <2>1. transactions' = Kept' /\ parsed' = Readable'
    BY <1>2, <1>4
  <2>2. (\A u \in Readable \ left : \A o \in ledger[u].vin :
           o.hash \in Kept => o.hash \in Readable /\ o \in Outputs(o.hash))'
    BY <1>4, <1>15
  <2> QED BY <1>4, <1>12, <1>13, <2>1, <2>2 DEF Debiting
<1>17. left' \subseteq transactions'
  BY <1>1, <1>2
<1> QED BY <1>2, <1>4, <1>14, <1>16, <1>17 DEF IInv

\* Both sanity checks need a transaction that was not parsed: on a valid chain an input of a
\* mined transaction is an output of a mined one, and no other mined transaction spends it.
LEMMA DebitPanicKeeps ==
  ASSUME IInv, DebitPanic
  PROVE  IInv'
<1>1. PICK t \in left : DebitPanics(t)
  BY DEF DebitPanic
<1>2. /\ pc = "debit" /\ pc' = "panic" /\ UNCHANGED <<ledger, corrupt, left, transactions, total>>
      /\ left \subseteq transactions /\ ledger \in Ledgers /\ total \in Int
      /\ transactions = Kept /\ parsed = Readable
      /\ spent = Spent(Readable \ left)
  BY DEF DebitPanic, IInv, Debiting, chain
<1>3. /\ Valid(ledger) /\ blockHeight \in Nat
      /\ \A u \in Kept : u \in Tx /\ ledger[u].height \in Int /\ ledger[u].height > 0
  BY <1>2, BalanceAssumption DEF Kept, Mined, Valid
<1>4. ASSUME corrupt = {} PROVE FALSE
  <2>1. Readable = Kept
    BY <1>4 DEF Readable
  <2>2. PICK o \in Known(t) : o \notin vout(o.hash) \/ (IsOurs(o) /\ o \in spent)
    BY <1>1 DEF DebitPanics
  <2>3. t \in Kept /\ o \in ledger[t].vin /\ o.hash \in Kept
    BY <1>1, <1>2, <2>1, <2>2 DEF Known, vin
  <2>4. o \in vout(o.hash)
    <3>1. o \in OutputsIn(ledger, o.hash)
      BY <1>3, <2>3 DEF Valid
    <3> QED BY <1>2, <2>1, <2>3, <3>1 DEF vout, Outputs
  <2>5. PICK u \in Readable \ left : o \in ledger[u].vin
    BY <1>2, <2>2, <2>4 DEF Spent
  <2>6. u # t /\ u \in Kept
    BY <1>1, <2>1, <2>5
  <2>7. ledger[t].vin \cap ledger[u].vin = {}
    BY <1>3, <2>3, <2>6 DEF Valid
  <2> QED BY <2>3, <2>5, <2>7
<1>5. corrupt' # {}
  BY <1>2, <1>4
<1> QED BY <1>2, <1>5 DEF IInv

\* What was spent was credited, so that the balance is not negative.
LEMMA BalanceIsWorth ==
  ASSUME IInv, Debiting({})
  PROVE  /\ total = Value({o \in OurOutputs : o.hash \in Readable} \ spent, ledger)
         /\ total \in Nat
<1> DEFINE all == {o \in OurOutputs : o.hash \in Readable}
           rest == all \ spent
<1>1. spent \subseteq all /\ spent = Spent(Readable)
  BY DEF Debiting, Spent
<1>2. ledger \in Ledgers /\ total = Value(all, ledger) - Value(spent, ledger)
  BY DEF IInv, Debiting
<1>3. all \subseteq OurOutputs
  OBVIOUS
<1>4. spent \cup rest = all /\ spent \cap rest = {} /\ rest \subseteq OurOutputs
      /\ spent \subseteq OurOutputs
  BY <1>1
<1> HIDE DEF all, rest
<1>5. /\ Value(spent \cup rest, ledger) = Value(spent, ledger) + Value(rest, ledger)
      /\ Value(spent, ledger) \in Nat /\ Value(rest, ledger) \in Nat
  BY <1>2, <1>4, OutputFacts, ValueFacts
<1>6. total = Value(rest, ledger) /\ total \in Nat
  <2>1. Value(all, ledger) = Value(spent, ledger) + Value(rest, ledger)
    BY <1>4, <1>5
  <2> QED BY <1>2, <1>5, <2>1
<1> QED BY <1>6 DEF rest, all

\* Between the loops.
LEMMA NextLoopKeeps ==
  ASSUME IInv, NextLoop
  PROVE  IInv'
<1>1. /\ left = {} /\ left' = transactions /\ pc \in {"filter", "parse", "credit", "debit"}
      /\ UNCHANGED <<transactions, parsed, spent, total>>
  BY DEF NextLoop
<1>2. UNCHANGED chain
  BY DEF NextLoop
<1>3. /\ ledger' = ledger /\ corrupt' = corrupt /\ Kept' = Kept /\ Readable' = Readable
      /\ OurOutputs' = OurOutputs /\ \A u : Outputs(u)' = Outputs(u)
  BY <1>2, Fixed
<1>4. Readable \subseteq Kept
  BY DEF Readable
<1>5. ledger' \in Ledgers /\ left' \subseteq transactions' /\ total' \in Int
  BY <1>1, <1>3 DEF IInv
<1>6. CASE pc = "filter"
  <2>1. pc' = "parse"
    BY <1>6 DEF NextLoop
  <2>2. transactions = Kept /\ parsed = {} /\ spent = {} /\ total = 0
    BY <1>1, <1>6 DEF IInv, Kept, Mined
  <2>3. parsed' = Readable' \ left'
    BY <1>1, <1>3, <1>4, <2>2
  <2> QED BY <1>1, <1>3, <1>5, <2>1, <2>2, <2>3 DEF IInv
<1>7. CASE pc = "parse"
  <2>1. pc' = "credit"
    BY <1>7 DEF NextLoop
  <2>2. transactions = Kept /\ parsed = Readable /\ spent = {} /\ total = 0
    BY <1>1, <1>7 DEF IInv
  <2>3. Created' = {}
    BY <1>1, <1>3, <1>4, <2>2 DEF Created
  <2>4. Value(Created, ledger)' = 0
    <3>1. Value({}, ledger') = 0
      BY <1>5, ValueFacts
    <3> QED BY <2>3, <3>1
  <2> QED BY <1>1, <1>3, <1>5, <2>1, <2>2, <2>4 DEF IInv
<1>8. CASE pc = "credit"
  <2>1. pc' = "debit"
    BY <1>8 DEF NextLoop
  <2>2. /\ transactions = Kept /\ parsed = Readable /\ spent = {}
        /\ total = Value(Created, ledger) /\ total \in Int
    BY <1>8 DEF IInv
  <2>3. Created = {o \in OurOutputs : o.hash \in Readable}
    BY <1>1 DEF Created
  <2>4. Readable \ left' = {}
    BY <1>1, <1>4, <2>2
  <2>5. Spent(Readable \ left)' = {}
    BY <1>3, <2>4 DEF Spent
  <2>6. Value({}, ledger') = 0
    BY <1>5, ValueFacts
  <2>7. total' = Value({o \in OurOutputs : o.hash \in Readable}, ledger)' - Value(spent, ledger)'
    BY <1>1, <1>3, <2>2, <2>3, <2>6
  <2>8. Debiting(left)'
    BY <1>1, <1>3, <2>2, <2>4, <2>5, <2>7 DEF Debiting
  <2> QED BY <1>5, <2>1, <2>8 DEF IInv
<1>9. CASE pc = "debit"
  <2>1. Debiting({})
    BY <1>1, <1>9 DEF IInv
  <2>2. pc' = "done"
    <3>1. total \in Nat
      BY <2>1, BalanceIsWorth
    <3> QED BY <1>9, <3>1 DEF NextLoop
  <2>3. Debiting({})'
    <3>1. Spent(Readable \ {})' = Spent(Readable \ {})
      BY <1>3 DEF Spent
    <3> QED BY <1>1, <1>3, <2>1, <3>1 DEF Debiting
  <2> QED BY <1>5, <2>2, <2>3 DEF IInv
<1> QED BY <1>1, <1>6, <1>7, <1>8, <1>9

\* IInv holds of every reachable state of every instance.
THEOREM BalanceInvariant == Spec => []IInv
<1>1. Init => IInv
  BY InitHolds
<1>2. IInv /\ [Next]_vars => IInv'
  <2> SUFFICES ASSUME IInv, [Next]_vars PROVE IInv'
    OBVIOUS
  <2>1. CASE Filter
    BY <2>1, FilterKeeps
  <2>2. CASE Parse
    BY <2>2, ParseKeeps
  <2>3. CASE Credit
    BY <2>3, CreditKeeps
  <2>4. CASE Debit
    BY <2>4, DebitKeeps
  <2>5. CASE DebitPanic
    BY <2>5, DebitPanicKeeps
  <2>6. CASE NextLoop
    BY <2>6, NextLoopKeeps
  <2>7. CASE UNCHANGED vars
    <3>1. /\ UNCHANGED <<ledger, corrupt, pc, left, transactions, parsed, spent, total>>
          /\ UNCHANGED chain
      BY <2>7 DEF vars, chain
    <3>2. /\ Kept' = Kept /\ Readable' = Readable /\ Mined' = Mined /\ OurOutputs' = OurOutputs
          /\ \A t : Touches(t)' = Touches(t)
          /\ \A t : Outputs(t)' = Outputs(t)
      BY <3>1, Fixed
    <3>3. Created' = Created
      BY <3>1, <3>2 DEF Created
    <3>4. \A S : Spent(S)' = Spent(S)
      BY <3>1, <3>2 DEF Spent
    <3>5. \A S : Debiting(S) => Debiting(S)'
      BY <3>1, <3>2, <3>4 DEF Debiting
    <3>6. Value(Created, ledger)' = Value(Created, ledger)
      BY <3>1, <3>3
    <3>7. pc = "filter" => transactions' = {t \in Tx : Touches(t)' /\ (t \in left' \/ t \in Mined')}
      BY <3>1, <3>2 DEF IInv
    <3>8. pc = "debit" => Debiting(left)'
      BY <3>1, <3>5 DEF IInv
    <3>9. pc = "done" => Debiting({})'
      BY <3>5 DEF IInv
    <3> QED BY <3>1, <3>2, <3>6, <3>7, <3>8, <3>9 DEF IInv
  <2> QED BY <2>1, <2>2, <2>3, <2>4, <2>5, <2>6, <2>7 DEF Next
<1> QED BY <1>1, <1>2, PTL DEF Spec

-----------------------------------------------------------------------------
(* The properties.                                                          *)

\* What was credited and not spent is what the readable transactions leave unspent: one that
\* does not touch our addresses neither makes an output of ours nor spends one.
LEMMA UnspentIsWhatIsLeft ==
  ASSUME IInv, Debiting({})
  PROVE  UnspentIn(Mined \ corrupt) = {o \in OurOutputs : o.hash \in Readable} \ spent
<1>1. spent = Spent(Readable)
  BY DEF Debiting
<1>2. Readable \subseteq Mined \ corrupt /\ Mined \subseteq Tx
  BY DEF Readable, Kept, Mined
<1>3. \A t \in Tx : \A o \in Outputs(t) : IsOurs(o) => Touches(t)
  BY DEF Touches
<1>4. \A t \in Tx : \A o \in ledger[t].vin : o \in OurOutputs => Touches(t)
  BY OutputFacts DEF Touches
<1>5. ASSUME NEW o \in UnspentIn(Mined \ corrupt)
      PROVE  o \in OurOutputs /\ o.hash \in Readable /\ o \notin spent
  <2>1. PICK t \in Mined \ corrupt : o \in Outputs(t) /\ IsOurs(o)
    BY DEF UnspentIn
  <2>2. t \in Readable /\ o.hash = t /\ o \in OurOutputs
    BY <1>2, <1>3, <2>1, OutputFacts DEF Readable, Kept
  <2>3. \A u \in Mined \ corrupt : o \notin ledger[u].vin
    BY DEF UnspentIn
  <2> QED BY <1>1, <1>2, <2>2, <2>3 DEF Spent
<1>6. ASSUME NEW o \in OurOutputs, o.hash \in Readable, o \notin spent
      PROVE  o \in UnspentIn(Mined \ corrupt)
  <2>1. o.hash \in Mined \ corrupt /\ o \in Outputs(o.hash) /\ IsOurs(o)
    BY <1>2, <1>6, OutputFacts
  <2>2. ASSUME NEW t \in Mined \ corrupt, o \in ledger[t].vin PROVE FALSE
    <3>1. t \in Readable
      BY <1>2, <1>4, <2>2 DEF Readable, Kept
    <3> QED BY <1>1, <1>6, <2>2, <3>1 DEF Spent
  <2> QED BY <2>1, <2>2 DEF UnspentIn
<1> QED BY <1>5, <1>6

\* The balance is that of the chain without the transactions that do not parse, and none of
\* our outputs in one of those is spent by one that does.
THEOREM UnreadableAreSkipped == Spec => []UnreadableSkipped
<1>1. IInv => UnreadableSkipped
  <2> SUFFICES ASSUME IInv, pc = "done"
               PROVE  /\ total = Sum(UnspentIn(Mined \ corrupt))
                      /\ \A t \in Mined \ corrupt : \A o \in ledger[t].vin :
                           ~(o.hash \in Mined \cap corrupt /\ IsOurs(o))
    BY DEF UnreadableSkipped
  <2>1. Debiting({})
    BY DEF IInv
  <2>2. total = Sum(UnspentIn(Mined \ corrupt))
    BY <2>1, BalanceIsWorth, UnspentIsWhatIsLeft, SumIsValue
  <2>3. ASSUME NEW t \in Mined \ corrupt, NEW o \in ledger[t].vin,
               o.hash \in Mined \cap corrupt, IsOurs(o)
        PROVE  FALSE
    <3>1. t \in Tx /\ o.hash \in Tx /\ ledger[t].height > 0
      BY <2>3 DEF Mined
    <3>2. Valid(ledger)
      BY BalanceAssumption DEF IInv
    <3>3. o \in Outputs(o.hash)
      BY <3>1, <3>2 DEF Valid, Outputs
    <3>4. Touches(t) /\ Touches(o.hash)
      BY <2>3, <3>1, <3>3 DEF Touches
    <3>5. t \in Readable /\ o.hash \in Kept /\ o.hash \notin Readable
      BY <2>3, <3>4 DEF Readable, Kept
    <3> QED BY <2>1, <3>5 DEF Debiting
  <2> QED BY <2>2, <2>3
<1> QED BY <1>1, BalanceInvariant, PTL

\* When everything parses, the balance is the value of the unspent outputs of our addresses at
\* blockHeight, in whatever order the maps are visited.
THEOREM BalanceIsCorrect == Spec => []BalanceCorrect
<1>1. UnreadableSkipped => BalanceCorrect
  <2> SUFFICES ASSUME UnreadableSkipped, pc = "done", corrupt = {}
               PROVE  total = Sum(UnspentIn(Mined))
    BY DEF BalanceCorrect
  <2>1. Mined \ corrupt = Mined
    OBVIOUS
  <2> QED BY <2>1 DEF UnreadableSkipped
<1> QED BY <1>1, UnreadableAreSkipped, PTL

\* No sanity check of balance() fires on a valid chain whose transactions all parse.
THEOREM BalanceNeverPanics == Spec => []NoPanic
<1>1. IInv => NoPanic
  BY DEF IInv, NoPanic
<1> QED BY <1>1, BalanceInvariant, PTL
=============================================================================
