--------------------------- MODULE AccountsProofs ---------------------------
(***************************************************************************)
(* Facts about the sum of the balances, which Accounts takes with the fold *)
(* of the community modules.  The fold is a recursive function over the    *)
(* subsets of the set it sums over; what it returns is proved by taking a  *)
(* smallest counterexample.                                                *)
(***************************************************************************)
EXTENDS Accounts, FiniteSetTheorems, WellFoundedInduction, TLAPS

(***************************************************************************)
(* Induction over the natural numbers                                      *)
(***************************************************************************)

\* Every nonempty set of natural numbers has a least element.
LEMMA LeastElement ==
  ASSUME NEW T \in SUBSET Nat, T # {}
  PROVE  \E n \in T : \A m \in T : n <= m
<1> DEFINE R == {p \in Nat \X Nat : p[1] < p[2]}
<1>0. IsWellFoundedOn(R, Nat)
  BY NatLessThanWellFounded DEF OpToRel
<1>1. PICK n \in T : \A m \in T : <<m, n>> \notin R
  <2> HIDE DEF R
  <2> QED BY <1>0, WFMin
<1>2. ASSUME NEW m \in T PROVE n <= m
  <2>1. ~(m < n)
    BY <1>1 
  <2> QED BY <2>1
<1> QED BY <1>2

\* Complete induction, for a property given by the set of its instances.
LEMMA Induction ==
  ASSUME NEW T \in SUBSET Nat, \A n \in Nat : (0 .. n-1) \subseteq T => n \in T
  PROVE  T = Nat
<1> SUFFICES ASSUME Nat \ T # {} PROVE FALSE
  OBVIOUS
<1>1. PICK n \in Nat \ T : \A m \in Nat \ T : n <= m
  BY LeastElement
<1>2. (0 .. n-1) \subseteq T
  BY <1>1
<1> QED BY <1>1, <1>2
-----------------------------------------------------------------------------
(***************************************************************************)
(* Induction over finite sets                                              *)
(***************************************************************************)

\* Every nonempty set of subsets of a finite set has a member that contains
\* no other.
LEMMA SmallestSet ==
  ASSUME NEW S, IsFiniteSet(S), NEW T \in SUBSET SUBSET S, T # {}
  PROVE  \E A \in T : \A B \in T : B \subseteq A => B = A
<1>1. IsWellFoundedOn(StrictSubsetOrdering(S), SUBSET S)
  BY FS_StrictSubsetOrderingWellFounded, FS_FiniteSubsetsOfFinite
<1>2. PICK A \in T : \A B \in T : <<B, A>> \notin StrictSubsetOrdering(S)
  BY <1>1, WFMin
<1> QED BY <1>2 DEF StrictSubsetOrdering
-----------------------------------------------------------------------------
(***************************************************************************)
(* The recursive function of the fold                                      *)
(***************************************************************************)

\* The element the fold takes next.
Chosen(s) == CHOOSE x \in s : TRUE

\* What the function returns for s if it is right about smaller sets.
Unfolded(g, b, s) ==
  IF s = {} THEN 0 ELSE b[Chosen(s)] + g[s \ {Chosen(s)}]

\* The equation that defines it.
IsSum(g, b, S) == g = [s \in SUBSET S |-> Unfolded(g, b, s)]

\* The equation has a solution: a function that satisfies it for sets of up
\* to n elements gives one that does for sets of n + 1.
LEMMA SumExists ==
  ASSUME NEW S, IsFiniteSet(S), NEW b
  PROVE  \E g : IsSum(g, b, S)
<1> DEFINE Upto(g, n) ==
      \A s \in SUBSET S : Cardinality(s) <= n => g[s] = Unfolded(g, b, s)
           T == {n \in Nat : \E g : Upto(g, n)}
<1>0. \A s \in SUBSET S : IsFiniteSet(s) /\ Cardinality(s) \in Nat
  BY FS_Subset, FS_CardinalityType
<1>1. ASSUME NEW n \in Nat, 0 .. n-1 \subseteq T
      PROVE  n \in T
  <2>1. PICK g : n > 0 => Upto(g, n-1)
    <3>1. CASE n = 0
      BY <3>1
    <3>2. CASE n # 0
      <4>1. n-1 \in T
        BY <1>1, <3>2
      <4> QED BY <4>1
    <3> QED BY <3>1, <3>2
  <2> DEFINE h == [s \in SUBSET S |->
        IF Cardinality(s) < n THEN g[s] ELSE Unfolded(g, b, s)]
  <2>2. ASSUME NEW s \in SUBSET S, Cardinality(s) <= n
        PROVE  h[s] = Unfolded(h, b, s)
    <3>1. CASE s = {}
      <4>1. Unfolded(h, b, s) = 0 /\ Unfolded(g, b, s) = 0
        BY <3>1 DEF Unfolded
      <4>2. CASE Cardinality(s) < n
        <5>1. n > 0 /\ Cardinality(s) <= n-1
          BY <1>0, <4>2
        <5> QED BY <2>1, <4>1, <4>2, <5>1
      <4>3. CASE ~(Cardinality(s) < n)
        BY <4>1, <4>3
      <4> QED BY <4>2, <4>3
    <3>2. CASE s # {}
      <4> DEFINE r == s \ {Chosen(s)}
      <4>1. Chosen(s) \in s
        BY <3>2 DEF Chosen
      <4>2. r \in SUBSET S /\ Cardinality(r) = Cardinality(s) - 1
        BY <1>0, <4>1, FS_RemoveElement
      <4>3. h[r] = g[r]
        BY <1>0, <2>2, <4>2
      <4>4. Unfolded(h, b, s) = Unfolded(g, b, s)
        BY <3>2, <4>3 DEF Unfolded
      <4>5. CASE Cardinality(s) < n
        <5>1. n > 0 /\ Cardinality(s) <= n-1
          BY <1>0, <4>5
        <5> QED BY <2>1, <4>4, <4>5, <5>1
      <4>6. CASE ~(Cardinality(s) < n)
        BY <4>4, <4>6
      <4> QED BY <4>5, <4>6
    <3> QED BY <3>1, <3>2
  <2>3. Upto(h, n)
    BY <2>2
  <2> QED BY <2>3
<1>2. T = Nat
  <2> HIDE DEF T
  <2>1. T \in SUBSET Nat
    BY DEF T
  <2> QED BY <1>1, <2>1, Induction
<1>3. PICK g : Upto(g, Cardinality(S))
  <2>1. Cardinality(S) \in T
    BY <1>0, <1>2
  <2> QED BY <2>1
<1> DEFINE h == [s \in SUBSET S |-> g[s]]
<1>4. ASSUME NEW s \in SUBSET S PROVE h[s] = Unfolded(h, b, s)
  <2>1. Cardinality(s) <= Cardinality(S)
    BY FS_Subset
  <2>2. g[s] = Unfolded(g, b, s)
    BY <1>3, <2>1
  <2>3. Unfolded(h, b, s) = Unfolded(g, b, s)
    BY DEF Unfolded
  <2> QED BY <2>2, <2>3
<1> QED BY <1>4 DEF IsSum

\* The fold returns the value of a solution.
LEMMA SumDef ==
  ASSUME NEW S, IsFiniteSet(S), NEW b
  PROVE  \E g : IsSum(g, b, S) /\ SumOf(b, S) = g[S]
<1> DEFINE g == CHOOSE f : f =
      [s \in SUBSET S |->
         IF s = {} THEN 0
         ELSE b[CHOOSE x \in s : TRUE] + f[s \ {CHOOSE x \in s : TRUE}]]
<1>1. SumOf(b, S) = g[S]
  BY DEF SumOf, MapThenSumSet, MapThenFoldSet
<1>2. \E f : f =
        [s \in SUBSET S |->
           IF s = {} THEN 0
           ELSE b[CHOOSE x \in s : TRUE] + f[s \ {CHOOSE x \in s : TRUE}]]
  <2>1. PICK f : IsSum(f, b, S)
    BY SumExists
  <2>2. f = [s \in SUBSET S |->
               IF s = {} THEN 0
               ELSE b[CHOOSE x \in s : TRUE] + f[s \ {CHOOSE x \in s : TRUE}]]
    BY <2>1 DEF IsSum, Unfolded, Chosen
  <2> QED BY <2>2, Zenon
<1>3. g = [s \in SUBSET S |->
             IF s = {} THEN 0
             ELSE b[CHOOSE x \in s : TRUE] + g[s \ {CHOOSE x \in s : TRUE}]]
  BY <1>2, Zenon
<1>4. IsSum(g, b, S)
  <2> HIDE DEF g
  <2> QED BY <1>3 DEF IsSum, Unfolded, Chosen
<1> QED BY <1>1, <1>4

\* A solution, at a set that is not empty.
LEMMA SumStep ==
  ASSUME NEW S, NEW b, NEW g, IsSum(g, b, S), NEW s \in SUBSET S
  PROVE  /\ s = {} => g[s] = 0
         /\ s # {} => /\ Chosen(s) \in s
                      /\ g[s] = b[Chosen(s)] + g[s \ {Chosen(s)}]
<1>1. g[s] = Unfolded(g, b, s)
  BY DEF IsSum
<1>2. s # {} => Chosen(s) \in s
  BY DEF Chosen
<1> QED BY <1>1, <1>2 DEF Unfolded

\* Solutions for balances that agree on s agree at s.
LEMMA SumAgree ==
  ASSUME NEW S, NEW R, IsFiniteSet(S), NEW b, NEW c, NEW g, NEW h,
         IsSum(g, b, S), IsSum(h, c, R),
         NEW s, s \subseteq S, s \subseteq R, \A a \in s : b[a] = c[a]
  PROVE  g[s] = h[s]
<1> DEFINE T == {r \in SUBSET s : g[r] # h[r]}
<1> SUFFICES ASSUME T # {} PROVE FALSE
  OBVIOUS
<1>0. IsFiniteSet(s) /\ T \in SUBSET SUBSET s
  BY FS_Subset
<1>1. PICK r \in T : \A q \in T : q \subseteq r => q = r
  <2> HIDE DEF T
  <2> QED BY <1>0, SmallestSet
<1>2. r \in SUBSET S /\ r \in SUBSET R /\ g[r] # h[r]
  OBVIOUS
<1>3. r # {}
  BY <1>2, SumStep
<1>4. /\ Chosen(r) \in r
      /\ g[r] = b[Chosen(r)] + g[r \ {Chosen(r)}]
      /\ h[r] = c[Chosen(r)] + h[r \ {Chosen(r)}]
  BY <1>2, <1>3, SumStep
<1>5. g[r \ {Chosen(r)}] = h[r \ {Chosen(r)}]
  BY <1>1, <1>4
<1> QED BY <1>2, <1>4, <1>5

\* A solution for integers is integer.
LEMMA SumInteger ==
  ASSUME NEW S, IsFiniteSet(S), NEW b, NEW g, IsSum(g, b, S),
         \A a \in S : b[a] \in Int, NEW s \in SUBSET S
  PROVE  g[s] \in Int
<1> DEFINE T == {r \in SUBSET S : g[r] \notin Int}
<1> SUFFICES ASSUME T # {} PROVE FALSE
  OBVIOUS
<1>1. PICK r \in T : \A q \in T : q \subseteq r => q = r
  <2>1. T \in SUBSET SUBSET S
    OBVIOUS
  <2> HIDE DEF T
  <2> QED BY <2>1, SmallestSet
<1>2. r # {}
  <2>1. r \in SUBSET S /\ g[r] \notin Int
    OBVIOUS
  <2>2. r = {} => g[r] = 0
    BY <2>1, SumStep
  <2> QED BY <2>1, <2>2
<1>3. /\ Chosen(r) \in r /\ r \in SUBSET S
      /\ g[r] = b[Chosen(r)] + g[r \ {Chosen(r)}]
  BY <1>2, SumStep
<1>4. g[r \ {Chosen(r)}] \in Int
  BY <1>1, <1>3
<1> QED BY <1>3, <1>4

\* Any element may be taken first.
LEMMA SumAny ==
  ASSUME NEW S, IsFiniteSet(S), NEW b, NEW g, IsSum(g, b, S),
         \A a \in S : b[a] \in Int, NEW s \in SUBSET S, NEW x \in s
  PROVE  g[s] = b[x] + g[s \ {x}]
<1> DEFINE T == {r \in SUBSET S : \E y \in r : g[r] # b[y] + g[r \ {y}]}
<1> SUFFICES ASSUME T # {} PROVE FALSE
  OBVIOUS
<1>1. PICK r \in T : \A q \in T : q \subseteq r => q = r
  <2>1. T \in SUBSET SUBSET S
    OBVIOUS
  <2> HIDE DEF T
  <2> QED BY <2>1, SmallestSet
<1>2. PICK y \in r : g[r] # b[y] + g[r \ {y}]
  OBVIOUS
<1> DEFINE z == Chosen(r)
           rest == (r \ {z}) \ {y}
<1>3. z \in r /\ r \in SUBSET S /\ g[r] = b[z] + g[r \ {z}]
  BY <1>2, SumStep
<1>4. y # z
  BY <1>2, <1>3
<1>5. /\ r \ {z} \in SUBSET S /\ r \ {z} \notin T /\ y \in r \ {z}
      /\ r \ {y} \in SUBSET S /\ r \ {y} \notin T /\ z \in r \ {y}
  BY <1>1, <1>2, <1>3, <1>4
<1>6. (r \ {y}) \ {z} = rest
  OBVIOUS
<1>7. g[r \ {z}] = b[y] + g[rest] /\ g[r \ {y}] = b[z] + g[rest]
  BY <1>5, <1>6
<1>8. g[rest] \in Int /\ b[y] \in Int /\ b[z] \in Int
  BY <1>2, <1>3, SumInteger
<1> HIDE DEF rest, z
<1> QED BY <1>2, <1>3, <1>7, <1>8
-----------------------------------------------------------------------------
(***************************************************************************)
(* The sum                                                                 *)
(***************************************************************************)

\* The sum of integers is one.
LEMMA SumType ==
  ASSUME NEW S, IsFiniteSet(S), NEW b, \A a \in S : b[a] \in Int
  PROVE  SumOf(b, S) \in Int
BY SumDef, SumInteger

\* Without accounts there is no money.
LEMMA SumEmpty ==
  ASSUME NEW b
  PROVE  SumOf(b, {}) = 0
<1>1. PICK g : IsSum(g, b, {}) /\ SumOf(b, {}) = g[{}]
  BY SumDef, FS_EmptySet
<1> QED BY <1>1, SumStep

\* Balances that are the same have the same sum.
LEMMA SumSame ==
  ASSUME NEW S, IsFiniteSet(S), NEW b, NEW c, \A a \in S : b[a] = c[a]
  PROVE  SumOf(b, S) = SumOf(c, S)
<1>1. PICK g : IsSum(g, b, S) /\ SumOf(b, S) = g[S]
  BY SumDef
<1>2. PICK h : IsSum(h, c, S) /\ SumOf(c, S) = h[S]
  BY SumDef
<1>3. g[S] = h[S]
  <2>1. IsSum(g, b, S) /\ IsSum(h, c, S)
    BY <1>1, <1>2
  <2> QED BY <2>1, SumAgree, Z3
<1> QED BY <1>1, <1>2, <1>3

\* An account contributes its balance.
LEMMA SumElement ==
  ASSUME NEW S, IsFiniteSet(S), NEW b, \A a \in S : b[a] \in Int, NEW x \in S
  PROVE  SumOf(b, S) = b[x] + SumOf(b, S \ {x})
<1>1. PICK g : IsSum(g, b, S) /\ SumOf(b, S) = g[S]
  BY SumDef
<1>2. IsFiniteSet(S \ {x})
  BY FS_RemoveElement
<1>3. PICK h : IsSum(h, b, S \ {x}) /\ SumOf(b, S \ {x}) = h[S \ {x}]
  BY <1>2, SumDef
<1>4. h[S \ {x}] = g[S \ {x}]
  BY <1>1, <1>2, <1>3, SumAgree
<1>5. g[S] = b[x] + g[S \ {x}]
  BY <1>1, SumAny
<1> QED BY <1>1, <1>3, <1>4, <1>5

\* A balance that changes changes the sum by as much.
LEMMA SumUpdate ==
  ASSUME NEW S, IsFiniteSet(S), NEW b, NEW c,
         \A a \in S : b[a] \in Int /\ c[a] \in Int,
         NEW x \in S, \A a \in S \ {x} : b[a] = c[a]
  PROVE  SumOf(c, S) = SumOf(b, S) - b[x] + c[x]
<1>1. IsFiniteSet(S \ {x}) /\ \A a \in S \ {x} : b[a] \in Int
  BY FS_RemoveElement
<1>2. SumOf(b, S \ {x}) = SumOf(c, S \ {x})
  BY <1>1, SumSame
<1>3. SumOf(b, S) = b[x] + SumOf(b, S \ {x})
  BY SumElement
<1>4. SumOf(c, S) = c[x] + SumOf(c, S \ {x})
  BY SumElement
<1>5. SumOf(b, S \ {x}) \in Int
  BY <1>1, SumType
<1> QED BY <1>2, <1>3, <1>4, <1>5

\* Accounts without money may be left out.
LEMMA SumZero ==
  ASSUME NEW S, IsFiniteSet(S), NEW b, \A a \in S : b[a] \in Int,
         NEW E \in SUBSET S, \A a \in E : b[a] = 0
  PROVE  SumOf(b, S \ E) = SumOf(b, S)
<1> DEFINE T == {D \in SUBSET E : SumOf(b, S \ D) # SumOf(b, S)}
<1> SUFFICES ASSUME T # {} PROVE FALSE
  OBVIOUS
<1>1. PICK D \in T : \A C \in T : C \subseteq D => C = D
  <2>1. T \in SUBSET SUBSET E /\ IsFiniteSet(E)
    BY FS_Subset
  <2> HIDE DEF T
  <2> QED BY <2>1, SmallestSet
<1>2. D \in SUBSET E /\ SumOf(b, S \ D) # SumOf(b, S)
  OBVIOUS
<1>3. D # {}
  <2>1. S \ {} = S
    OBVIOUS
  <2> QED BY <1>2, <2>1
<1>4. PICK x \in D : TRUE
  BY <1>3
<1> DEFINE R == S \ (D \ {x})
<1>5. SumOf(b, R) = SumOf(b, S)
  BY <1>1, <1>2, <1>4
<1>6. /\ IsFiniteSet(R) /\ x \in R /\ R \ {x} = S \ D
      /\ \A a \in R : b[a] \in Int
  BY <1>2, <1>4, FS_Difference
<1> HIDE DEF R
<1>7. SumOf(b, R) = b[x] + SumOf(b, R \ {x})
  BY <1>6, SumElement
<1>8. IsFiniteSet(S \ D) /\ SumOf(b, S \ D) \in Int
  BY FS_Difference, SumType
<1>9. b[x] = 0
  BY <1>2, <1>4
<1>10. SumOf(b, R \ {x}) = SumOf(b, S \ D)
  BY <1>6
<1> HIDE DEF T
<1> QED BY <1>2, <1>5, <1>7, <1>8, <1>9, <1>10
-----------------------------------------------------------------------------
(***************************************************************************)
(* The two writes                                                          *)
(***************************************************************************)

\* An account without an item has no money.
NoItemNoMoney == \A a \in Accounts \ items : balance[a] = 0

\* The accounts with an item have all the money.
LEMMA TotalIsMoney ==
  ASSUME NEW b \in [Accounts -> Int], NEW I \in SUBSET Accounts,
         \A a \in Accounts \ I : b[a] = 0
  PROVE  SumOf(b, I) = SumOf(b, Accounts)
<1> DEFINE E == Accounts \ I
<1>1. /\ E \in SUBSET Accounts /\ Accounts \ E = I
      /\ \A a \in E : b[a] = 0
      /\ \A a \in Accounts : b[a] \in Int
      /\ IsFiniteSet(Accounts)
  BY AccountsAssumption
<1> HIDE DEF E
<1>2. SumOf(b, Accounts \ E) = SumOf(b, Accounts)
  BY <1>1, SumZero
<1> QED BY <1>1, <1>2

\* What Fund does: an account that is there is left alone, another one is
\* added and gets its funding.
LEMMA FundEffect ==
  ASSUME AccountsType, NoItemNoMoney, NEW tx, tx.iban \in Accounts, Fund(tx)
  PROVE  /\ AccountsType' /\ NoItemNoMoney'
         /\ items' = items \cup {tx.iban}
         /\ SumOf(balance', Accounts) =
              SumOf(balance, Accounts)
                + (IF tx.iban \in items THEN 0 ELSE Funding)
<1>0. SumOf(balance, Accounts) \in Int
  BY SumType, AccountsAssumption DEF AccountsType
<1>1. CASE tx.iban \in items
  <2>1. UNCHANGED <<items, balance>>
    BY <1>1 DEF Fund, Unchanged
  <2>2. AccountsType' /\ NoItemNoMoney'
    BY <2>1 DEF AccountsType, NoItemNoMoney
  <2>3. SumOf(balance', Accounts) = SumOf(balance, Accounts)
    BY <2>1
  <2> QED BY <1>0, <1>1, <2>1, <2>2, <2>3
<1>2. CASE tx.iban \notin items
  <2>1. /\ items' = items \cup {tx.iban}
        /\ balance' = [balance EXCEPT ![tx.iban] = Funding]
        /\ balance \in [Accounts -> Int] /\ balance[tx.iban] = 0
        /\ IsFiniteSet(Accounts) /\ Funding \in Int
    BY <1>2, AccountsAssumption DEF Fund, AccountsType, NoItemNoMoney
  <2>2. AccountsType' /\ NoItemNoMoney'
    BY <2>1 DEF AccountsType, NoItemNoMoney
  <2>3. /\ \A a \in Accounts : balance[a] \in Int /\ balance'[a] \in Int
        /\ \A a \in Accounts \ {tx.iban} : balance[a] = balance'[a]
        /\ balance'[tx.iban] = Funding
    BY <2>1
  <2>4. SumOf(balance', Accounts) = SumOf(balance, Accounts)
          - balance[tx.iban] + balance'[tx.iban]
    BY <2>3, AccountsAssumption, SumUpdate
  <2> QED BY <1>0, <1>2, <2>1, <2>2, <2>3, <2>4
<1> QED BY <1>1, <1>2

\* What Transfer does: both accounts are there, and there is as much money as
\* before.
LEMMA TransferEffect ==
  ASSUME AccountsType, NoItemNoMoney, NEW tx,
         tx.from \in Accounts, tx.to \in Accounts, tx.amount \in Nat,
         Transfer(tx)
  PROVE  /\ AccountsType' /\ NoItemNoMoney'
         /\ items \subseteq items'
         /\ items' \subseteq items \cup {tx.from, tx.to}
         /\ SumOf(balance', Accounts) = SumOf(balance, Accounts)
<1>1. CASE tx.from = tx.to
  <2>1. UNCHANGED <<items, balance>>
    BY <1>1 DEF Transfer, Unchanged
  <2>2. AccountsType' /\ NoItemNoMoney'
    BY <2>1 DEF AccountsType, NoItemNoMoney
  <2>3. SumOf(balance', Accounts) = SumOf(balance, Accounts)
    BY <2>1
  <2> QED BY <2>1, <2>2, <2>3
<1>2. CASE tx.from # tx.to
  <2>0. PICK x \in Accounts, y \in Accounts, n \in Nat :
          x = tx.from /\ y = tx.to /\ n = tx.amount
    OBVIOUS
  <2> DEFINE b == [balance EXCEPT ![x] = @ - n]
  <2>1. /\ x # y /\ items' = items \cup {x, y}
        /\ balance' = [balance EXCEPT ![x] = @ - n, ![y] = @ + n]
        /\ balance \in [Accounts -> Int] /\ b \in [Accounts -> Int]
        /\ IsFiniteSet(Accounts)
    BY <1>2, <2>0, AccountsAssumption DEF Transfer, AccountsType
  <2>2. AccountsType' /\ NoItemNoMoney'
    BY <2>1 DEF AccountsType, NoItemNoMoney
  <2>3. /\ b[x] = balance[x] - n /\ \A a \in Accounts \ {x} : balance[a] = b[a]
        /\ \A a \in Accounts : balance[a] \in Int /\ b[a] \in Int
    BY <2>1
  <2>4. /\ balance'[y] = b[y] + n
        /\ \A a \in Accounts \ {y} : b[a] = balance'[a]
        /\ \A a \in Accounts : balance'[a] \in Int
    BY <2>1
  <2> HIDE DEF b
  <2>5. SumOf(b, Accounts) = SumOf(balance, Accounts) - balance[x] + b[x]
    BY <2>1, <2>3, SumUpdate
  <2>6. SumOf(balance', Accounts) = SumOf(b, Accounts) - b[y] + balance'[y]
    BY <2>3, <2>4, AccountsAssumption, SumUpdate
  <2>7. SumOf(balance, Accounts) \in Int /\ SumOf(b, Accounts) \in Int
    BY <2>1, <2>3, SumType
  <2>8. SumOf(balance', Accounts) = SumOf(balance, Accounts)
    BY <2>3, <2>4, <2>5, <2>6, <2>7
  <2> QED BY <2>0, <2>1, <2>2, <2>8
<1> QED BY <1>1, <1>2
=============================================================================
