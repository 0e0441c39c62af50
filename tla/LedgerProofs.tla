---------------------------- MODULE LedgerProofs ----------------------------
(***************************************************************************)
(* Facts about the books that hold for any fills: their types, what the    *)
(* running totals add up to, what a position costs, and that money is not  *)
(* made by booking a fill.  The invariant is BooksInv; the engine's proofs *)
(* cite OnFillBooks and SameBooks for its own steps.                       *)
(***************************************************************************)
EXTENDS Ledger, TLAPS, FiniteSetTheorems, WellFoundedInduction

-----------------------------------------------------------------------------
(* Sums.  SumOver, in which Ledger states what the books add up to, is a    *)
(* CHOOSE of a recursive function.  Where induction over the set would be   *)
(* used, the proofs take a smallest set for which the claim fails and show  *)
(* that it is not one.                                                      *)

(* Among sets there is one none of whose proper subsets is among them.      *)
LEMMA SmallestSet ==
  ASSUME NEW S, IsFiniteSet(S), NEW Sets, Sets \subseteq SUBSET S, Sets # {}
  PROVE  \E T \in Sets : IsFiniteSet(T) /\ \A U \in Sets : U \subseteq T => U = T
<1>1. Sets \subseteq FiniteSubsetsOf(S)
  BY FS_Subset DEF FiniteSubsetsOf
<1>2. PICK T \in Sets : \A U \in Sets : ~(<<U, T>> \in StrictSubsetOrdering(S))
  BY <1>1, FS_StrictSubsetOrderingWellFounded, WFMin, Zenon
<1>. QED
  BY <1>1, <1>2 DEF StrictSubsetOrdering, FiniteSubsetsOf

AnyOf(s) == CHOOSE x \in s : TRUE

LEMMA AnyOfIn == \A s : s # {} => AnyOf(s) \in s
  BY DEF AnyOf

(* What the fold of SumOver does with a set and each of its subsets.        *)
FoldsOver(g, f, S) ==
  g = [s \in SUBSET S |->
         IF s = {} THEN 0 ELSE f[AnyOf(s)] + g[s \ {AnyOf(s)}]]

Folded(f, S) == (CHOOSE g : FoldsOver(g, f, S))[S]

LEMMA SumIsFolded ==
  ASSUME NEW f, NEW S
  PROVE  SumOver(f, S) = Folded(f, S)
  BY DEF SumOver, FoldFunctionOnSet, MapThenFoldSet, Folded, FoldsOver, AnyOf

LEMMA FoldsAt ==
  ASSUME NEW g, NEW f, NEW S, FoldsOver(g, f, S), NEW s \in SUBSET S
  PROVE  g[s] = IF s = {} THEN 0 ELSE f[AnyOf(s)] + g[s \ {AnyOf(s)}]
  BY DEF FoldsOver

LEMMA FoldsAgree ==
  ASSUME NEW f, NEW S, NEW T, NEW s \in SUBSET S, IsFiniteSet(s), s \subseteq T,
         NEW g, FoldsOver(g, f, S), NEW h, FoldsOver(h, f, T)
  PROVE  g[s] = h[s]
<1>. DEFINE Differ == {u \in SUBSET s : g[u] # h[u]}
<1>1. SUFFICES ASSUME Differ # {} PROVE FALSE
  OBVIOUS
<1>2. PICK u \in Differ : \A v \in Differ : v \subseteq u => v = u
  <2>1. Differ \subseteq SUBSET s
    OBVIOUS
  <2>. HIDE DEF Differ
  <2>. QED
    BY <1>1, <2>1, SmallestSet
<1>3. CASE u = {}
  BY <1>2, <1>3, FoldsAt
<1>4. CASE u # {}
  <2>1. AnyOf(u) \in u /\ u \ {AnyOf(u)} \notin Differ
    BY <1>2, <1>4, AnyOfIn
  <2>2. g[u \ {AnyOf(u)}] = h[u \ {AnyOf(u)}]
    BY <2>1
  <2>3. u \in SUBSET S /\ u \in SUBSET T
    OBVIOUS
  <2>. QED
    BY <1>2, <1>4, <2>2, <2>3, FoldsAt
<1>. QED
  BY <1>3, <1>4

LEMMA FoldExists ==
  ASSUME NEW f, NEW S, IsFiniteSet(S)
  PROVE  \E g : FoldsOver(g, f, S)
<1>. DEFINE Without == {T \in SUBSET S : ~\E g : FoldsOver(g, f, T)}
<1>1. SUFFICES ASSUME Without # {} PROVE FALSE
  OBVIOUS
<1>2. PICK T \in Without : IsFiniteSet(T) /\ \A U \in Without : U \subseteq T => U = T
  <2>1. Without \subseteq SUBSET S
    OBVIOUS
  <2>. HIDE DEF Without
  <2>. QED
    BY <1>1, <2>1, SmallestSet
<1>. DEFINE g == [s \in SUBSET T |-> IF s = {} THEN 0
                                     ELSE f[AnyOf(s)] + Folded(f, s \ {AnyOf(s)})]
<1>3. ASSUME NEW u \in SUBSET T, u # T
      PROVE  FoldsOver(CHOOSE h : FoldsOver(h, f, u), f, u)
  <2>1. \E h : FoldsOver(h, f, u)
    BY <1>2, <1>3
  <2>. QED
    BY <2>1
<1>4. ASSUME NEW s \in SUBSET T, s # {}
      PROVE  g[s \ {AnyOf(s)}] = Folded(f, s \ {AnyOf(s)})
  <2>. DEFINE u == s \ {AnyOf(s)}
              G == CHOOSE h : FoldsOver(h, f, u)
              H == CHOOSE h : FoldsOver(h, f, u \ {AnyOf(u)})
  <2>1. u \in SUBSET T /\ u # T /\ IsFiniteSet(u)
    BY <1>2, <1>4, AnyOfIn, FS_Subset
  <2>2. FoldsOver(G, f, u)
    BY <1>3, <2>1
  <2>3. G[u] = IF u = {} THEN 0 ELSE f[AnyOf(u)] + G[u \ {AnyOf(u)}]
    BY <2>2, FoldsAt
  <2>4. CASE u = {}
    BY <2>1, <2>3, <2>4 DEF Folded
  <2>5. CASE u # {}
    <3>1. /\ u \ {AnyOf(u)} \in SUBSET T /\ u \ {AnyOf(u)} # T
          /\ IsFiniteSet(u \ {AnyOf(u)})
      BY <2>1, <2>5, AnyOfIn, FS_Subset
    <3>2. FoldsOver(H, f, u \ {AnyOf(u)})
      BY <1>3, <3>1
    <3>3. G[u \ {AnyOf(u)}] = H[u \ {AnyOf(u)}]
      BY <2>2, <3>1, <3>2, FoldsAgree
    <3>4. g[u] = f[AnyOf(u)] + H[u \ {AnyOf(u)}]
      BY <2>1, <2>5 DEF Folded
    <3>. QED
      BY <2>3, <2>5, <3>3, <3>4 DEF Folded
  <2>. QED
    BY <2>4, <2>5
<1>5. FoldsOver(g, f, T)
  <2>1. \A s \in SUBSET T : g[s] = IF s = {} THEN 0
                                   ELSE f[AnyOf(s)] + g[s \ {AnyOf(s)}]
    BY <1>4
  <2>2. g = [s \in SUBSET T |-> g[s]]
    OBVIOUS
  <2>. HIDE DEF g
  <2>. QED
    BY <2>1, <2>2 DEF FoldsOver
<1>. QED
  BY <1>2, <1>5

(* A sum is one of its terms and the sum of the others...                   *)
LEMMA SumUnfold ==
  ASSUME NEW f, NEW S, IsFiniteSet(S)
  PROVE  SumOver(f, S) = IF S = {} THEN 0
                         ELSE f[AnyOf(S)] + SumOver(f, S \ {AnyOf(S)})
<1>. DEFINE G == CHOOSE h : FoldsOver(h, f, S)
            H == CHOOSE h : FoldsOver(h, f, S \ {AnyOf(S)})
<1>1. FoldsOver(G, f, S)
  <2>1. \E h : FoldsOver(h, f, S)
    BY FoldExists
  <2>. QED
    BY <2>1
<1>2. SumOver(f, S) = G[S]
  BY SumIsFolded DEF Folded
<1>3. G[S] = IF S = {} THEN 0 ELSE f[AnyOf(S)] + G[S \ {AnyOf(S)}]
  BY <1>1, FoldsAt
<1>4. SumOver(f, S \ {AnyOf(S)}) = H[S \ {AnyOf(S)}]
  BY SumIsFolded DEF Folded
<1>5. IsFiniteSet(S \ {AnyOf(S)})
  BY FS_Subset
<1>6. FoldsOver(H, f, S \ {AnyOf(S)})
  <2>1. \E h : FoldsOver(h, f, S \ {AnyOf(S)})
    BY <1>5, FoldExists
  <2>. QED
    BY <2>1
<1>. HIDE DEF G, H
<1>7. G[S \ {AnyOf(S)}] = H[S \ {AnyOf(S)}]
  <2>. DEFINE T == S \ {AnyOf(S)}
  <2>1. T \in SUBSET S /\ T \subseteq T
    OBVIOUS
  <2>. HIDE DEF T
  <2>. QED
    BY <1>1, <1>5, <1>6, <2>1, FoldsAgree DEF T
<1>. QED
  BY <1>2, <1>3, <1>4, <1>7

(* ... and any of them may be that one: the order does not matter.          *)
LEMMA SumType ==
  ASSUME NEW f, NEW S, IsFiniteSet(S), \A x \in S : f[x] \in Int
  PROVE  SumOver(f, S) \in Int
<1>. DEFINE Wrong == {T \in SUBSET S : SumOver(f, T) \notin Int}
<1>1. SUFFICES ASSUME Wrong # {} PROVE FALSE
  OBVIOUS
<1>2. PICK T \in Wrong : IsFiniteSet(T) /\ \A U \in Wrong : U \subseteq T => U = T
  <2>1. Wrong \subseteq SUBSET S
    OBVIOUS
  <2>. HIDE DEF Wrong
  <2>. QED
    BY <1>1, <2>1, SmallestSet
<1>3. SumOver(f, T) = IF T = {} THEN 0 ELSE f[AnyOf(T)] + SumOver(f, T \ {AnyOf(T)})
  BY <1>2, SumUnfold
<1>4. CASE T # {}
  <2>1. AnyOf(T) \in T
    BY <1>4, AnyOfIn
  <2>2. SumOver(f, T \ {AnyOf(T)}) \in Int /\ f[AnyOf(T)] \in Int
    BY <1>2, <2>1
  <2>. QED
    BY <1>2, <1>3, <1>4, <2>2
<1>. QED
  BY <1>2, <1>3, <1>4

LEMMA SumRemove ==
  ASSUME NEW f, NEW S, IsFiniteSet(S), \A x \in S : f[x] \in Int, NEW x \in S
  PROVE  SumOver(f, S) = f[x] + SumOver(f, S \ {x})
<1>. DEFINE Splits(T) == \A y \in T : SumOver(f, T) = f[y] + SumOver(f, T \ {y})
            Wrong == {T \in SUBSET S : ~Splits(T)}
<1>1. SUFFICES ASSUME Wrong # {} PROVE FALSE
  OBVIOUS
<1>2. PICK T \in Wrong : IsFiniteSet(T) /\ \A U \in Wrong : U \subseteq T => U = T
  <2>1. Wrong \subseteq SUBSET S
    OBVIOUS
  <2>. HIDE DEF Wrong
  <2>. QED
    BY <1>1, <2>1, SmallestSet
<1>3. PICK y \in T : SumOver(f, T) # f[y] + SumOver(f, T \ {y})
  BY <1>2
<1>. DEFINE z == AnyOf(T)
            U == (T \ {y}) \ {z}
<1>4. z \in T /\ SumOver(f, T) = f[z] + SumOver(f, T \ {z})
  BY <1>2, <1>3, AnyOfIn, SumUnfold
<1>5. y # z
  BY <1>3, <1>4
<1>. HIDE DEF z
<1>6. Splits(T \ {z}) /\ Splits(T \ {y})
  BY <1>2, <1>3, <1>4
<1>7. (T \ {z}) \ {y} = U
  OBVIOUS
<1>8. SumOver(f, T \ {z}) = f[y] + SumOver(f, U)
  BY <1>3, <1>5, <1>6, <1>7
<1>9. SumOver(f, T \ {y}) = f[z] + SumOver(f, U)
  BY <1>4, <1>5, <1>6
<1>10. f[y] \in Int /\ f[z] \in Int
  BY <1>2, <1>3, <1>4
<1>11. SumOver(f, U) \in Int
  BY <1>2, FS_Subset, SumType
<1>. HIDE DEF U
<1>. QED
  BY <1>3, <1>4, <1>8, <1>9, <1>10, <1>11

LEMMA SumAdd ==
  ASSUME NEW f, NEW S, IsFiniteSet(S), NEW x, x \notin S,
         \A y \in S \cup {x} : f[y] \in Int
  PROVE  SumOver(f, S \cup {x}) = SumOver(f, S) + f[x]
<1>. DEFINE T == S \cup {x}
<1>1. IsFiniteSet(T) /\ T \ {x} = S /\ x \in T
  BY FS_AddElement
<1>2. SumOver(f, T) = f[x] + SumOver(f, T \ {x})
  BY <1>1, SumRemove
<1>3. SumOver(f, S) \in Int /\ f[x] \in Int
  BY SumType
<1>4. SumOver(f, T) = f[x] + SumOver(f, S)
  BY <1>1, <1>2
<1>. QED
  BY <1>3, <1>4

(* A sum depends on the terms at its indices only.                          *)
LEMMA SumSame ==
  ASSUME NEW f, NEW g, NEW S, IsFiniteSet(S), \A x \in S : f[x] = g[x]
  PROVE  SumOver(f, S) = SumOver(g, S)
<1>. DEFINE Wrong == {T \in SUBSET S : SumOver(f, T) # SumOver(g, T)}
<1>1. SUFFICES ASSUME Wrong # {} PROVE FALSE
  OBVIOUS
<1>2. PICK T \in Wrong : IsFiniteSet(T) /\ \A U \in Wrong : U \subseteq T => U = T
  <2>1. Wrong \subseteq SUBSET S
    OBVIOUS
  <2>. HIDE DEF Wrong
  <2>. QED
    BY <1>1, <2>1, SmallestSet
<1>3. /\ SumOver(f, T) = IF T = {} THEN 0 ELSE f[AnyOf(T)] + SumOver(f, T \ {AnyOf(T)})
      /\ SumOver(g, T) = IF T = {} THEN 0 ELSE g[AnyOf(T)] + SumOver(g, T \ {AnyOf(T)})
  BY <1>2, SumUnfold
<1>4. CASE T # {}
  <2>1. AnyOf(T) \in T
    BY <1>4, AnyOfIn
  <2>2. SumOver(f, T \ {AnyOf(T)}) = SumOver(g, T \ {AnyOf(T)}) /\ f[AnyOf(T)] = g[AnyOf(T)]
    BY <1>2, <2>1
  <2>. QED
    BY <1>2, <1>3, <1>4, <2>2
<1>. QED
  BY <1>2, <1>3, <1>4

(* One term changes.                                                        *)
LEMMA SumChange ==
  ASSUME NEW f, NEW g, NEW S, IsFiniteSet(S), NEW x \in S,
         \A y \in S : f[y] \in Int /\ g[y] \in Int,
         \A y \in S \ {x} : f[y] = g[y]
  PROVE  SumOver(g, S) = SumOver(f, S) + (g[x] - f[x])
<1>1. /\ SumOver(f, S) = f[x] + SumOver(f, S \ {x})
      /\ SumOver(g, S) = g[x] + SumOver(g, S \ {x})
  BY SumRemove
<1>2. IsFiniteSet(S \ {x})
  BY FS_RemoveElement
<1>3. SumOver(f, S \ {x}) = SumOver(g, S \ {x}) /\ SumOver(f, S \ {x}) \in Int
  BY <1>2, SumSame, SumType
<1>4. f[x] \in Int /\ g[x] \in Int
  OBVIOUS
<1>. QED
  BY <1>1, <1>3, <1>4

(* Terms that are zero may be left out.                                     *)
LEMMA SumNonZero ==
  ASSUME NEW f, NEW S, IsFiniteSet(S), \A x \in S : f[x] \in Int,
         NEW T, T \subseteq S, \A x \in S \ T : f[x] = 0
  PROVE  SumOver(f, S) = SumOver(f, T)
<1>. DEFINE Wrong == {U \in SUBSET S : T \subseteq U /\ SumOver(f, U) # SumOver(f, T)}
<1>1. SUFFICES ASSUME Wrong # {} PROVE FALSE
  OBVIOUS
<1>2. PICK U \in Wrong : IsFiniteSet(U) /\ \A V \in Wrong : V \subseteq U => V = U
  <2>1. Wrong \subseteq SUBSET S
    OBVIOUS
  <2>. HIDE DEF Wrong
  <2>. QED
    BY <1>1, <2>1, SmallestSet
<1>3. PICK x \in U : x \notin T
  <2>1. T \subseteq U /\ U # T
    BY <1>2
  <2>. QED
    BY <2>1
<1>4. SumOver(f, U) = f[x] + SumOver(f, U \ {x})
  BY <1>2, <1>3, SumRemove
<1>5. SumOver(f, U \ {x}) = SumOver(f, T)
  BY <1>2, <1>3
<1>6. IsFiniteSet(U \ {x}) /\ \A y \in U \ {x} : f[y] \in Int
  BY <1>2, FS_RemoveElement
<1>7. SumOver(f, U \ {x}) \in Int /\ f[x] = 0
  BY <1>2, <1>3, <1>6, SumType
<1>. QED
  BY <1>2, <1>4, <1>5, <1>7

-----------------------------------------------------------------------------
(* Types of the books.                                                      *)

Positions == [qty : Int, avg : Int, realized : Int]

LEMMA AbsType ==
  ASSUME NEW n \in Int
  PROVE  /\ Abs(n) \in Nat
         /\ n # 0 => Abs(n) # 0
  BY DEF Abs

LEMMA TruncDivType ==
  ASSUME NEW a \in Int, NEW b \in Nat \ {0}
  PROVE  TruncDiv(a, b) \in Int
<1>1. a \div b \in Int /\ (-a) \div b \in Int
  OBVIOUS
<1>. QED
  BY <1>1 DEF TruncDiv

LEMMA FillFields ==
  ASSUME NEW f \in Fills
  PROVE  /\ f.inst \in Instruments /\ f.strat \in Strategies
         /\ f.qty \in Nat \ {0} /\ f.price \in Int /\ f.fee \in Int
         /\ f.side \in {"buy", "sell"}
         /\ f.ts \in Int /\ f.of \in Int
         /\ SignedQty(f) \in Int /\ Cost(f) \in Int
         /\ SideSign(f.side) \in {-1, 1}
  BY DEF Fills, SignedQty, SideSign, Cost

LEMMA ClosedType ==
  ASSUME NEW pos \in Positions, NEW f \in Fills
  PROVE  /\ Sign(pos.qty) \in {-1, 0, 1}
         /\ ClosedQty(pos, f) \in Nat
         /\ RealizedBy(pos, f) \in Int
<1>1. /\ pos.qty \in Int /\ pos.avg \in Int
      /\ Sign(pos.qty) \in {-1, 0, 1}
  BY DEF Positions, Sign
<1>2. ClosedQty(pos, f) \in Nat
  BY <1>1, AbsType, FillFields DEF ClosedQty, Least
<1>3. (f.price - pos.avg) * Sign(pos.qty) \in Int
  BY <1>1, FillFields
<1>. QED
  BY <1>1, <1>2, <1>3 DEF RealizedBy

LEMMA PositionUpdateType ==
  ASSUME NEW pos \in Positions, NEW f \in Fills
  PROVE  PositionUpdate(pos, f) \in Positions
<1>1. /\ pos.qty \in Int /\ pos.avg \in Int /\ pos.realized \in Int
  BY DEF Positions
<1>2. Abs(pos.qty) * pos.avg + Cost(f) \in Int
  BY <1>1, AbsType, FillFields
<1>3. Abs(pos.qty) + f.qty \in Nat \ {0}
  BY <1>1, AbsType, FillFields
<1>4. AveragedCost(pos, f) \in Int
  BY <1>2, <1>3, TruncDivType DEF AveragedCost
<1>5. CostAfter(pos, f) \in Int
  BY <1>1, <1>4, FillFields DEF CostAfter
<1>6. /\ pos.qty + SignedQty(f) \in Int
      /\ pos.realized + RealizedBy(pos, f) \in Int
  BY <1>1, FillFields, ClosedType
<1>. QED
  BY <1>5, <1>6 DEF PositionUpdate, Positions

(* A fill keeps the types of the books; cited for every step of the engine  *)
(* that books a fill.                                                       *)
LEMMA OnFillType ==
  ASSUME NEW f \in Fills, LedgerTypeOK, OnFill(f)
  PROVE  LedgerTypeOK'
<1>. USE FillFields
<1>1. cash' \in Int
  BY DEF LedgerTypeOK, OnFill, AccountOnFill, CashAfter
<1>2. positions' \in [Instruments -> Positions]
  <2>1. positions \in [Instruments -> Positions]
    BY DEF LedgerTypeOK, Positions
  <2>2. positions' = [positions EXCEPT ![f.inst] =
                        PositionUpdate(positions[f.inst], f)]
    BY DEF OnFill, AccountOnFill
  <2>. QED
    BY <2>1, <2>2, PositionUpdateType
<1>3. trades' \in Seq(Fills)
  BY DEF LedgerTypeOK, OnFill, AccountOnFill
<1>4. RealizedBy(positions[f.inst], f) \in Int
  BY ClosedType DEF LedgerTypeOK, Positions
<1>5. realized_pnl' \in Int
  BY <1>4 DEF LedgerTypeOK, OnFill, AccountOnFill
<1>6. attribution' \in [Strategies -> [count : Nat, realized : Int,
                                       fees : Int, gross : Nat]]
  <2>1. Abs(Cost(f)) \in Nat
    BY AbsType
  <2>. DEFINE Entries == [count : Nat, realized : Int, fees : Int, gross : Nat]
              old == attribution[f.strat]
              new == AttributionUpdate(old, f, RealizedBy(positions[f.inst], f))
  <2>2. attribution \in [Strategies -> Entries]
    BY DEF LedgerTypeOK
  <2>3. new \in Entries
    BY <1>4, <2>1, <2>2 DEF AttributionUpdate
  <2>4. attribution' = [attribution EXCEPT ![f.strat] = new]
    BY DEF OnFill, AccountOnFill
  <2>. QED
    BY <2>2, <2>3, <2>4
<1>7. strategy_positions' \in [Strategies -> [Instruments -> Int]]
  <2>. DEFINE held == [strategy_positions[f.strat] EXCEPT
                         ![f.inst] = @ + SignedQty(f)]
  <2>1. strategy_positions \in [Strategies -> [Instruments -> Int]]
    BY DEF LedgerTypeOK
  <2>2. held \in [Instruments -> Int]
    BY <2>1
  <2>3. strategy_positions' = [strategy_positions EXCEPT ![f.strat] = held]
    BY DEF OnFill, OnFillExposure
  <2>. HIDE DEF held
  <2>. QED
    BY <2>1, <2>2, <2>3
<1>8. strategy_mark_prices' \in [Strategies -> [Instruments -> Int]]
  <2>. DEFINE marks == [strategy_mark_prices[f.strat] EXCEPT
                          ![f.inst] = f.price]
  <2>1. strategy_mark_prices \in [Strategies -> [Instruments -> Int]]
    BY DEF LedgerTypeOK
  <2>2. marks \in [Instruments -> Int]
    BY <2>1
  <2>3. strategy_mark_prices' = [strategy_mark_prices EXCEPT ![f.strat] = marks]
    BY DEF OnFill, OnFillExposure
  <2>. HIDE DEF marks
  <2>. QED
    BY <2>1, <2>2, <2>3
<1>9. DOMAIN strategy_open_notional' = Strategies
  BY DEF LedgerTypeOK, OnFill, OnFillExposure
<1>. QED
  BY <1>1, <1>2, <1>3, <1>5, <1>6, <1>7, <1>8, <1>9
     DEF LedgerTypeOK, Positions

LEMMA LedgerInitType == LedgerInit => LedgerTypeOK
  BY LedgerAssumption DEF LedgerInit, LedgerTypeOK, NewPosition

(* The books keep their types under any sequence of fills.                  *)
THEOREM LedgerTypeCorrect == LedgerSpec => []LedgerTypeOK
<1>1. LedgerTypeOK /\ [LedgerNext]_ledgerVars => LedgerTypeOK'
  <2>1. ASSUME LedgerTypeOK, LedgerNext PROVE LedgerTypeOK'
    BY <2>1, OnFillType DEF LedgerNext
  <2>2. ASSUME LedgerTypeOK, UNCHANGED ledgerVars PROVE LedgerTypeOK'
    BY <2>2 DEF ledgerVars, accountVars, exposureVars, LedgerTypeOK
  <2>. QED
    BY <2>1, <2>2
<1>. QED
  BY <1>1, LedgerInitType, PTL DEF LedgerSpec
(***************************************************************************)
(* The books and the trade log                                             *)
(***************************************************************************)

(* The trades of a log that satisfy a condition; Mine is the set of trades  *)
(* that do.                                                                 *)
Among(log, Mine) == {n \in DOMAIN log : log[n] \in Mine}

LEMMA AmongAppend ==
  ASSUME NEW log \in Seq(Fills), NEW f \in Fills, NEW Mine
  PROVE  /\ IsFiniteSet(Among(log, Mine))
         /\ Among(log, Mine) \subseteq 1 .. Len(log)
         /\ Len(log) + 1 \notin Among(log, Mine)
         /\ Among(Append(log, f), Mine) =
              IF f \in Mine THEN Among(log, Mine) \cup {Len(log) + 1}
              ELSE Among(log, Mine)
         /\ \A n \in Among(log, Mine) : log[n] \in Fills /\ Append(log, f)[n] = log[n]
         /\ Append(log, f)[Len(log) + 1] = f
<1>1. /\ DOMAIN log = 1 .. Len(log) /\ Len(log) \in Nat
      /\ DOMAIN Append(log, f) = 1 .. Len(log) + 1
      /\ \A n \in 1 .. Len(log) : log[n] \in Fills /\ Append(log, f)[n] = log[n]
      /\ Append(log, f)[Len(log) + 1] = f
  OBVIOUS
<1>2. IsFiniteSet(1 .. Len(log))
  BY <1>1, FS_Interval
<1>3. Among(log, Mine) \subseteq 1 .. Len(log)
  BY <1>1 DEF Among
<1>4. IsFiniteSet(Among(log, Mine))
  BY <1>2, <1>3, FS_Subset
<1>. QED
  BY <1>1, <1>3, <1>4 DEF Among

(* What the trades N of a log add up to, each counting V[trade].            *)
TotalOf(V, log, N) == SumOver([n \in N |-> V[log[n]]], N)

QtyOf == [t \in Fills |-> SignedQty(t)]
FeeOf == [t \in Fills |-> t.fee]
GrossOf == [t \in Fills |-> Abs(Cost(t))]
SpentBy == [t \in Fills |-> SignedQty(t) * t.price + t.fee]

LEMMA ValuesOfFills ==
  /\ QtyOf \in [Fills -> Int] /\ FeeOf \in [Fills -> Int] /\ GrossOf \in [Fills -> Int]
  /\ SpentBy \in [Fills -> Int]
<1>1. QtyOf \in [Fills -> Int] /\ FeeOf \in [Fills -> Int] /\ GrossOf \in [Fills -> Int]
  BY FillFields, AbsType DEF QtyOf, FeeOf, GrossOf
<1>2. \A t \in Fills : SignedQty(t) * t.price + t.fee \in Int
  BY FillFields
<1>. QED
  BY <1>1, <1>2 DEF SpentBy

LEMMA TotalAppend ==
  ASSUME NEW V \in [Fills -> Int], NEW log \in Seq(Fills), NEW f \in Fills, NEW Mine
  PROVE  /\ TotalOf(V, log, Among(log, Mine)) \in Int
         /\ f \in Mine =>
              TotalOf(V, Append(log, f), Among(Append(log, f), Mine)) =
                TotalOf(V, log, Among(log, Mine)) + V[f]
         /\ f \notin Mine =>
              TotalOf(V, Append(log, f), Among(Append(log, f), Mine)) =
                TotalOf(V, log, Among(log, Mine))
<1>. DEFINE N == Among(log, Mine)
            k == Len(log) + 1
            L == Append(log, f)
<1>1. /\ IsFiniteSet(N) /\ k \notin N
      /\ Among(L, Mine) = IF f \in Mine THEN N \cup {k} ELSE N
      /\ \A n \in N : log[n] \in Fills /\ L[n] = log[n]
      /\ L[k] = f
  BY AmongAppend
<1>. DEFINE g == [n \in N |-> V[log[n]]]
            h == [n \in N \cup {k} |-> V[L[n]]]
<1>. HIDE DEF N, k, L
<1>2. /\ \A n \in N : g[n] \in Int /\ h[n] = g[n]
      /\ \A n \in N \cup {k} : h[n] \in Int
      /\ h[k] = V[f] /\ V[f] \in Int
      /\ g = [n \in N |-> V[L[n]]]
  BY <1>1
<1>3. /\ TotalOf(V, log, N) = SumOver(g, N)
      /\ TotalOf(V, L, N) = SumOver(g, N)
      /\ TotalOf(V, L, N \cup {k}) = SumOver(h, N \cup {k})
  BY <1>2 DEF TotalOf
<1>. HIDE DEF g, h
<1>4. SumOver(g, N) \in Int
  BY <1>1, <1>2, SumType
<1>5. SumOver(h, N) = SumOver(g, N)
  BY <1>1, <1>2, SumSame
<1>6. SumOver(h, N \cup {k}) = SumOver(h, N) + h[k]
  BY <1>1, <1>2, SumAdd
<1>. QED
  BY <1>1, <1>2, <1>3, <1>4, <1>5, <1>6 DEF N, L

LEMMA CountAppend ==
  ASSUME NEW log \in Seq(Fills), NEW f \in Fills, NEW Mine
  PROVE  /\ Cardinality(Among(Append(log, f), Mine)) =
              Cardinality(Among(log, Mine)) + (IF f \in Mine THEN 1 ELSE 0)
         /\ Cardinality(Among(log, Mine)) \in Nat
  BY AmongAppend, FS_AddElement, FS_CardinalityType

(* The sums that the properties are stated with, over the trade log.        *)
LEMMA TotalsOfTrades ==
  ASSUME LedgerTypeOK, NEW Mine
  PROVE  LET N == Among(trades, Mine)
         IN  /\ TotalQty(N) = TotalOf(QtyOf, trades, N)
             /\ TotalFees(N) = TotalOf(FeeOf, trades, N)
             /\ TotalGross(N) = TotalOf(GrossOf, trades, N)
             /\ TotalPaid(N) = TotalOf(SpentBy, trades, N)
<1>. DEFINE N == Among(trades, Mine)
<1>1. \A n \in N : trades[n] \in Fills
  BY DEF LedgerTypeOK, Among
<1>. HIDE DEF N
<1>2. /\ [n \in N |-> SignedQty(trades[n])] = [n \in N |-> QtyOf[trades[n]]]
      /\ [n \in N |-> trades[n].fee] = [n \in N |-> FeeOf[trades[n]]]
      /\ [n \in N |-> Abs(Cost(trades[n]))] = [n \in N |-> GrossOf[trades[n]]]
      /\ [n \in N |-> SignedQty(trades[n]) * trades[n].price + trades[n].fee]
           = [n \in N |-> SpentBy[trades[n]]]
  BY <1>1 DEF QtyOf, FeeOf, GrossOf, SpentBy
<1>. QED
  BY <1>2 DEF TotalQty, TotalFees, TotalGross, TotalPaid, TotalOf, N

(* The conditions under which the books add trades up.                      *)
OfInst(i) == {t \in Fills : t.inst = i}
OfStrategy(s) == {t \in Fills : t.strat = s}

(* BooksReplayTrades in these terms.                                        *)
ReplayInv ==
  /\ cash = InitialCapital - TotalOf(SpentBy, trades, Among(trades, Fills))
  /\ \A i \in Instruments : positions[i].qty = TotalOf(QtyOf, trades, Among(trades, OfInst(i)))
  /\ \A s \in Strategies :
       /\ attribution[s].count = Cardinality(Among(trades, OfStrategy(s)))
       /\ attribution[s].fees = TotalOf(FeeOf, trades, Among(trades, OfStrategy(s)))
       /\ attribution[s].gross = TotalOf(GrossOf, trades, Among(trades, OfStrategy(s)))
       /\ \A i \in Instruments :
            strategy_positions[s][i] =
              TotalOf(QtyOf, trades, Among(trades, OfStrategy(s) \cap OfInst(i)))

LEMMA ReplayInvIs ==
  ASSUME LedgerTypeOK
  PROVE  ReplayInv <=> BooksReplayTrades
<1>1. \A n \in DOMAIN trades : trades[n] \in Fills
  BY DEF LedgerTypeOK
<1>2. \A i \in Instruments : TradesWith(LAMBDA t : t.inst = i) = Among(trades, OfInst(i))
  BY <1>1 DEF TradesWith, Among, OfInst
<1>3. \A s \in Strategies : TradesWith(LAMBDA t : t.strat = s) = Among(trades, OfStrategy(s))
  BY <1>1 DEF TradesWith, Among, OfStrategy
<1>4. ASSUME NEW s \in Strategies, NEW i \in Instruments
      PROVE  {n \in Among(trades, OfStrategy(s)) : trades[n].inst = i}
               = Among(trades, OfStrategy(s) \cap OfInst(i))
  BY <1>1 DEF Among, OfStrategy, OfInst
<1>5. /\ \A i \in Instruments :
           TotalQty(Among(trades, OfInst(i))) = TotalOf(QtyOf, trades, Among(trades, OfInst(i)))
      /\ \A s \in Strategies :
           /\ TotalFees(Among(trades, OfStrategy(s))) = TotalOf(FeeOf, trades, Among(trades, OfStrategy(s)))
           /\ TotalGross(Among(trades, OfStrategy(s))) = TotalOf(GrossOf, trades, Among(trades, OfStrategy(s)))
           /\ \A i \in Instruments :
                TotalQty(Among(trades, OfStrategy(s) \cap OfInst(i)))
                  = TotalOf(QtyOf, trades, Among(trades, OfStrategy(s) \cap OfInst(i)))
  BY TotalsOfTrades
<1>6. \A i \in Instruments : TotalQty(TradesWith(LAMBDA t : t.inst = i))
                               = TotalOf(QtyOf, trades, Among(trades, OfInst(i)))
  BY <1>2, <1>5
<1>7. ASSUME NEW s \in Strategies, NEW mine, mine = TradesWith(LAMBDA t : t.strat = s)
      PROVE  /\ Cardinality(mine) = Cardinality(Among(trades, OfStrategy(s)))
             /\ TotalFees(mine) = TotalOf(FeeOf, trades, Among(trades, OfStrategy(s)))
             /\ TotalGross(mine) = TotalOf(GrossOf, trades, Among(trades, OfStrategy(s)))
             /\ \A i \in Instruments :
                  TotalQty({n \in mine : trades[n].inst = i})
                    = TotalOf(QtyOf, trades, Among(trades, OfStrategy(s) \cap OfInst(i)))
  <2>1. mine = Among(trades, OfStrategy(s))
    BY <1>3, <1>7
  <2>2. \A i \in Instruments :
          TotalQty({n \in mine : trades[n].inst = i})
            = TotalQty(Among(trades, OfStrategy(s) \cap OfInst(i)))
    BY <1>4, <2>1
  <2>. QED
    BY <1>5, <2>1, <2>2
<1>8. (\A i \in Instruments : positions[i].qty = TotalQty(TradesWith(LAMBDA t : t.inst = i)))
        <=> (\A i \in Instruments :
               positions[i].qty = TotalOf(QtyOf, trades, Among(trades, OfInst(i))))
  BY <1>6
<1>9. ASSUME NEW s \in Strategies
      PROVE  (LET mine == TradesWith(LAMBDA t : t.strat = s)
              IN  /\ attribution[s].count = Cardinality(mine)
                  /\ attribution[s].fees = TotalFees(mine)
                  /\ attribution[s].gross = TotalGross(mine)
                  /\ \A i \in Instruments :
                       strategy_positions[s][i] = TotalQty({n \in mine : trades[n].inst = i}))
             <=>
             /\ attribution[s].count = Cardinality(Among(trades, OfStrategy(s)))
             /\ attribution[s].fees = TotalOf(FeeOf, trades, Among(trades, OfStrategy(s)))
             /\ attribution[s].gross = TotalOf(GrossOf, trades, Among(trades, OfStrategy(s)))
             /\ \A i \in Instruments :
                  strategy_positions[s][i]
                    = TotalOf(QtyOf, trades, Among(trades, OfStrategy(s) \cap OfInst(i)))
  <2>. DEFINE mine == TradesWith(LAMBDA t : t.strat = s)
  <2>1. /\ Cardinality(mine) = Cardinality(Among(trades, OfStrategy(s)))
        /\ TotalFees(mine) = TotalOf(FeeOf, trades, Among(trades, OfStrategy(s)))
        /\ TotalGross(mine) = TotalOf(GrossOf, trades, Among(trades, OfStrategy(s)))
        /\ \A i \in Instruments :
             TotalQty({n \in mine : trades[n].inst = i})
               = TotalOf(QtyOf, trades, Among(trades, OfStrategy(s) \cap OfInst(i)))
    BY <1>7
  <2>. QED
    BY <2>1, Zenon
<1>10. TotalPaid(DOMAIN trades) = TotalOf(SpentBy, trades, Among(trades, Fills))
  <2>1. Among(trades, Fills) = DOMAIN trades
    BY <1>1 DEF Among
  <2>. QED
    BY <2>1, TotalsOfTrades
<1>. QED
  BY <1>8, <1>9, <1>10, Zenon DEF ReplayInv, BooksReplayTrades

(* What a fill adds to a total of the trades that satisfy a condition.      *)
LEMMA TotalOnFill ==
  ASSUME NEW f \in Fills, LedgerTypeOK, OnFill(f), NEW V \in [Fills -> Int], NEW Mine
  PROVE  /\ TotalOf(V, trades', Among(trades', Mine)) =
              TotalOf(V, trades, Among(trades, Mine)) + (IF f \in Mine THEN V[f] ELSE 0)
         /\ TotalOf(V, trades, Among(trades, Mine)) \in Int
         /\ Cardinality(Among(trades', Mine)) =
              Cardinality(Among(trades, Mine)) + (IF f \in Mine THEN 1 ELSE 0)
<1>1. trades \in Seq(Fills) /\ trades' = Append(trades, f)
  BY DEF LedgerTypeOK, OnFill, AccountOnFill
<1>2. TotalOf(V, trades, Among(trades, Mine)) \in Int
  BY <1>1, TotalAppend
<1>3. CASE f \in Mine
  <2>1. TotalOf(V, Append(trades, f), Among(Append(trades, f), Mine)) =
          TotalOf(V, trades, Among(trades, Mine)) + V[f]
    BY <1>1, <1>3, TotalAppend
  <2>2. Cardinality(Among(Append(trades, f), Mine)) =
          Cardinality(Among(trades, Mine)) + 1
    BY <1>1, <1>3, CountAppend
  <2>. QED
    BY <1>1, <1>2, <1>3, <2>1, <2>2
<1>4. CASE f \notin Mine
  <2>1. TotalOf(V, Append(trades, f), Among(Append(trades, f), Mine)) =
          TotalOf(V, trades, Among(trades, Mine))
    BY <1>1, <1>4, TotalAppend
  <2>2. /\ Cardinality(Among(Append(trades, f), Mine)) =
             Cardinality(Among(trades, Mine)) + 0
        /\ Cardinality(Among(trades, Mine)) \in Nat
    BY <1>1, <1>4, CountAppend
  <2>. QED
    BY <1>1, <1>2, <1>4, <2>1, <2>2
<1>. QED
  BY <1>3, <1>4

(* What a fill costs, on either side.                                       *)
LEMMA CashOnFill ==
  ASSUME NEW f \in Fills, LedgerTypeOK, OnFill(f)
  PROVE  cash' = cash - SignedQty(f) * f.price - f.fee
<1>. DEFINE paid == SignedQty(f) * f.price
<1>1. cash \in Int /\ paid \in Int
  BY FillFields DEF LedgerTypeOK
<1>2. f.qty \in Int /\ f.price \in Int /\ f.fee \in Int /\ f.side \in {"buy", "sell"}
  BY FillFields
<1>3. CashAfter(f) = cash - paid - f.fee
  <2>1. CASE f.side = "buy"
    BY <1>1, <1>2, <2>1 DEF CashAfter, Cost, SignedQty, SideSign
  <2>2. CASE f.side = "sell"
    <3>1. paid = -(f.qty * f.price)
      BY <1>2, <2>2 DEF SignedQty, SideSign
    <3>. HIDE DEF paid
    <3>. QED
      BY <1>1, <1>2, <2>2, <3>1 DEF CashAfter, Cost
  <2>. QED
    BY <1>2, <2>1, <2>2
<1>. QED
  BY <1>3 DEF OnFill, AccountOnFill

LEMMA OnFillReplay ==
  ASSUME NEW f \in Fills, LedgerTypeOK, ReplayInv, OnFill(f)
  PROVE  ReplayInv'
<1>1. cash' = InitialCapital - TotalOf(SpentBy, trades', Among(trades', Fills))
  <2>. DEFINE paid == SignedQty(f) * f.price
              spent == TotalOf(SpentBy, trades, Among(trades, Fills))
  <2>1. /\ spent \in Int
        /\ TotalOf(SpentBy, trades', Among(trades', Fills)) = spent + SpentBy[f]
    BY ValuesOfFills, TotalOnFill
  <2>2. SpentBy[f] = paid + f.fee /\ paid \in Int /\ f.fee \in Int
    BY FillFields DEF SpentBy
  <2>3. cash' = cash - paid - f.fee
    BY CashOnFill
  <2>4. cash = InitialCapital - spent /\ InitialCapital \in Int
    BY LedgerAssumption DEF ReplayInv
  <2>. HIDE DEF paid, spent
  <2>. QED
    BY <2>1, <2>2, <2>3, <2>4
<1>2. ASSUME NEW i \in Instruments
      PROVE  positions'[i].qty = TotalOf(QtyOf, trades', Among(trades', OfInst(i)))
  <2>1. positions'[i].qty =
          positions[i].qty + IF f \in OfInst(i) THEN QtyOf[f] ELSE 0
    <3>1. /\ positions \in [Instruments -> Positions]
          /\ positions' = [positions EXCEPT ![f.inst] = PositionUpdate(positions[f.inst], f)]
      BY DEF LedgerTypeOK, OnFill, AccountOnFill, Positions
    <3>2. CASE f.inst = i
      BY <3>1, <3>2, FillFields DEF PositionUpdate, OfInst, QtyOf
    <3>3. CASE f.inst # i
      BY <3>1, <3>3 DEF OfInst, Positions
    <3>. QED
      BY <3>2, <3>3
  <2>2. TotalOf(QtyOf, trades', Among(trades', OfInst(i))) =
          TotalOf(QtyOf, trades, Among(trades, OfInst(i))) + IF f \in OfInst(i) THEN QtyOf[f] ELSE 0
    BY ValuesOfFills, TotalOnFill
  <2>. QED
    BY <2>1, <2>2 DEF ReplayInv
<1>3. ASSUME NEW s \in Strategies
      PROVE  /\ attribution'[s].count = Cardinality(Among(trades', OfStrategy(s)))
             /\ attribution'[s].fees = TotalOf(FeeOf, trades', Among(trades', OfStrategy(s)))
             /\ attribution'[s].gross = TotalOf(GrossOf, trades', Among(trades', OfStrategy(s)))
  <2>1. /\ attribution'[s].count = attribution[s].count + IF f \in OfStrategy(s) THEN 1 ELSE 0
        /\ attribution'[s].fees = attribution[s].fees + IF f \in OfStrategy(s) THEN FeeOf[f] ELSE 0
        /\ attribution'[s].gross =
             attribution[s].gross + IF f \in OfStrategy(s) THEN GrossOf[f] ELSE 0
    <3>. DEFINE Entries == [count : Nat, realized : Int, fees : Int, gross : Nat]
                gain == RealizedBy(positions[f.inst], f)
    <3>1. /\ attribution \in [Strategies -> Entries]
          /\ attribution' = [attribution EXCEPT ![f.strat] =
                               AttributionUpdate(attribution[f.strat], f, gain)]
      BY DEF LedgerTypeOK, OnFill, AccountOnFill
    <3>. HIDE DEF gain
    <3>2. CASE f.strat = s
      BY <3>1, <3>2, FillFields DEF AttributionUpdate, OfStrategy, FeeOf, GrossOf
    <3>3. CASE f.strat # s
      BY <3>1, <3>3 DEF OfStrategy
    <3>. QED
      BY <3>2, <3>3
  <2>2. /\ Cardinality(Among(trades', OfStrategy(s))) =
             Cardinality(Among(trades, OfStrategy(s))) + IF f \in OfStrategy(s) THEN 1 ELSE 0
        /\ TotalOf(FeeOf, trades', Among(trades', OfStrategy(s))) =
             TotalOf(FeeOf, trades, Among(trades, OfStrategy(s))) + IF f \in OfStrategy(s) THEN FeeOf[f] ELSE 0
        /\ TotalOf(GrossOf, trades', Among(trades', OfStrategy(s))) =
             TotalOf(GrossOf, trades, Among(trades, OfStrategy(s))) + IF f \in OfStrategy(s) THEN GrossOf[f] ELSE 0
    BY ValuesOfFills, TotalOnFill
  <2>. QED
    BY <2>1, <2>2 DEF ReplayInv
<1>4. ASSUME NEW s \in Strategies, NEW i \in Instruments
      PROVE  strategy_positions'[s][i] =
               TotalOf(QtyOf, trades', Among(trades', OfStrategy(s) \cap OfInst(i)))
  <2>1. strategy_positions'[s][i] = strategy_positions[s][i]
          + IF f \in OfStrategy(s) \cap OfInst(i) THEN QtyOf[f] ELSE 0
    <3>1. strategy_positions \in [Strategies -> [Instruments -> Int]]
      BY DEF LedgerTypeOK
    <3>2. strategy_positions' =
            [strategy_positions EXCEPT ![f.strat] =
               [strategy_positions[f.strat] EXCEPT ![f.inst] = @ + SignedQty(f)]]
      BY DEF OnFill, OnFillExposure
    <3>. QED
      BY <3>1, <3>2, FillFields DEF OfStrategy, OfInst, QtyOf
  <2>2. TotalOf(QtyOf, trades', Among(trades', OfStrategy(s) \cap OfInst(i))) =
          TotalOf(QtyOf, trades, Among(trades, OfStrategy(s) \cap OfInst(i)))
            + IF f \in OfStrategy(s) \cap OfInst(i) THEN QtyOf[f] ELSE 0
    BY ValuesOfFills, TotalOnFill
  <2>. QED
    BY <2>1, <2>2 DEF ReplayInv
<1>. QED
  BY <1>1, <1>2, <1>3, <1>4 DEF ReplayInv

LEMMA InitReplay == LedgerInit => ReplayInv
<1>. SUFFICES ASSUME LedgerInit PROVE ReplayInv
  OBVIOUS
<1>1. \A Mine : Among(trades, Mine) = {}
  BY DEF LedgerInit, Among
<1>2. \A V : TotalOf(V, trades, {}) = 0
  BY SumUnfold, FS_EmptySet DEF TotalOf
<1>3. Cardinality({}) = 0
  BY FS_EmptySet
<1>. QED
  <2>1. TotalOf(SpentBy, trades, Among(trades, Fills)) = 0
    BY <1>1, <1>2
  <2>2. cash = InitialCapital - TotalOf(SpentBy, trades, Among(trades, Fills))
    BY <2>1, LedgerAssumption DEF LedgerInit
  <2>3. \A i \in Instruments :
          positions[i].qty = TotalOf(QtyOf, trades, Among(trades, OfInst(i)))
    BY <1>1, <1>2 DEF LedgerInit, NewPosition
  <2>4. ASSUME NEW s \in Strategies
        PROVE  /\ attribution[s].count = Cardinality(Among(trades, OfStrategy(s)))
               /\ attribution[s].fees = TotalOf(FeeOf, trades, Among(trades, OfStrategy(s)))
               /\ attribution[s].gross = TotalOf(GrossOf, trades, Among(trades, OfStrategy(s)))
               /\ \A i \in Instruments :
                    strategy_positions[s][i] =
                      TotalOf(QtyOf, trades, Among(trades, OfStrategy(s) \cap OfInst(i)))
    BY <1>1, <1>2, <1>3 DEF LedgerInit
  <2>. QED
    BY <2>2, <2>3, <2>4 DEF ReplayInv

-----------------------------------------------------------------------------
(* Exposure *)

FillsOf(log, s, i) == Among(log, OfStrategy(s) \cap OfInst(i))

(* A mark is the price of the last of the strategy's fills; there is none   *)
(* only where nothing was ever held.                                        *)
MarkedInv ==
  \A s \in Strategies :
    /\ strategy_open_notional[s] = Exposure(strategy_positions[s], strategy_mark_prices[s])
    /\ \A i \in Instruments :
         \/ FillsOf(trades, s, i) = {} /\ strategy_positions[s][i] = 0
         \/ \E n \in FillsOf(trades, s, i) :
              /\ \A m \in FillsOf(trades, s, i) : m <= n
              /\ strategy_mark_prices[s][i] = trades[n].price

LEMMA InitMarked == LedgerInit => MarkedInv
<1>. SUFFICES ASSUME LedgerInit, NEW s \in Strategies
              PROVE  MarkedInv!(s)
  BY DEF MarkedInv
<1>. DEFINE zero == [i \in Instruments |-> 0]
            terms == [i \in Instruments |-> Abs(zero[i]) * zero[i]]
<1>1. /\ strategy_open_notional[s] = 0
      /\ strategy_positions[s] = zero /\ strategy_mark_prices[s] = zero
  BY DEF LedgerInit
<1>2. \A i \in Instruments : terms[i] = 0
  BY DEF Abs
<1>3. Exposure(zero, zero) = SumOver(terms, Instruments)
  BY DEF Exposure
<1>. HIDE DEF terms
<1>4. SumOver(terms, Instruments) = SumOver(terms, {})
  BY <1>2, LedgerAssumption, SumNonZero
<1>5. SumOver(terms, {}) = 0
  BY SumUnfold, FS_EmptySet
<1>6. \A i \in Instruments : FillsOf(trades, s, i) = {}
  BY DEF LedgerInit, FillsOf, Among
<1>. QED
  BY <1>1, <1>3, <1>4, <1>5, <1>6

LEMMA OnFillMarked ==
  ASSUME NEW f \in Fills, LedgerTypeOK, MarkedInv, OnFill(f)
  PROVE  MarkedInv'
<1>. SUFFICES ASSUME NEW s \in Strategies PROVE MarkedInv!(s)'
  BY DEF MarkedInv
<1>1. trades \in Seq(Fills) /\ trades' = Append(trades, f)
  BY DEF LedgerTypeOK, OnFill, AccountOnFill
<1>. DEFINE held == [strategy_positions[f.strat] EXCEPT ![f.inst] = @ + SignedQty(f)]
            marks == [strategy_mark_prices[f.strat] EXCEPT ![f.inst] = f.price]
<1>2. /\ strategy_positions \in [Strategies -> [Instruments -> Int]]
      /\ strategy_mark_prices \in [Strategies -> [Instruments -> Int]]
      /\ DOMAIN strategy_open_notional = Strategies
  BY DEF LedgerTypeOK
<1>3. /\ strategy_positions' = [strategy_positions EXCEPT ![f.strat] = held]
      /\ strategy_mark_prices' = [strategy_mark_prices EXCEPT ![f.strat] = marks]
      /\ strategy_open_notional' =
           [strategy_open_notional EXCEPT ![f.strat] = Exposure(held, marks)]
  BY DEF OnFill, OnFillExposure
<1>4. strategy_open_notional'[s] = Exposure(strategy_positions'[s], strategy_mark_prices'[s])
  <2>. HIDE DEF held, marks
  <2>1. CASE f.strat = s
    BY <1>2, <1>3, <2>1
  <2>2. CASE f.strat # s
    BY <1>2, <1>3, <2>2 DEF MarkedInv
  <2>. QED
    BY <2>1, <2>2
<1>5. ASSUME NEW i \in Instruments
      PROVE  \/ FillsOf(trades', s, i) = {} /\ strategy_positions'[s][i] = 0
             \/ \E n \in FillsOf(trades', s, i) :
                  /\ \A m \in FillsOf(trades', s, i) : m <= n
                  /\ strategy_mark_prices'[s][i] = trades'[n].price
  <2>. DEFINE N == FillsOf(trades, s, i)
              k == Len(trades) + 1
  <2>1. /\ N \subseteq 1 .. Len(trades) /\ Len(trades) \in Nat
        /\ FillsOf(trades', s, i) = IF f \in OfStrategy(s) \cap OfInst(i) THEN N \cup {k} ELSE N
        /\ \A n \in N : trades'[n] = trades[n]
        /\ trades'[k] = f
    <3>1. /\ N \subseteq 1 .. Len(trades)
          /\ FillsOf(Append(trades, f), s, i) =
               IF f \in OfStrategy(s) \cap OfInst(i) THEN N \cup {k} ELSE N
          /\ \A n \in N : Append(trades, f)[n] = trades[n]
          /\ Append(trades, f)[k] = f
      <4>. DEFINE Mine == OfStrategy(s) \cap OfInst(i)
      <4>1. FillsOf(Append(trades, f), s, i) = Among(Append(trades, f), Mine)
            /\ N = Among(trades, Mine)
        BY DEF FillsOf
      <4>. HIDE DEF Mine, N
      <4>2. /\ Among(trades, Mine) \subseteq 1 .. Len(trades)
            /\ Among(Append(trades, f), Mine) =
                 IF f \in Mine THEN Among(trades, Mine) \cup {k} ELSE Among(trades, Mine)
            /\ \A n \in Among(trades, Mine) : Append(trades, f)[n] = trades[n]
            /\ Append(trades, f)[k] = f
        BY <1>1, AmongAppend
      <4>. QED
        BY <4>1, <4>2 DEF Mine
    <3>. QED
      BY <1>1, <3>1
  <2>. HIDE DEF N, k
  <2>2. CASE f \in OfStrategy(s) \cap OfInst(i)
    <3>1. strategy_mark_prices'[s][i] = f.price
      BY <1>2, <1>3, <2>2 DEF OfStrategy, OfInst
    <3>2. \A m \in N \cup {k} : m <= k
      BY <2>1 DEF k
    <3>. QED
      BY <2>1, <2>2, <3>1, <3>2
  <2>3. CASE f \notin OfStrategy(s) \cap OfInst(i)
    <3>1. /\ strategy_positions'[s][i] = strategy_positions[s][i]
          /\ strategy_mark_prices'[s][i] = strategy_mark_prices[s][i]
      BY <1>2, <1>3, <2>3 DEF OfStrategy, OfInst
    <3>2. \/ N = {} /\ strategy_positions[s][i] = 0
          \/ \E n \in N : /\ \A m \in N : m <= n
                          /\ strategy_mark_prices[s][i] = trades[n].price
      BY DEF MarkedInv, N
    <3>. QED
      BY <2>1, <2>3, <3>1, <3>2
  <2>. QED
    BY <2>2, <2>3
<1>. QED
  BY <1>4, <1>5

LEMMA MarkedIsExposure ==
  ASSUME LedgerTypeOK, MarkedInv
  PROVE  ExposureIsMarked
<1>. SUFFICES ASSUME NEW s \in Strategies PROVE ExposureIsMarked!(s)
  BY DEF ExposureIsMarked
<1>. DEFINE pos == strategy_positions[s]
            marks == strategy_mark_prices[s]
            held == {i \in Instruments : pos[i] # 0}
            f == [i \in Instruments |-> Abs(pos[i]) * marks[i]]
            g == [i \in held |-> Abs(pos[i]) * trades[LastFill(s, i)].price]
<1>1. pos \in [Instruments -> Int] /\ marks \in [Instruments -> Int]
  BY DEF LedgerTypeOK
<1>2. strategy_open_notional[s] = SumOver(f, Instruments)
  BY DEF MarkedInv, Exposure
<1>3. \A i \in Instruments : f[i] \in Int
  BY <1>1, AbsType
<1>4. \A i \in Instruments \ held : f[i] = 0
  BY <1>1 DEF Abs
<1>5. ASSUME NEW i \in held PROVE marks[i] = trades[LastFill(s, i)].price
  <2>. DEFINE N == {n \in DOMAIN trades : trades[n].strat = s /\ trades[n].inst = i}
  <2>1. trades \in Seq(Fills) /\ DOMAIN trades \subseteq Nat
    BY DEF LedgerTypeOK
  <2>2. N = FillsOf(trades, s, i)
    BY <2>1 DEF FillsOf, Among, OfStrategy, OfInst
  <2>3. PICK n \in N : (\A m \in N : m <= n) /\ marks[i] = trades[n].price
    BY <2>2 DEF MarkedInv
  <2>4. N \subseteq Nat
    BY <2>1
  <2>5. LastFill(s, i) = CHOOSE l \in N : \A m \in N : m <= l
    BY DEF LastFill
  <2>. HIDE DEF N
  <2>6. LastFill(s, i) \in N /\ \A m \in N : m <= LastFill(s, i)
    BY <2>3, <2>5
  <2>7. LastFill(s, i) = n
    <3>1. LastFill(s, i) <= n /\ n <= LastFill(s, i)
      BY <2>3, <2>6
    <3>2. LastFill(s, i) \in Nat /\ n \in Nat
      BY <2>4, <2>6
    <3>. QED
      BY <3>1, <3>2
  <2>. QED
    BY <2>3, <2>7
<1>6. \A i \in held : f[i] = g[i]
  BY <1>5
<1>. HIDE DEF f, g
<1>7. held \subseteq Instruments /\ IsFiniteSet(held)
  BY LedgerAssumption, FS_Subset
<1>. HIDE DEF held
<1>8. SumOver(f, Instruments) = SumOver(f, held)
  BY <1>3, <1>4, <1>7, LedgerAssumption, SumNonZero
<1>9. SumOver(f, held) = SumOver(g, held)
  BY <1>6, <1>7, SumSame
<1>. QED
  BY <1>2, <1>8, <1>9 DEF g, held

LEMMA TimesMonotone ==
  ASSUME NEW a \in Int, NEW b \in Int, a <= b, NEW d \in Nat
  PROVE  d * a <= d * b
<1>1. d * (b - a) >= 0
  OBVIOUS
<1>2. d * (b - a) = d * b - d * a
  OBVIOUS
<1>. QED
  BY <1>1, <1>2

LEMMA DivBounds ==
  ASSUME NEW n \in Int, NEW d \in Nat \ {0}, NEW lo \in Int, NEW hi \in Int,
         d * lo <= n, n <= d * hi
  PROVE  lo <= n \div d /\ n \div d <= hi
<1>. DEFINE k == n \div d
<1>1. k \in Int /\ d * k <= n /\ n < d * (k + 1)
  OBVIOUS
<1>. HIDE DEF k
<1>2. lo <= k
  <2>1. SUFFICES ASSUME k + 1 <= lo PROVE FALSE
    BY <1>1
  <2>2. d * (k + 1) <= d * lo
    BY <1>1, <2>1, TimesMonotone
  <2>. QED
    BY <1>1, <2>2
<1>3. k <= hi
  <2>1. SUFFICES ASSUME hi + 1 <= k PROVE FALSE
    BY <1>1
  <2>2. d * (hi + 1) <= d * k
    BY <1>1, <2>1, TimesMonotone
  <2>3. d * (hi + 1) = d * hi + d
    OBVIOUS
  <2>. QED
    BY <1>1, <2>2, <2>3
<1>. QED
  BY <1>2, <1>3 DEF k

LEMMA TruncDivBounds ==
  ASSUME NEW n \in Int, NEW d \in Nat \ {0}, NEW lo \in Int, NEW hi \in Int,
         d * lo <= n, n <= d * hi
  PROVE  lo <= TruncDiv(n, d) /\ TruncDiv(n, d) <= hi
<1>1. CASE n >= 0
  BY <1>1, DivBounds DEF TruncDiv
<1>2. CASE n < 0
  <2>1. d * (-hi) <= -n /\ -n <= d * (-lo)
    OBVIOUS
  <2>2. -hi <= (-n) \div d /\ (-n) \div d <= -lo
    BY <2>1, DivBounds
  <2>3. (-n) \div d \in Int
    OBVIOUS
  <2>. QED
    BY <1>2, <2>2, <2>3 DEF TruncDiv
<1>. QED
  BY <1>1, <1>2

(* An average, rounded, lies between the numbers averaged.                  *)
LEMMA AverageBetween ==
  ASSUME NEW a \in Int, NEW p \in Int, NEW q \in Nat \ {0}, NEW r \in Nat \ {0}
  PROVE  LET avg == TruncDiv(q * a + r * p, q + r)
         IN  /\ avg \in Int
             /\ a <= p => a <= avg /\ avg <= p
             /\ p <= a => p <= avg /\ avg <= a
<1>. DEFINE n == q * a + r * p
            d == q + r
<1>1. n \in Int /\ d \in Nat \ {0}
  OBVIOUS
<1>2. /\ d * a = q * a + r * a
      /\ d * p = q * p + r * p
  OBVIOUS
<1>3. ASSUME a <= p PROVE d * a <= n /\ n <= d * p
  <2>1. q * a <= q * p /\ r * a <= r * p
    BY <1>3, TimesMonotone
  <2>. QED
    BY <1>2, <2>1
<1>4. ASSUME p <= a PROVE d * p <= n /\ n <= d * a
  <2>1. q * p <= q * a /\ r * p <= r * a
    BY <1>4, TimesMonotone
  <2>. QED
    BY <1>2, <2>1
<1>. HIDE DEF n, d
<1>5. TruncDiv(n, d) \in Int
  BY <1>1, TruncDivType
<1>6. ASSUME a <= p PROVE a <= TruncDiv(n, d) /\ TruncDiv(n, d) <= p
  BY <1>1, <1>3, <1>6, TruncDivBounds
<1>7. ASSUME p <= a PROVE p <= TruncDiv(n, d) /\ TruncDiv(n, d) <= a
  BY <1>1, <1>4, <1>7, TruncDivBounds
<1>. QED
  BY <1>5, <1>6, <1>7 DEF n, d

-----------------------------------------------------------------------------
(* Costs *)

(* The running quantity of an instrument up to a trade, of any log: it does *)
(* not change when the log grows, and the last one is the position.         *)
QtyTo(log, i, n) ==
  LET N == {m \in {k \in DOMAIN log : log[k].inst = i} : m <= n}
  IN  SumOver([m \in N |-> SignedQty(log[m])], N)

LEMMA QtyUpToIs ==
  ASSUME NEW i, NEW n
  PROVE  /\ QtyUpTo(i, n) = QtyTo(trades, i, n)
         /\ QtyUpTo(i, n)' = QtyTo(trades', i, n)
  BY DEF QtyUpTo, TotalQty, TradesWith, QtyTo

LEMMA QtyPrefix ==
  ASSUME NEW log \in Seq(Fills), NEW f \in Fills, NEW i, NEW n \in 1 .. Len(log)
  PROVE  QtyTo(Append(log, f), i, n) = QtyTo(log, i, n)
<1>. DEFINE L == Append(log, f)
            N == {m \in {k \in DOMAIN log : log[k].inst = i} : m <= n}
            M == {m \in {k \in DOMAIN L : L[k].inst = i} : m <= n}
<1>1. M = N /\ \A m \in N : L[m] = log[m]
  OBVIOUS
<1>. HIDE DEF L
<1>2. [m \in N |-> SignedQty(L[m])] = [m \in N |-> SignedQty(log[m])]
  BY <1>1
<1>. HIDE DEF N, M
<1>. QED
  BY <1>1, <1>2 DEF QtyTo, N, M, L

LEMMA QtyWhole ==
  ASSUME NEW log \in Seq(Fills), NEW i
  PROVE  QtyTo(log, i, Len(log)) = TotalOf(QtyOf, log, Among(log, OfInst(i)))
<1>. DEFINE N == {m \in {k \in DOMAIN log : log[k].inst = i} : m <= Len(log)}
<1>1. N = Among(log, OfInst(i)) /\ \A m \in N : log[m] \in Fills
  BY DEF Among, OfInst
<1>. HIDE DEF N
<1>2. [m \in N |-> SignedQty(log[m])] = [m \in N |-> QtyOf[log[m]]]
  BY <1>1 DEF QtyOf
<1>3. QtyTo(log, i, Len(log)) = SumOver([m \in N |-> SignedQty(log[m])], N)
  BY DEF QtyTo, N
<1>. QED
  BY <1>1, <1>2, <1>3 DEF TotalOf

LEMMA InBuilding ==
  ASSUME NEW i, NEW n
  PROVE  /\ n \in Building(i) <=>
              /\ n \in DOMAIN trades /\ trades[n].inst = i
              /\ SideSign(trades[n].side) = Sign(positions[i].qty)
              /\ \A m \in n .. Len(trades) :
                   Sign(QtyTo(trades, i, m)) = Sign(positions[i].qty)
         /\ n \in Building(i)' <=>
              /\ n \in DOMAIN trades' /\ trades'[n].inst = i
              /\ SideSign(trades'[n].side) = Sign(positions'[i].qty)
              /\ \A m \in n .. Len(trades') :
                   Sign(QtyTo(trades', i, m)) = Sign(positions'[i].qty)
  BY QtyUpToIs DEF Building, TradesWith

(* What a fill does to the trades that built a position.                    *)
LEMMA BuildingAfter ==
  ASSUME NEW f \in Fills, LedgerTypeOK, ReplayInv, OnFill(f), NEW i \in Instruments
  PROVE  /\ \A n \in Building(i) : trades'[n] = trades[n]
         /\ Sign(positions'[i].qty) = Sign(positions[i].qty) =>
              Building(i) \subseteq Building(i)'
         /\ f.inst = i /\ SideSign(f.side) = Sign(positions'[i].qty) =>
              /\ Len(trades) + 1 \in Building(i)'
              /\ trades'[Len(trades) + 1] = f
<1>1. ReplayInv'
  BY OnFillReplay
<1>2. trades \in Seq(Fills) /\ trades' = Append(trades, f)
  BY DEF LedgerTypeOK, OnFill, AccountOnFill
<1>3. /\ DOMAIN trades = 1 .. Len(trades) /\ Len(trades) \in Nat
      /\ DOMAIN trades' = 1 .. Len(trades) + 1 /\ Len(trades') = Len(trades) + 1
      /\ \A n \in DOMAIN trades : trades'[n] = trades[n]
      /\ trades'[Len(trades) + 1] = f
      /\ trades' \in Seq(Fills)
  BY <1>2
<1>4. QtyTo(trades', i, Len(trades) + 1) = positions'[i].qty
  BY <1>1, <1>3, QtyWhole DEF ReplayInv
<1>5. \A m \in 1 .. Len(trades) : QtyTo(trades', i, m) = QtyTo(trades, i, m)
  BY <1>2, QtyPrefix
<1>6. ASSUME Sign(positions'[i].qty) = Sign(positions[i].qty), NEW n \in Building(i)
      PROVE  n \in Building(i)'
  <2>1. /\ n \in 1 .. Len(trades) /\ trades[n].inst = i
        /\ SideSign(trades[n].side) = Sign(positions[i].qty)
        /\ \A m \in n .. Len(trades) :
             Sign(QtyTo(trades, i, m)) = Sign(positions[i].qty)
    BY <1>3, InBuilding
  <2>2. ASSUME NEW m \in n .. Len(trades')
        PROVE  Sign(QtyTo(trades', i, m)) = Sign(positions'[i].qty)
    <3>1. CASE m \in n .. Len(trades)
      BY <1>3, <1>5, <1>6, <2>1, <3>1
    <3>2. CASE m = Len(trades) + 1
      BY <1>4, <3>2
    <3>. QED
      BY <1>3, <2>1, <3>1, <3>2
  <2>. QED
    BY <1>3, <1>6, <2>1, <2>2, InBuilding
<1>7. ASSUME f.inst = i, SideSign(f.side) = Sign(positions'[i].qty)
      PROVE  Len(trades) + 1 \in Building(i)'
  BY <1>3, <1>4, <1>7, InBuilding
<1>8. \A n \in Building(i) : trades'[n] = trades[n]
  BY <1>3, InBuilding
<1>. QED
  BY <1>3, <1>6, <1>7, <1>8

(* The four things a fill can do to a position: add to it or open it, close *)
(* it, reduce it, or turn it over.                                          *)
LEMMA FillCases ==
  ASSUME NEW pos \in Positions, NEW f \in Fills,
         NEW q, q = PositionUpdate(pos, f).qty, NEW c, c = PositionUpdate(pos, f).avg
  PROVE  \/ /\ pos.qty # 0 /\ SideSign(f.side) = Sign(pos.qty) /\ Sign(q) = Sign(pos.qty)
            /\ c = TruncDiv(Abs(pos.qty) * pos.avg + f.qty * f.price, Abs(pos.qty) + f.qty)
         \/ /\ q # 0 /\ SideSign(f.side) = Sign(q) /\ c = f.price
         \/ /\ pos.qty # 0 /\ Sign(q) = Sign(pos.qty) /\ c = pos.avg
         \/ q = 0 /\ c = 0
<1>1. pos.qty \in Int /\ pos.avg \in Int
  BY DEF Positions
<1>2. /\ f.side \in {"buy", "sell"} /\ f.qty \in Nat \ {0} /\ f.price \in Int
  BY FillFields
<1>3. q = pos.qty + SignedQty(f) /\ c = CostAfter(pos, f)
  BY DEF PositionUpdate
<1>4. CASE AddsTo(pos, f)
  <2>1. c = TruncDiv(Abs(pos.qty) * pos.avg + f.qty * f.price, Abs(pos.qty) + f.qty)
    BY <1>3, <1>4 DEF CostAfter, AveragedCost, Cost
  <2>2. pos.qty # 0 /\ SideSign(f.side) = Sign(pos.qty) /\ Sign(q) = Sign(pos.qty)
    BY <1>1, <1>2, <1>3, <1>4 DEF AddsTo, Sign, SideSign, SignedQty
  <2>. QED
    BY <2>1, <2>2
<1>5. CASE ~AddsTo(pos, f)
  BY <1>1, <1>2, <1>3, <1>5 DEF AddsTo, CostAfter, Sign, SideSign, SignedQty, Abs
<1>. QED
  BY <1>4, <1>5

LEMMA OnFillCost ==
  ASSUME NEW f \in Fills, LedgerTypeOK, ReplayInv, CostWithinTrades, OnFill(f)
  PROVE  CostWithinTrades'
<1>. SUFFICES ASSUME NEW i \in Instruments
              PROVE  IF positions'[i].qty = 0 THEN positions'[i].avg = 0
                     ELSE /\ \E n \in Building(i)' : trades'[n].price <= positions'[i].avg
                          /\ \E n \in Building(i)' : trades'[n].price >= positions'[i].avg
  BY DEF CostWithinTrades
<1>1. /\ positions \in [Instruments -> Positions]
      /\ positions' = [positions EXCEPT ![f.inst] = PositionUpdate(positions[f.inst], f)]
  BY DEF LedgerTypeOK, OnFill, AccountOnFill, Positions
<1>2. /\ \A n \in Building(i) : trades'[n] = trades[n]
      /\ Sign(positions'[i].qty) = Sign(positions[i].qty) =>
           Building(i) \subseteq Building(i)'
      /\ f.inst = i /\ SideSign(f.side) = Sign(positions'[i].qty) =>
           /\ Len(trades) + 1 \in Building(i)'
           /\ trades'[Len(trades) + 1] = f
  BY BuildingAfter
<1>3. IF positions[i].qty = 0 THEN positions[i].avg = 0
      ELSE /\ \E n \in Building(i) : trades[n].price <= positions[i].avg
           /\ \E n \in Building(i) : trades[n].price >= positions[i].avg
  BY DEF CostWithinTrades
<1>4. positions[i].qty \in Int /\ positions[i].avg \in Int
  BY <1>1 DEF Positions
<1>5. CASE f.inst # i
  <2>1. positions'[i] = positions[i]
    BY <1>1, <1>5
  <2>. QED
    BY <1>2, <1>3, <2>1
<1>6. CASE f.inst = i
  <2>. DEFINE pos == positions[i]
              q == positions'[i].qty
              c == positions'[i].avg
  <2>1. /\ pos \in Positions
        /\ q = PositionUpdate(pos, f).qty /\ c = PositionUpdate(pos, f).avg
    BY <1>1, <1>6
  <2>2. CASE /\ pos.qty # 0 /\ SideSign(f.side) = Sign(pos.qty) /\ Sign(q) = Sign(pos.qty)
             /\ c = TruncDiv(Abs(pos.qty) * pos.avg + f.qty * f.price, Abs(pos.qty) + f.qty)
    <3>1. /\ \E n \in Building(i) : trades[n].price <= pos.avg
          /\ \E n \in Building(i) : trades[n].price >= pos.avg
          /\ Building(i) \subseteq Building(i)' /\ \A n \in Building(i) : trades'[n] = trades[n]
          /\ Len(trades) + 1 \in Building(i)' /\ trades'[Len(trades) + 1] = f
      BY <1>2, <1>3, <1>6, <2>2
    <3>2. /\ c \in Int
          /\ pos.avg <= f.price => pos.avg <= c /\ c <= f.price
          /\ f.price <= pos.avg => f.price <= c /\ c <= pos.avg
      <4>1. Abs(pos.qty) \in Nat \ {0} /\ f.qty \in Nat \ {0} /\ f.price \in Int
        BY <1>4, <2>2, AbsType, FillFields
      <4>. DEFINE t == TruncDiv(Abs(pos.qty) * pos.avg + f.qty * f.price, Abs(pos.qty) + f.qty)
      <4>2. /\ t \in Int
            /\ pos.avg <= f.price => pos.avg <= t /\ t <= f.price
            /\ f.price <= pos.avg => f.price <= t /\ t <= pos.avg
        BY <1>4, <4>1, AverageBetween
      <4>. QED
        BY <2>2, <4>2
    <3>3. f.price \in Int /\ \A n \in Building(i) : trades[n].price \in Int
      <4>1. trades \in Seq(Fills)
        BY DEF LedgerTypeOK
      <4>2. \A n \in Building(i) : trades[n] \in Fills
        BY <4>1, InBuilding
      <4>. QED
        BY <4>2, FillFields
    <3>4. q # 0
      BY <1>4, <2>2 DEF Sign
    <3>. QED
      BY <1>4, <3>1, <3>2, <3>3, <3>4
  <2>3. CASE q # 0 /\ SideSign(f.side) = Sign(q) /\ c = f.price
    BY <1>2, <1>6, <2>3, FillFields
  <2>4. CASE pos.qty # 0 /\ Sign(q) = Sign(pos.qty) /\ c = pos.avg
    <3>1. q # 0
      BY <1>4, <2>4 DEF Sign
    <3>. QED
      BY <1>2, <1>3, <2>4, <3>1
  <2>5. CASE q = 0 /\ c = 0
    BY <2>5
  <2>. HIDE DEF pos, q, c
  <2>. QED
    BY <2>1, <2>2, <2>3, <2>4, <2>5, FillCases
<1>. QED
  BY <1>5, <1>6

LEMMA InitCost == LedgerInit => CostWithinTrades
  BY DEF LedgerInit, CostWithinTrades, NewPosition

-----------------------------------------------------------------------------
(* Money *)

(* What integer division drops is less than the divisor.                    *)
LEMMA TruncDivRest ==
  ASSUME NEW n \in Int, NEW d \in Nat \ {0}
  PROVE  -d < d * TruncDiv(n, d) - n /\ d * TruncDiv(n, d) - n < d
<1>1. ASSUME NEW m \in Int
      PROVE  m \div d \in Int /\ d * (m \div d) <= m /\ m < d * (m \div d) + d
  OBVIOUS
<1>2. CASE n >= 0
  BY <1>1, <1>2 DEF TruncDiv
<1>3. CASE n < 0
  <2>. DEFINE k == (-n) \div d
  <2>1. k \in Int /\ d * k <= -n /\ -n < d * k + d
    BY <1>1
  <2>2. TruncDiv(n, d) = -k
    BY <1>3 DEF TruncDiv
  <2>. HIDE DEF k
  <2>3. d * (-k) = -(d * k)
    BY <2>1
  <2>. QED
    BY <2>1, <2>2, <2>3
<1>. QED
  BY <1>2, <1>3

LEMMA SignTimes ==
  ASSUME NEW sg \in {-1, 1}, NEW x \in Int, NEW y \in Int
  PROVE  /\ (sg * x) * y = sg * (x * y)
         /\ sg * x + sg * y = sg * (x + y)
         /\ sg * x - sg * y = sg * (x - y)
<1>1. CASE sg = 1
  BY <1>1
<1>2. CASE sg = -1
  BY <1>2
<1>. QED
  BY <1>1, <1>2

(* What a fill adds to cash and position at cost that profit does not       *)
(* account for.                                                             *)
Dropped(pos, f) ==
  PositionUpdate(pos, f).qty * PositionUpdate(pos, f).avg - pos.qty * pos.avg
    - SignedQty(f) * f.price - RealizedBy(pos, f)

LEMMA DroppedBounds ==
  ASSUME NEW pos \in Positions, NEW f \in Fills, NEW q, q = PositionUpdate(pos, f).qty
  PROVE  \/ Dropped(pos, f) = 0
         \/ /\ Sign(pos.qty) = Sign(q) /\ Abs(q) > Abs(pos.qty)
            /\ Abs(Dropped(pos, f)) < Abs(q)
<1>1. pos.qty \in Int /\ pos.avg \in Int
  BY DEF Positions
<1>2. f.side \in {"buy", "sell"} /\ f.qty \in Nat \ {0} /\ f.price \in Int
  BY FillFields
<1>. DEFINE h == pos.qty
            a == pos.avg
            s == SignedQty(f)
            p == f.price
            c == CostAfter(pos, f)
            gain == RealizedBy(pos, f)
<1>3. q = h + s /\ Dropped(pos, f) = q * c - h * a - s * p - gain
  BY DEF PositionUpdate, Dropped
<1>4. s \in Int /\ gain \in Int
  BY FillFields, ClosedType
<1>5. CASE AddsTo(pos, f)
  <2>. DEFINE r == f.qty
              d == Abs(h) + r
              n == Abs(h) * a + r * p
              t == TruncDiv(n, d)
              sg == SideSign(f.side)
  <2>1. /\ Abs(h) \in Nat /\ r \in Nat \ {0} /\ d \in Nat \ {0} /\ n \in Int
        /\ sg \in {-1, 1} /\ s = sg * r /\ h = sg * Abs(h)
        /\ Sign(h) = sg
    BY <1>1, <1>2, <1>5 DEF AddsTo, Sign, SideSign, SignedQty, Abs
  <2>2. c = t
    BY <1>5 DEF CostAfter, AveragedCost, Cost
  <2>3. t \in Int /\ -d < d * t - n /\ d * t - n < d
    BY <2>1, TruncDivType, TruncDivRest
  <2>4. gain = 0
    <3>1. ClosedQty(pos, f) = 0
      BY <2>1 DEF ClosedQty
    <3>. QED
      BY <1>1, <1>2, <2>1, <3>1 DEF RealizedBy
  <2>. HIDE DEF h, s, c, gain, r, sg, t
  <2>5. q = sg * d
    BY <1>3, <2>1
  <2>6. Sign(q) = sg /\ Abs(q) = d /\ d > Abs(h)
    <3>. HIDE DEF d, n
    <3>1. d > Abs(h)
      BY <2>1 DEF d
    <3>. QED
      BY <2>1, <2>5, <3>1 DEF Sign, Abs
  <2>7. Dropped(pos, f) = sg * (d * t - n)
    <3>1. h * a + s * p = sg * n
      <4>1. (sg * Abs(h)) * a = sg * (Abs(h) * a) /\ (sg * r) * p = sg * (r * p)
        <5>1. a \in Int /\ p \in Int
          BY <1>1, <1>2
        <5>. HIDE DEF a, p
        <5>2. (sg * Abs(h)) * a = sg * (Abs(h) * a)
          BY <2>1, <5>1, SignTimes
        <5>3. (sg * r) * p = sg * (r * p)
          BY <2>1, <5>1, SignTimes
        <5>. QED
          BY <5>2, <5>3
      <4>. DEFINE X == Abs(h) * a
                  Y == r * p
      <4>2. X \in Int /\ Y \in Int
        BY <1>1, <1>2, <2>1 DEF a, p
      <4>3. h * a = sg * X /\ s * p = sg * Y
        BY <2>1, <4>1
      <4>. HIDE DEF X, Y
      <4>4. sg * X + sg * Y = sg * (X + Y)
        BY <2>1, <4>2, SignTimes
      <4>. QED
        BY <4>3, <4>4 DEF X, Y
    <3>. HIDE DEF d, n, a, p
    <3>2. q * c = sg * (d * t)
      BY <2>1, <2>2, <2>3, <2>5
    <3>3. h * a \in Int /\ s * p \in Int /\ q * c \in Int
      BY <1>1, <1>2, <1>3, <1>4, <2>2, <2>3 DEF h, a, p
    <3>. DEFINE u == d * t
    <3>4. u \in Int /\ n \in Int
      BY <2>1, <2>3
    <3>5. sg * u - sg * n = sg * (u - n)
      <4>. HIDE DEF u
      <4>. QED
        BY <2>1, <3>4, SignTimes
    <3>6. Dropped(pos, f) = sg * u - sg * n
      BY <1>3, <2>4, <3>1, <3>2, <3>3
    <3>. QED
      BY <3>5, <3>6
  <2>. HIDE DEF d, n
  <2>8. d * t - n \in Int
    BY <2>1, <2>3
  <2>9. Abs(Dropped(pos, f)) < d
    BY <2>1, <2>3, <2>7, <2>8 DEF Abs
  <2>. QED
    BY <2>1, <2>6, <2>9 DEF h
<1>6. CASE ~AddsTo(pos, f)
  <2>1. s = f.qty \/ s = -f.qty
    BY <1>2 DEF SignedQty, SideSign
  <2>2. CASE h = 0
    <3>1. c = p /\ gain = 0
      BY <1>1, <1>2, <1>6, <2>2 DEF CostAfter, RealizedBy, Sign, ClosedQty, Least, Abs
    <3>2. q = s
      BY <1>3, <1>4, <2>2
    <3>. HIDE DEF gain, c, s
    <3>. QED
      BY <1>1, <1>2, <1>3, <1>4, <2>2, <3>1, <3>2
  <2>3. CASE h # 0 /\ f.qty > Abs(h)
    <3>1. c = p
      BY <1>6, <2>3 DEF CostAfter
    <3>2. gain = (p - a) * h
      BY <1>1, <1>2, <1>6, <2>3
         DEF RealizedBy, ClosedQty, Sign, SideSign, Least, Abs, AddsTo
    <3>. HIDE DEF gain, c, s
    <3>. QED
      BY <1>1, <1>2, <1>3, <1>4, <3>1, <3>2
  <2>4. CASE h # 0 /\ f.qty = Abs(h)
    <3>1. c = 0 /\ s = -h
      BY <1>1, <1>2, <1>6, <2>4 DEF CostAfter, AddsTo, Sign, SideSign, SignedQty, Abs
    <3>2. gain = (p - a) * h
      BY <1>1, <1>2, <1>6, <2>4
         DEF RealizedBy, ClosedQty, Sign, SideSign, Least, Abs, AddsTo
    <3>. HIDE DEF gain, c, s
    <3>3. h \in Int /\ a \in Int /\ p \in Int
      BY <1>1, <1>2
    <3>. HIDE DEF h, a, p
    <3>4. q = 0
      BY <1>3, <3>1, <3>3
    <3>5. s * p = -(h * p) /\ gain = h * p - h * a
      BY <3>1, <3>2, <3>3
    <3>6. h * p \in Int /\ h * a \in Int
      BY <3>3
    <3>. QED
      BY <1>3, <3>1, <3>4, <3>5, <3>6
  <2>5. CASE h # 0 /\ f.qty < Abs(h)
    <3>1. c = a
      BY <1>1, <1>2, <1>6, <2>5 DEF CostAfter, Abs
    <3>2. gain = -((p - a) * s)
      BY <1>1, <1>2, <1>6, <2>5
         DEF RealizedBy, ClosedQty, Sign, SideSign, SignedQty, Least, Abs, AddsTo
    <3>. HIDE DEF gain, c, s
    <3>. QED
      BY <1>1, <1>2, <1>3, <1>4, <3>1, <3>2
  <2>. QED
    BY <1>1, <1>2, <2>2, <2>3, <2>4, <2>5, AbsType
<1>. QED
  BY <1>5, <1>6

(* A field of a table of records, added up over the table.                  *)
LEMMA SumOfZeros ==
  ASSUME NEW f, NEW S, IsFiniteSet(S), \A x \in S : f[x] = 0
  PROVE  SumOver(f, S) = 0
<1>1. SumOver(f, S) = SumOver(f, {})
  BY SumNonZero
<1>2. SumOver(f, {}) = 0
  BY SumUnfold, FS_EmptySet
<1>. QED
  BY <1>1, <1>2

HeldAtCost == [i \in Instruments |-> positions[i].qty * positions[i].avg]
RealizedIn == [i \in Instruments |-> positions[i].realized]
RealizedFor == [s \in Strategies |-> attribution[s].realized]
FeesPaid == [s \in Strategies |-> attribution[s].fees]

LEMMA DriftIs ==
  /\ RoundingDrift = (cash + SumOver(HeldAtCost, Instruments))
                       - (InitialCapital + realized_pnl - SumOver(FeesPaid, Strategies))
  /\ RoundingDrift' = (cash' + SumOver(HeldAtCost', Instruments))
                        - (InitialCapital + realized_pnl' - SumOver(FeesPaid', Strategies))
<1>. DEFINE avgs == [i \in Instruments |-> positions[i].avg]
<1>1. /\ Equity(avgs) = cash + SumOver(HeldAtCost, Instruments)
      /\ Equity(avgs)' = cash' + SumOver(HeldAtCost', Instruments)
  <2>1. /\ \A i \in Instruments : positions[i].qty * avgs[i] = HeldAtCost[i]
        /\ \A i \in Instruments : positions'[i].qty * avgs'[i] = HeldAtCost'[i]
    BY DEF HeldAtCost
  <2>2. /\ [i \in Instruments |-> positions[i].qty * avgs[i]] = HeldAtCost
        /\ [i \in Instruments |-> positions'[i].qty * avgs'[i]] = HeldAtCost'
    <3>. HIDE DEF avgs
    <3>. QED
      BY <2>1 DEF HeldAtCost
  <2>. HIDE DEF avgs
  <2>. QED
    BY <2>2, Zenon DEF Equity
<1>2. /\ RoundingDrift = Equity(avgs) - (InitialCapital + realized_pnl
                                           - SumOver(FeesPaid, Strategies))
      /\ RoundingDrift' = Equity(avgs)' - (InitialCapital + realized_pnl'
                                             - SumOver(FeesPaid', Strategies))
  BY Zenon DEF RoundingDrift, FeesPaid
<1>. HIDE DEF avgs
<1>. QED
  BY <1>1, <1>2

(* What a fill adds to the sums the books are compared with.                *)
LEMMA OnFillSums ==
  ASSUME NEW f \in Fills, LedgerTypeOK, OnFill(f)
  PROVE  LET pos  == positions[f.inst]
             new  == PositionUpdate(pos, f)
             gain == RealizedBy(pos, f)
         IN  /\ SumOver(HeldAtCost', Instruments) = SumOver(HeldAtCost, Instruments)
                                                  + (new.qty * new.avg - pos.qty * pos.avg)
             /\ SumOver(RealizedIn', Instruments) = SumOver(RealizedIn, Instruments) + gain
             /\ SumOver(RealizedFor', Strategies) = SumOver(RealizedFor, Strategies) + gain
             /\ SumOver(FeesPaid', Strategies) = SumOver(FeesPaid, Strategies) + f.fee
             /\ SumOver(HeldAtCost, Instruments) \in Int /\ SumOver(RealizedIn, Instruments) \in Int
             /\ SumOver(RealizedFor, Strategies) \in Int /\ SumOver(FeesPaid, Strategies) \in Int
<1>. DEFINE pos  == positions[f.inst]
            new  == PositionUpdate(pos, f)
            gain == RealizedBy(pos, f)
            i == f.inst
            s == f.strat
            Entries == [count : Nat, realized : Int, fees : Int, gross : Nat]
<1>1. /\ positions \in [Instruments -> Positions]
      /\ positions' = [positions EXCEPT ![i] = new]
      /\ i \in Instruments /\ s \in Strategies /\ f.fee \in Int
      /\ IsFiniteSet(Instruments) /\ IsFiniteSet(Strategies)
  BY FillFields, LedgerAssumption DEF LedgerTypeOK, OnFill, AccountOnFill, Positions
<1>2. pos \in Positions /\ new \in Positions /\ gain \in Int
  BY <1>1, PositionUpdateType, ClosedType
<1>3. new.realized = pos.realized + gain
  BY DEF PositionUpdate
<1>4. /\ attribution \in [Strategies -> Entries]
      /\ attribution' = [attribution EXCEPT ![s] = AttributionUpdate(attribution[s], f, gain)]
  BY DEF LedgerTypeOK, OnFill, AccountOnFill
<1>. HIDE DEF new, gain
<1>5. /\ \A j \in Instruments : HeldAtCost[j] \in Int /\ HeldAtCost'[j] \in Int
      /\ \A j \in Instruments \ {i} : HeldAtCost[j] = HeldAtCost'[j]
      /\ HeldAtCost'[i] - HeldAtCost[i] = new.qty * new.avg - pos.qty * pos.avg
  BY <1>1, <1>2 DEF HeldAtCost, Positions
<1>6. /\ \A j \in Instruments : RealizedIn[j] \in Int /\ RealizedIn'[j] \in Int
      /\ \A j \in Instruments \ {i} : RealizedIn[j] = RealizedIn'[j]
      /\ RealizedIn'[i] - RealizedIn[i] = gain
  BY <1>1, <1>2, <1>3 DEF RealizedIn, Positions
<1>7. /\ \A t \in Strategies : RealizedFor[t] \in Int /\ RealizedFor'[t] \in Int
      /\ \A t \in Strategies \ {s} : RealizedFor[t] = RealizedFor'[t]
      /\ RealizedFor'[s] - RealizedFor[s] = gain
  BY <1>1, <1>2, <1>4 DEF RealizedFor, AttributionUpdate
<1>8. /\ \A t \in Strategies : FeesPaid[t] \in Int /\ FeesPaid'[t] \in Int
      /\ \A t \in Strategies \ {s} : FeesPaid[t] = FeesPaid'[t]
      /\ FeesPaid'[s] - FeesPaid[s] = f.fee
  BY <1>1, <1>2, <1>4 DEF FeesPaid, AttributionUpdate
<1>. HIDE DEF pos
<1>9. SumOver(HeldAtCost', Instruments) = SumOver(HeldAtCost, Instruments) + (HeldAtCost'[i] - HeldAtCost[i])
  BY <1>1, <1>5, SumChange
<1>10. SumOver(RealizedIn', Instruments) = SumOver(RealizedIn, Instruments) + (RealizedIn'[i] - RealizedIn[i])
  BY <1>1, <1>6, SumChange
<1>11. SumOver(RealizedFor', Strategies) = SumOver(RealizedFor, Strategies) + (RealizedFor'[s] - RealizedFor[s])
  BY <1>1, <1>7, SumChange
<1>12. SumOver(FeesPaid', Strategies) = SumOver(FeesPaid, Strategies) + (FeesPaid'[s] - FeesPaid[s])
  BY <1>1, <1>8, SumChange
<1>13. /\ SumOver(HeldAtCost, Instruments) \in Int /\ SumOver(RealizedIn, Instruments) \in Int
       /\ SumOver(RealizedFor, Strategies) \in Int /\ SumOver(FeesPaid, Strategies) \in Int
  BY <1>1, <1>5, <1>6, <1>7, <1>8, SumType
<1>. QED
  BY <1>5, <1>6, <1>7, <1>8, <1>9, <1>10, <1>11, <1>12, <1>13 DEF pos, new, gain

LEMMA OnFillDrift ==
  ASSUME NEW f \in Fills, LedgerTypeOK, OnFill(f)
  PROVE  /\ RoundingDrift' = RoundingDrift + Dropped(positions[f.inst], f)
         /\ RoundingDrift \in Int /\ Dropped(positions[f.inst], f) \in Int
<1>. DEFINE pos  == positions[f.inst]
            new  == PositionUpdate(pos, f)
            gain == RealizedBy(pos, f)
            held == SumOver(HeldAtCost, Instruments)
            fees == SumOver(FeesPaid, Strategies)
            atcost == new.qty * new.avg - pos.qty * pos.avg
            paid == SignedQty(f) * f.price
<1>1. pos \in Positions /\ new \in Positions /\ gain \in Int
  BY FillFields, PositionUpdateType, ClosedType DEF LedgerTypeOK, Positions
<1>2. /\ cash \in Int /\ realized_pnl \in Int /\ InitialCapital \in Int
      /\ f.fee \in Int /\ paid \in Int /\ atcost \in Int
  <2>1. /\ cash \in Int /\ realized_pnl \in Int /\ InitialCapital \in Int
    BY LedgerAssumption DEF LedgerTypeOK
  <2>2. f.fee \in Int /\ paid \in Int
    BY FillFields
  <2>3. atcost \in Int
    <3>. HIDE DEF pos, new
    <3>. QED
      BY <1>1 DEF Positions
  <2>. QED
    BY <2>1, <2>2, <2>3
<1>3. cash' = cash - paid - f.fee /\ realized_pnl' = realized_pnl + gain
  BY CashOnFill DEF OnFill, AccountOnFill
<1>4. /\ SumOver(HeldAtCost', Instruments) = held + atcost
      /\ SumOver(FeesPaid', Strategies) = fees + f.fee
      /\ held \in Int /\ fees \in Int
  BY OnFillSums
<1>5. Dropped(pos, f) = atcost - paid - gain
  BY DEF Dropped
<1>. HIDE DEF pos, new, gain, held, fees, atcost, paid
<1>6. /\ RoundingDrift = (cash + held) - (InitialCapital + realized_pnl - fees)
      /\ RoundingDrift' = (cash' + (held + atcost))
                            - (InitialCapital + realized_pnl' - (fees + f.fee))
  BY <1>4, DriftIs DEF held, fees
<1>7. RoundingDrift' = RoundingDrift + Dropped(pos, f) /\ RoundingDrift \in Int
      /\ Dropped(pos, f) \in Int
  BY <1>1, <1>2, <1>3, <1>4, <1>5, <1>6
<1>. QED
  BY <1>7 DEF pos

LEMMA OnFillMoney ==
  ASSUME NEW f \in Fills, LedgerTypeOK, OnFill(f)
  PROVE  \A i \in Instruments :
           positions'[i] # positions[i] =>
             \/ RoundingDrift' = RoundingDrift
             \/ /\ Sign(positions[i].qty) = Sign(positions'[i].qty)
                /\ Abs(positions'[i].qty) > Abs(positions[i].qty)
                /\ Abs(RoundingDrift' - RoundingDrift) < Abs(positions'[i].qty)
<1>. SUFFICES ASSUME NEW i \in Instruments, positions'[i] # positions[i]
              PROVE  \/ RoundingDrift' = RoundingDrift
                     \/ /\ Sign(positions[i].qty) = Sign(positions'[i].qty)
                        /\ Abs(positions'[i].qty) > Abs(positions[i].qty)
                        /\ Abs(RoundingDrift' - RoundingDrift) < Abs(positions'[i].qty)
  OBVIOUS
<1>1. /\ positions \in [Instruments -> Positions]
      /\ positions' = [positions EXCEPT ![f.inst] = PositionUpdate(positions[f.inst], f)]
  BY DEF LedgerTypeOK, OnFill, AccountOnFill, Positions
<1>2. i = f.inst /\ positions[i] \in Positions
      /\ positions'[i].qty = PositionUpdate(positions[i], f).qty
  BY <1>1
<1>3. /\ RoundingDrift' = RoundingDrift + Dropped(positions[i], f)
      /\ RoundingDrift \in Int /\ Dropped(positions[i], f) \in Int
  BY <1>2, OnFillDrift
<1>4. \/ Dropped(positions[i], f) = 0
      \/ /\ Sign(positions[i].qty) = Sign(positions'[i].qty)
         /\ Abs(positions'[i].qty) > Abs(positions[i].qty)
         /\ Abs(Dropped(positions[i], f)) < Abs(positions'[i].qty)
  BY <1>2, DroppedBounds
<1>5. RoundingDrift' - RoundingDrift = Dropped(positions[i], f)
  BY <1>3
<1>. QED
  BY <1>3, <1>4, <1>5

(* Profit is booked once per fill in each of the three places.              *)
LEMMA RealizedIs ==
  RealizedAgrees <=> /\ realized_pnl = SumOver(RealizedIn, Instruments)
                     /\ realized_pnl = SumOver(RealizedFor, Strategies)
  BY DEF RealizedAgrees, RealizedIn, RealizedFor

LEMMA OnFillRealized ==
  ASSUME NEW f \in Fills, LedgerTypeOK, RealizedAgrees, OnFill(f)
  PROVE  RealizedAgrees'
<1>1. realized_pnl' = realized_pnl + RealizedBy(positions[f.inst], f)
  BY DEF OnFill, AccountOnFill
<1>2. /\ SumOver(RealizedIn', Instruments)
           = SumOver(RealizedIn, Instruments) + RealizedBy(positions[f.inst], f)
      /\ SumOver(RealizedFor', Strategies)
           = SumOver(RealizedFor, Strategies) + RealizedBy(positions[f.inst], f)
  BY OnFillSums
<1>3. /\ realized_pnl' = SumOver(RealizedIn', Instruments)
      /\ realized_pnl' = SumOver(RealizedFor', Strategies)
  BY <1>1, <1>2, RealizedIs
<1>. QED
  BY <1>3 DEF RealizedAgrees, RealizedIn, RealizedFor

LEMMA InitRealized == LedgerInit => RealizedAgrees
<1>. SUFFICES ASSUME LedgerInit PROVE RealizedAgrees
  OBVIOUS
<1>1. /\ \A i \in Instruments : RealizedIn[i] = 0
      /\ \A s \in Strategies : RealizedFor[s] = 0
      /\ realized_pnl = 0
  BY DEF LedgerInit, RealizedIn, RealizedFor, NewPosition
<1>2. SumOver(RealizedIn, Instruments) = 0 /\ SumOver(RealizedFor, Strategies) = 0
  BY <1>1, LedgerAssumption, SumOfZeros
<1>. QED
  BY <1>1, <1>2, RealizedIs

-----------------------------------------------------------------------------
(* The inductive invariant of the books, for the fills of any history.      *)
BooksInv ==
  LedgerTypeOK /\ ReplayInv /\ MarkedInv /\ CostWithinTrades /\ RealizedAgrees

LEMMA InitBooks == LedgerInit => BooksInv
  BY LedgerInitType, InitReplay, InitMarked, InitCost, InitRealized DEF BooksInv

LEMMA OnFillBooks ==
  ASSUME NEW f \in Fills, BooksInv, OnFill(f)
  PROVE  BooksInv'
  BY OnFillType, OnFillReplay, OnFillMarked, OnFillCost, OnFillRealized DEF BooksInv

LEMMA SameBooks ==
  ASSUME BooksInv, UNCHANGED ledgerVars
  PROVE  BooksInv'
<1>1. LedgerTypeOK'
  BY DEF BooksInv, LedgerTypeOK, ledgerVars, accountVars, exposureVars
<1>2. ReplayInv'
  BY DEF BooksInv, ReplayInv, ledgerVars, accountVars, exposureVars
<1>3. MarkedInv'
  BY DEF BooksInv, MarkedInv, ledgerVars, accountVars, exposureVars, FillsOf
<1>4. CostWithinTrades'
  <2>1. positions' = positions /\ trades' = trades
    BY DEF ledgerVars, accountVars
  <2>2. \A i : Building(i)' = Building(i)
    BY <2>1 DEF Building, TradesWith, QtyUpTo, TotalQty
  <2>. QED
    BY <2>1, <2>2 DEF BooksInv, CostWithinTrades
<1>5. RealizedAgrees'
  BY DEF BooksInv, RealizedAgrees, ledgerVars, accountVars
<1>. QED
  BY <1>1, <1>2, <1>3, <1>4, <1>5 DEF BooksInv

LEMMA BooksShow ==
  ASSUME BooksInv
  PROVE  LedgerTypeOK /\ BooksReplayTrades /\ ExposureIsMarked /\ CostWithinTrades
         /\ RealizedAgrees
  BY ReplayInvIs, MarkedIsExposure DEF BooksInv

(* Under any sequence of fills the books agree with the trade log: cash and *)
(* the running totals of the account and of every strategy are those of the *)
(* trades, realized profit is the same in its three places, exposure is the *)
(* present holdings at the strategy's last prices, and an open position     *)
(* costs no less than the cheapest and no more than the dearest of the      *)
(* trades that built it (Account::on_fill, Position::update,                *)
(* Context::on_fill_exposure).                                              *)
THEOREM LedgerBooks ==
  LedgerSpec => [](/\ BooksReplayTrades /\ RealizedAgrees
                   /\ ExposureIsMarked /\ CostWithinTrades)
<1>1. BooksInv /\ [LedgerNext]_ledgerVars => BooksInv'
  BY OnFillBooks, SameBooks DEF LedgerNext
<1>. QED
  BY <1>1, InitBooks, BooksShow, PTL DEF LedgerSpec

(* Cash and the running totals are those that the trade log replays to, and *)
(* the account, the instruments and the strategies have booked the same     *)
(* profit (Account::on_fill).                                               *)
THEOREM BooksAgree == LedgerSpec => [](BooksReplayTrades /\ RealizedAgrees)
<1>. QED
  BY LedgerBooks, PTL

(* The exposure of a strategy is what it holds at the prices it last saw.   *)
THEOREM ExposureMarked == LedgerSpec => []ExposureIsMarked
<1>. QED
  BY LedgerBooks, PTL

(* An average cost lies between the prices of the trades that built it.     *)
THEOREM CostBounded == LedgerSpec => []CostWithinTrades
<1>. QED
  BY LedgerBooks, PTL

(* A fill makes or destroys money only by rounding an average cost, when it *)
(* adds to an open position, and then by less than a price unit per unit    *)
(* held (Position::update).                                                 *)
THEOREM LedgerMoney == LedgerSpec => MoneyConserved
<1>1. LedgerTypeOK /\ [LedgerNext]_ledgerVars => LedgerTypeOK'
  BY OnFillType DEF LedgerNext, LedgerTypeOK, ledgerVars, accountVars, exposureVars
<1>2. LedgerTypeOK /\ LedgerNext =>
        \A i \in Instruments :
          positions'[i] # positions[i] =>
            \/ RoundingDrift' = RoundingDrift
            \/ /\ Sign(positions[i].qty) = Sign(positions'[i].qty)
               /\ Abs(positions'[i].qty) > Abs(positions[i].qty)
               /\ Abs(RoundingDrift' - RoundingDrift) < Abs(positions'[i].qty)
  BY OnFillMoney DEF LedgerNext
<1>. QED
  BY <1>1, <1>2, LedgerInitType, PTL DEF LedgerSpec, MoneyConserved
=============================================================================
