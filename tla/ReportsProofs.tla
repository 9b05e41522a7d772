--------------------------- MODULE ReportsProofs ---------------------------
(***************************************************************************)
(* Proofs about the read models of BiApp: whatever history of orders has   *)
(* been mirrored, the reports that are asked for at one moment agree with  *)
(* one another (ReadModelsAgree).                                          *)
(*                                                                         *)
(* The stored rows are numbers and columns of the kinds that the origin    *)
(* sends (BookFits), and since the origin sends nothing negative and       *)
(* nothing dated after its change, neither are they (BookIsSound).  Every  *)
(* report is a sum over the lines of the orders that its filter selects;   *)
(* the sums are regrouped by order, by day, by month, by column and by     *)
(* key, and the lists are sorted by orders that are total, so that the     *)
(* sequence of each list exists and holds every row once.                  *)
(***************************************************************************)
EXTENDS BiAppProofs

(* A row of the tables of orders, and of a line.                           *)
LineFits(l) ==
  /\ Column(l.good) /\ Amount(l.list) /\ {l.quantity, l.total, l.discount, l.unit} \subseteq Int
  /\ l.excluded \in BOOLEAN
RowFits(row) ==
  /\ {row.total, row.day, row.discount} \subseteq Int
  /\ Amount(row.net) /\ Amount(row.discountValue) /\ Amount(row.gross)
  /\ row.itemCount \in Nat /\ row.skuCount \in Nat
  /\ Column(row.buyer) /\ Column(row.seller)
  /\ Len(row.items) \in Nat /\ DOMAIN row.items = 1..Len(row.items)
  /\ \A i \in DOMAIN row.items : LineFits(row.items[i])
BookFits ==
  /\ DOMAIN book \subseteq BookOrders /\ today \in FirstDay..LastDay
  /\ \A o \in DOMAIN book : RowFits(book[o])

(* What the origin sends of a line is stored in columns of the right       *)
(* kind.                                                                   *)
LEMMA LineOfFits ==
  ASSUME NEW item, SentLine(item)
  PROVE  LineFits(LineOf(item))
<1>1. PICK unit : unit = ValueOr(Coalesce(item.net, item.list), 0)
  OBVIOUS
<1>2. unit \in Int
  BY <1>1 DEF SentLine, Amount, ValueOr, Coalesce, The
<1>3. item.quantity \in Int /\ item.subtotal \in Int /\ item.discount \in Int
  BY DEF SentLine
<1>4. item.quantity * unit \in Int
  BY <1>2, <1>3
<1>5. LineOf(item) = [good |-> item.good, quantity |-> item.quantity, list |-> item.list,
                      unit |-> unit, discount |-> item.discount, excluded |-> item.excluded,
                      total |-> IF item.subtotal # 0 THEN item.subtotal ELSE item.quantity * unit]
  BY <1>1 DEF LineOf
<1>6. PICK total \in Int : total = IF item.subtotal # 0 THEN item.subtotal ELSE item.quantity * unit
  BY <1>3, <1>4
<1> QED
  BY <1>2, <1>3, <1>5, <1>6 DEF LineFits, SentLine

(* The items of an order that are kept, and their products, are finitely   *)
(* many.                                                                   *)
LEMMA KeptFinite ==
  ASSUME NEW p, SentOrder(p)
  PROVE  /\ Kept(p.items) \subseteq DOMAIN p.items /\ IsFiniteSet(Kept(p.items))
         /\ IsFiniteSet(UNION {p.items[i].good : i \in Kept(p.items)})
<1>1. PICK n \in Nat : DOMAIN p.items = 1..n
  BY DEF SentOrder
<1>2. IsFiniteSet(1..n)
  BY FS_Interval
<1>3. Kept(p.items) \in SUBSET (1..n)
  BY <1>1 DEF Kept
<1>4. IsFiniteSet(Kept(p.items))
  BY <1>2, <1>3, FS_Subset
<1>5. PICK k : k = [i \in Kept(p.items) |-> p.items[i].good]
  OBVIOUS
<1>6. IsFiniteSet(KeysOf(k, Kept(p.items)))
  BY <1>4, <1>5, KeysFinite
<1>7. KeysOf(k, Kept(p.items)) = {p.items[i].good : i \in Kept(p.items)}
  BY <1>5 DEF KeysOf
<1>8. ASSUME NEW T \in KeysOf(k, Kept(p.items)) PROVE IsFiniteSet(T)
  <2>1. Column(T)
    BY <1>1, <1>3, <1>7 DEF SentOrder, SentLine
  <2>2. T = {} \/ \E x : T = {x}
    BY <2>1 DEF Column
  <2> QED
    BY <2>2, FS_EmptySet, FS_Singleton
<1> QED
  BY <1>1, <1>3, <1>4, <1>6, <1>7, <1>8, FS_UNION

(* The discount that is derived from the items is a number.                *)
LEMMA DerivedDiscountTyped ==
  ASSUME NEW p, SentOrder(p)
  PROVE  DerivedDiscount(p.items) \in Int
<1>1. PICK S : S = {i \in Kept(p.items) : p.items[i].list # {} /\ p.items[i].net # {}}
  OBVIOUS
<1>2. IsFiniteSet(S)
  BY <1>1, KeptFinite, FS_Subset
<1>3. ASSUME NEW i \in S
      PROVE  MaxOf2((The(p.items[i].list) - The(p.items[i].net)) * p.items[i].quantity, 0) \in Int
  <2>1. SentLine(p.items[i]) /\ p.items[i].list # {} /\ p.items[i].net # {}
    BY <1>1, KeptFinite DEF SentOrder
  <2>2. The(p.items[i].list) \in Int /\ The(p.items[i].net) \in Int /\ p.items[i].quantity \in Int
    BY <2>1 DEF SentLine, Amount, The
  <2>3. (The(p.items[i].list) - The(p.items[i].net)) * p.items[i].quantity \in Int
    BY <2>2
  <2> QED
    BY <2>3 DEF MaxOf2
<1>4. PICK f \in [S -> Int] :
        f = [i \in S |->
               MaxOf2((The(p.items[i].list) - The(p.items[i].net)) * p.items[i].quantity, 0)]
  BY <1>3
<1>5. SumFunction(f) \in Int
  BY <1>2, SumTyped
<1> QED
  BY <1>1, <1>4, <1>5 DEF DerivedDiscount, SumOver

(* The row of an order is made of numbers and nullable columns.            *)
LEMMA RowOfFits ==
  ASSUME NEW o \in BookOrders, NEW v \in DOMAIN Versions[o], NEW kind, NEW created
  PROVE  RowFits(RowOf(Versions[o][v], kind, created))
<1>1. PICK p : p = Versions[o][v]
  OBVIOUS
<1>2. SentOrder(p)
  BY <1>1, VersionsTyped
<1>3. Amount(NetTotal(p)) /\ NetTotal(p) # {}
  BY <1>2 DEF SentOrder, NetTotal, Coalesce, Amount, Column
<1>4. The(NetTotal(p)) \in Int
  BY <1>3 DEF The, Amount
<1>5. DerivedDiscount(p.items) \in Int
  BY <1>2, DerivedDiscountTyped
<1>6. Amount({}) /\ \A x \in Int : Amount({x})
  BY DEF Amount, Column
<1>7. Amount(DiscountValue(p))
  BY <1>2, <1>5, <1>6 DEF DiscountValue, Coalesce, SentOrder
<1>8. The(NetTotal(p)) + DerivedDiscount(p.items) \in Int
  BY <1>4, <1>5
<1>9. Amount(GrossTotal(p))
  BY <1>2, <1>6, <1>8 DEF GrossTotal, Coalesce, SentOrder
<1>10. ValueOr(Coalesce(p.issued, p.created), p.updated) \in Int
  BY <1>2 DEF ValueOr, Coalesce, The, SentOrder, Amount
<1>11. Cardinality(Kept(p.items)) \in Nat
       /\ Cardinality(UNION {p.items[i].good : i \in Kept(p.items)}) \in Nat
  BY <1>2, KeptFinite, FS_CardinalityType
<1>12. PICK n \in Nat : DOMAIN p.items = 1..n /\ Len(p.items) = n
  BY <1>2 DEF SentOrder
<1>13. PICK items : items = [i \in DOMAIN p.items |-> LineOf(p.items[i])]
  OBVIOUS
<1>14. ASSUME NEW i \in DOMAIN p.items PROVE LineFits(LineOf(p.items[i]))
  BY <1>2, LineOfFits DEF SentOrder
<1>15. items \in Seq({items[i] : i \in 1..n}) /\ DOMAIN items = 1..n
  BY <1>12, <1>13
<1>16. Len(items) = n
  BY <1>15
<1>17. PICK row : row = RowOf(p, kind, created)
  OBVIOUS
<1>18. /\ row.total = p.total /\ row.day = ValueOr(Coalesce(p.issued, p.created), p.updated)
       /\ row.discount = p.discount /\ row.net = NetTotal(p) /\ row.discountValue = DiscountValue(p)
       /\ row.gross = GrossTotal(p) /\ row.itemCount = Cardinality(Kept(p.items))
       /\ row.skuCount = Cardinality(UNION {p.items[i].good : i \in Kept(p.items)})
       /\ row.buyer = p.buyer /\ row.seller = p.seller /\ row.items = items
  BY <1>13, <1>17 DEF RowOf
<1>19. {row.total, row.day, row.discount} \subseteq Int
  BY <1>2, <1>10, <1>18 DEF SentOrder
<1>20. Column(row.buyer) /\ Column(row.seller)
  BY <1>2, <1>18 DEF SentOrder
<1>21. Len(row.items) \in Nat /\ DOMAIN row.items = 1..Len(row.items)
  BY <1>15, <1>16, <1>18
<1>22. \A i \in DOMAIN row.items : LineFits(row.items[i])
  BY <1>13, <1>14, <1>18
<1> QED
  BY <1>1, <1>3, <1>7, <1>9, <1>11, <1>17, <1>18, <1>19, <1>20, <1>21, <1>22 DEF RowFits

(* What is stored is as sound as what was sent.                            *)
RowIsSound(row) ==
  /\ row.total >= 0 /\ (\A n \in row.net : n >= 0) /\ row.day <= today
  /\ \A i \in DOMAIN row.items : row.items[i].total >= 0
BookIsSound == \A o \in DOMAIN book : RowIsSound(book[o])

(* The row of an order is not negative and not dated after today.          *)
LEMMA RowOfSound ==
  ASSUME NEW o \in BookOrders, NEW v \in DOMAIN Versions[o], NEW kind, NEW created,
         today \in Int, Versions[o][v].updated <= today
  PROVE  RowIsSound(RowOf(Versions[o][v], kind, created))
<1>1. PICK p : p = Versions[o][v]
  OBVIOUS
<1>2. SentOrder(p)
  BY <1>1, VersionsTyped
<1>3. /\ p.total >= 0 /\ \A n \in p.net : n >= 0
      /\ ValueOr(Coalesce(p.issued, p.created), p.updated) <= p.updated
      /\ \A i \in DOMAIN p.items :
           /\ p.items[i].quantity >= 0 /\ p.items[i].subtotal >= 0
           /\ \A price \in p.items[i].net \cup p.items[i].list : price >= 0
  BY <1>1, OriginIsSound
<1>4. ValueOr(Coalesce(p.issued, p.created), p.updated) <= today
  <2>1. ValueOr(Coalesce(p.issued, p.created), p.updated) \in Int
    BY <1>2 DEF ValueOr, Coalesce, The, SentOrder, Amount
  <2>2. p.updated \in Int /\ p.updated <= today
    BY <1>1, <1>2 DEF SentOrder
  <2> QED
    BY <1>3, <2>1, <2>2
<1>5. ASSUME NEW i \in DOMAIN p.items PROVE LineOf(p.items[i]).total >= 0
  <2>1. PICK item : item = p.items[i]
    OBVIOUS
  <2>2. SentLine(item)
    BY <1>2, <2>1 DEF SentOrder
  <2>3. PICK unit : unit = ValueOr(Coalesce(item.net, item.list), 0)
    OBVIOUS
  <2>4. unit \in Int /\ unit >= 0
    BY <1>3, <2>1, <2>2, <2>3 DEF SentLine, Amount, ValueOr, Coalesce, The
  <2>5. item.quantity \in Int /\ item.quantity >= 0 /\ item.subtotal \in Int /\ item.subtotal >= 0
    BY <1>3, <2>1, <2>2 DEF SentLine
  <2>6. item.quantity * unit >= 0
    BY <2>4, <2>5
  <2>7. LineOf(item).total = IF item.subtotal # 0 THEN item.subtotal ELSE item.quantity * unit
    BY <2>3 DEF LineOf
  <2> QED
    BY <2>1, <2>5, <2>6, <2>7
<1>6. \A n \in NetTotal(p) : n >= 0
  BY <1>3 DEF NetTotal, Coalesce
<1>7. PICK row : row = RowOf(p, kind, created)
  OBVIOUS
<1>8. /\ row.total = p.total /\ row.day = ValueOr(Coalesce(p.issued, p.created), p.updated)
      /\ row.net = NetTotal(p) /\ row.items = [i \in DOMAIN p.items |-> LineOf(p.items[i])]
  BY <1>7 DEF RowOf
<1> QED
  BY <1>1, <1>3, <1>4, <1>5, <1>6, <1>7, <1>8 DEF RowIsSound

(* The tables start empty.                                                 *)
LEMMA TablesStart == BiAppInit => BookFits /\ BookIsSound
BY MirrorConstants DEF BiAppInit, MirrorInit, BookFits, BookIsSound

(* How the tables of orders change.                                        *)
Stores(o, v, kind, created) ==
  /\ Versions[o][v].updated <= today
  /\ book' = [x \in DOMAIN book \cup {o} |->
               IF x = o THEN RowOf(Versions[o][v], kind, created) ELSE book[x]]

(* A step leaves the tables of orders, ends a day, or stores one order.    *)
LEMMA TablesMove ==
  ASSUME MirrorInv, [BiAppNext]_biApp
  PROVE  \/ book' = book /\ today' = today
         \/ book' = book /\ today < LastDay /\ today' = today + 1
         \/ /\ today' = today
            /\ \E o \in BookOrders : \E v \in DOMAIN Versions[o] : \E kind, created :
                 Stores(o, v, kind, created)
<1>1. CASE UNCHANGED mirrorTables
  BY <1>1 DEF mirrorTables
<1>2. CASE MirrorMoves
  <2>1. CASE DayPasses
    BY <2>1 DEF DayPasses
  <2>2. ASSUME NEW o \in DOMAIN Seen[focus], NEW v \in Seen[focus][o],
               StoreOrder(o, Versions[o][v])
        PROVE  /\ today' = today
               /\ \E kind, created : Stores(o, v, kind, created)
    BY <2>2 DEF StoreOrder, Stores
  <2>3. \A o \in DOMAIN Seen[focus] : \A v \in Seen[focus][o] :
          o \in BookOrders /\ v \in DOMAIN Versions[o]
    BY SeenIsSent DEF MirrorInv
  <2> QED
    BY <1>2, <2>1, <2>2, <2>3 DEF MirrorMoves
<1> QED
  BY <1>1, <1>2 DEF BiAppNext, SyncMoves, ReadersMove, LeadsMove, ExportMoves, MirrorMovesOn, biApp,
                    mirrorTables

(* Every step keeps what the reports need of the tables.                   *)
LEMMA TablesStay ==
  ASSUME MirrorInv, BookFits, [BiAppNext]_biApp
  PROVE  BookFits' /\ (BookIsSound => BookIsSound')
<1>1. today \in Int /\ LastDay \in Int /\ FirstDay \in Int /\ today \in FirstDay..LastDay
  BY MirrorConstants DEF BookFits
<1>2. CASE book' = book /\ today' = today
  BY <1>2 DEF BookFits, BookIsSound, RowIsSound
<1>3. CASE book' = book /\ today < LastDay /\ today' = today + 1
  <2>1. today' \in FirstDay..LastDay
    BY <1>1, <1>3
  <2>2. \A o \in DOMAIN book : book[o].day \in Int
    BY DEF BookFits, RowFits
  <2>3. BookFits'
    BY <1>3, <2>1 DEF BookFits
  <2>4. BookIsSound => BookIsSound'
    BY <1>1, <1>3, <2>2 DEF BookIsSound, RowIsSound
  <2> QED
    BY <2>3, <2>4
<1>4. ASSUME NEW o \in BookOrders, NEW v \in DOMAIN Versions[o], NEW kind, NEW created,
             today' = today, Stores(o, v, kind, created)
      PROVE  BookFits' /\ (BookIsSound => BookIsSound')
  <2>1. PICK row : row = RowOf(Versions[o][v], kind, created)
    OBVIOUS
  <2>2. RowFits(row) /\ RowIsSound(row)
    BY <1>1, <1>4, <2>1, RowOfFits, RowOfSound DEF Stores
  <2>3. /\ \A x \in DOMAIN book' : book'[x] = row \/ (x \in DOMAIN book /\ book'[x] = book[x])
        /\ DOMAIN book' = DOMAIN book \cup {o}
    BY <1>4, <2>1 DEF Stores
  <2>4. DOMAIN book' \subseteq BookOrders
    BY <2>3 DEF BookFits
  <2>5. BookFits'
    BY <1>1, <1>4, <2>2, <2>3, <2>4 DEF BookFits
  <2>6. ASSUME BookIsSound, NEW x \in DOMAIN book'
        PROVE  RowIsSound(book[x])'
    BY <1>4, <2>2, <2>3, <2>6 DEF BookIsSound, RowIsSound
  <2> QED
    BY <2>5, <2>6 DEF BookIsSound
<1>5. \/ BookFits' /\ (BookIsSound => BookIsSound')
      \/ \E o \in BookOrders : \E v \in DOMAIN Versions[o] : \E kind, created :
           today' = today /\ Stores(o, v, kind, created)
  BY <1>2, <1>3, TablesMove
<1> QED
  BY <1>4, <1>5

Part(f, T) == [x \in T |-> f[x]]

(* The totals of the groups by a key add up to the total.                  *)
LEMMA SumByGroups ==
  ASSUME NEW S, IsFiniteSet(S), NEW f \in [S -> Int], NEW k, DOMAIN k = S, k = [x \in S |-> k[x]],
         NEW g, g = [v \in KeysOf(k, S) |-> g[v]],
         \A v \in KeysOf(k, S) : g[v] = SumFunction(Part(f, ClassOf(k, S, v)))
  PROVE  SumFunction(g) = SumFunction(f)
<1>1. g = [v \in KeysOf(k, S) |-> SumFunction([x \in ClassOf(k, S, v) |-> f[x]])]
  BY DEF Part
<1> QED
  BY <1>1, GroupsSum

(* A sum is the sum over a part and over the rest.                         *)
LEMMA SumOfParts ==
  ASSUME NEW S, IsFiniteSet(S), NEW f \in [S -> Int], NEW T \in SUBSET S
  PROVE  /\ SumFunction(f) = SumFunction(Part(f, T)) + SumFunction(Part(f, S \ T))
         /\ SumFunction(f) \in Int /\ SumFunction(Part(f, T)) \in Int
         /\ SumFunction(Part(f, S \ T)) \in Int
<1>1. PICK U : U = S \ T
  OBVIOUS
<1>2. IsFiniteSet(T) /\ IsFiniteSet(U) /\ T \cap U = {} /\ T \cup U = S /\ U \in SUBSET S
  BY <1>1, FS_Subset
<1>3. f \in [T \cup U -> Int]
  BY <1>2
<1>4. SumFunction(f) = SumFunction(Over(f, T)) + SumFunction(Over(f, U))
  BY <1>2, <1>3, SumUnion
<1>5. Part(f, T) \in [T -> Int] /\ Part(f, U) \in [U -> Int]
  BY <1>2 DEF Part
<1>6. SumFunction(Part(f, T)) \in Int /\ SumFunction(Part(f, U)) \in Int /\ SumFunction(f) \in Int
  BY <1>2, <1>5, SumTyped
<1> QED
  BY <1>1, <1>4, <1>6 DEF Over, Part

(* Numbers that are not negative have no negative sum.                     *)
LEMMA SumNotNegative ==
  ASSUME NEW S, IsFiniteSet(S), NEW f \in [S -> Int], \A x \in S : f[x] >= 0
  PROVE  SumFunction(f) \in Int /\ SumFunction(f) >= 0
<1>1. f \in [S -> Nat]
  OBVIOUS
<1>2. SumFunction(f) \in Nat
  BY <1>1, SumNatural
<1> QED
  BY <1>2

(* Fewer of such numbers add up to less.                                   *)
LEMMA SumOfFewer ==
  ASSUME NEW S, IsFiniteSet(S), NEW f \in [S -> Int], NEW T \in SUBSET S,
         \A x \in S \ T : f[x] >= 0
  PROVE  SumFunction(Part(f, T)) <= SumFunction(f)
<1>1. IsFiniteSet(S \ T)
  BY FS_Difference
<1>2. Part(f, S \ T) \in [S \ T -> Int] /\ \A x \in S \ T : Part(f, S \ T)[x] >= 0
  BY DEF Part
<1>3. SumFunction(Part(f, S \ T)) >= 0
  BY <1>1, <1>2, SumNotNegative
<1>4. /\ SumFunction(f) = SumFunction(Part(f, T)) + SumFunction(Part(f, S \ T))
      /\ SumFunction(f) \in Int /\ SumFunction(Part(f, T)) \in Int
      /\ SumFunction(Part(f, S \ T)) \in Int
  BY SumOfParts
<1> QED
  BY <1>3, <1>4

(* Smaller numbers add up to less.                                         *)
LEMMA SumOfLess ==
  ASSUME NEW S, IsFiniteSet(S), NEW f \in [S -> Int], NEW g \in [S -> Int],
         \A x \in S : f[x] <= g[x]
  PROVE  SumFunction(f) <= SumFunction(g)
<1>0. \A x \in S : g[x] - f[x] \in Int /\ g[x] - f[x] >= 0
  OBVIOUS
<1>1. PICK h \in [S -> Int] : h = [x \in S |-> g[x] - f[x]]
  BY <1>0
<1>2. SumFunction(h) >= 0 /\ SumFunction(h) \in Int
  BY <1>0, <1>1, SumNotNegative
<1>3. \A x \in S : g[x] = f[x] + h[x]
  BY <1>1
<1>4. SumFunction(g) = SumFunction(f) + SumFunction(h)
  BY <1>3, SumPlus
<1>5. SumFunction(f) \in Int
  BY SumTyped
<1> QED
  BY <1>2, <1>4, <1>5

(* What a function says along another one.                                 *)
ReadsAlong(g, f, b, S) == g = [x \in S |-> g[x]] /\ \A x \in S : g[x] = f[b[x]]

(* A sum does not depend on the names of what is summed.                   *)
LEMMA SumAlong ==
  ASSUME NEW S, NEW T, IsFiniteSet(S), NEW b \in Bijection(S, T), NEW f \in [T -> Int],
         NEW g, ReadsAlong(g, f, b, S)
  PROVE  SumFunction(g) = SumFunction(f)
<1>1. g = [x \in S |-> g[x]] /\ \A x \in S : g[x] = f[b[x]]
  BY DEF ReadsAlong
<1>2. b \in [S -> T] /\ (\A x, y \in S : b[x] = b[y] => x = y) /\ \A t \in T : \E x \in S : b[x] = t
  BY DEF Bijection, Injection, Surjection, IsInjective
<1>3. g \in [S -> Int] /\ b = [x \in S |-> b[x]]
  BY <1>1, <1>2
<1>4. KeysOf(b, S) = T
  BY <1>2 DEF KeysOf
<1>5. ASSUME NEW t \in T PROVE f[t] = SumFunction(Part(g, ClassOf(b, S, t)))
  <2>1. PICK x \in S : b[x] = t
    BY <1>2
  <2>2. ClassOf(b, S, t) = {x}
    BY <1>2, <2>1 DEF ClassOf
  <2>3. PICK h \in [{x} -> Int] : h = Part(g, {x})
    BY <1>3 DEF Part
  <2>4. h[x] = f[t]
    BY <1>1, <1>2, <2>1, <2>3 DEF Part
  <2>5. SumFunction(Over(h, {x})) = h[x] + SumFunction(Over(h, {x} \ {x}))
    <3>1. IsFiniteSet({x}) /\ {x} \in SUBSET {x} /\ x \in {x}
      BY FS_Singleton
    <3> QED
      BY <3>1, SumSplit
  <2>6. SumFunction(Over(h, {x} \ {x})) = 0
    BY SumOfNone DEF Over
  <2>7. Over(h, {x}) = h
    BY OverAll
  <2>8. h[x] \in Int
    OBVIOUS
  <2> QED
    BY <2>2, <2>3, <2>4, <2>5, <2>6, <2>7, <2>8
<1>6. f = [t \in T |-> f[t]]
  OBVIOUS
<1>7. SumFunction(f) = SumFunction(g)
  BY <1>2, <1>3, <1>4, <1>5, <1>6, SumByGroups
<1> QED
  BY <1>7

(* The sums of the classes, the empty ones included, are the sum.          *)
LEMMA SumInClasses ==
  ASSUME NEW C, IsFiniteSet(C), NEW S, IsFiniteSet(S), NEW f \in [S -> Int], NEW k \in [S -> C]
  PROVE  SumFunction([c \in C |-> SumFunction(Part(f, ClassOf(k, S, c)))]) = SumFunction(f)
BY SumByClass DEF Over, Part

(* Counting is adding ones.                                                *)
LEMMA CountIsSumOfOnes ==
  ASSUME NEW S, IsFiniteSet(S)
  PROVE  SumFunction([x \in S |-> 1]) = Cardinality(S)
<1>1. [x \in S |-> IF x \in S THEN 1 ELSE 0] = [x \in S |-> 1]
  OBVIOUS
<1> QED
  BY <1>1, CountIsSum

(* The sizes of the classes, the empty ones included, are the size.        *)
LEMMA CountInClasses ==
  ASSUME NEW C, IsFiniteSet(C), NEW S, IsFiniteSet(S), NEW k \in [S -> C]
  PROVE  SumFunction([c \in C |-> Cardinality(ClassOf(k, S, c))]) = Cardinality(S)
<1>1. PICK f \in [S -> Int] : f = [x \in S |-> 1]
  <2>1. [x \in S |-> 1] \in [S -> Int]
    OBVIOUS
  <2> QED
    BY <2>1
<1>2. ASSUME NEW c \in C PROVE SumFunction(Part(f, ClassOf(k, S, c))) = Cardinality(ClassOf(k, S, c))
  <2>1. PICK T \in SUBSET S : T = ClassOf(k, S, c)
    BY DEF ClassOf
  <2>2. IsFiniteSet(T)
    BY FS_Subset
  <2>3. Part(f, T) = [x \in T |-> 1]
    BY <1>1 DEF Part
  <2> QED
    BY <2>1, <2>2, <2>3, CountIsSumOfOnes
<1>3. [c \in C |-> Cardinality(ClassOf(k, S, c))] = [c \in C |-> SumFunction(Part(f, ClassOf(k, S, c)))]
  BY <1>2
<1> QED
  BY <1>1, <1>3, SumInClasses, CountIsSumOfOnes

(* The sizes of the groups by a key are the size.                          *)
LEMMA CountByGroups ==
  ASSUME NEW S, IsFiniteSet(S), NEW k, DOMAIN k = S, k = [x \in S |-> k[x]],
         NEW g, g = [v \in KeysOf(k, S) |-> g[v]],
         \A v \in KeysOf(k, S) : g[v] = Cardinality(ClassOf(k, S, v))
  PROVE  SumFunction(g) = Cardinality(S)
<1>1. IsFiniteSet(KeysOf(k, S)) /\ k \in [S -> KeysOf(k, S)]
  BY KeysFinite
<1>2. g = [v \in KeysOf(k, S) |-> Cardinality(ClassOf(k, S, v))]
  OBVIOUS
<1> QED
  BY <1>1, <1>2, CountInClasses

(* Some of the stored orders are finitely many.                            *)
LEMMA OrdersFinite ==
  ASSUME BookFits, NEW orders \in SUBSET DOMAIN book
  PROVE  IsFiniteSet(orders)
BY MirrorConstants, FS_Subset DEF BookFits

(* The lines of some orders.                                               *)
IsLineOf(l, orders) ==
  /\ l = <<l[1], l[2]>> /\ l[1] \in orders /\ l[2] \in DOMAIN book[l[1]].items
  /\ ~book[l[1]].items[l[2]].excluded

(* A line is an order and the place of one of its items.                   *)
LEMMA LinesAre ==
  ASSUME NEW orders, NEW l
  PROVE  l \in LinesOf(orders) <=> IsLineOf(l, orders)
BY DEF LinesOf, IsLineOf

(* The lines of some orders are finitely many.                             *)
LEMMA LinesFinite ==
  ASSUME BookFits, NEW orders \in SUBSET DOMAIN book
  PROVE  IsFiniteSet(LinesOf(orders))
<1>1. PICK k : k = [o \in orders |-> {<<o, i>> : i \in {j \in DOMAIN book[o].items : ~book[o].items[j].excluded}}]
  OBVIOUS
<1>2. IsFiniteSet(KeysOf(k, orders))
  BY <1>1, OrdersFinite, KeysFinite
<1>3. LinesOf(orders) = UNION KeysOf(k, orders)
  BY <1>1 DEF LinesOf, KeysOf
<1>4. ASSUME NEW o \in orders PROVE IsFiniteSet(k[o])
  <2>1. PICK n \in Nat : DOMAIN book[o].items = 1..n
    BY DEF BookFits, RowFits
  <2>2. PICK I \in SUBSET (1..n) : I = {j \in DOMAIN book[o].items : ~book[o].items[j].excluded}
    BY <2>1
  <2>3. IsFiniteSet(I)
    BY <2>1, <2>2, FS_Interval, FS_Subset
  <2>4. PICK p : p = [i \in I |-> <<o, i>>]
    OBVIOUS
  <2>5. IsFiniteSet(KeysOf(p, I))
    BY <2>3, <2>4, KeysFinite
  <2>6. k[o] = KeysOf(p, I)
    BY <1>1, <2>2, <2>4 DEF KeysOf
  <2> QED
    BY <2>5, <2>6
<1>5. \A T \in KeysOf(k, orders) : IsFiniteSet(T)
  BY <1>4 DEF KeysOf
<1> QED
  BY <1>2, <1>3, <1>5, FS_UNION

(* A line of some orders is a stored line of one of them.                  *)
LEMMA LineFitsIn ==
  ASSUME BookFits, NEW orders \in SUBSET DOMAIN book, NEW l \in LinesOf(orders)
  PROVE  LineFits(Line(l)) /\ l[1] \in orders
<1>1. IsLineOf(l, orders)
  BY LinesAre
<1> QED
  BY <1>1 DEF IsLineOf, BookFits, RowFits, Line

(* The lines of chosen products are some of the lines.                     *)
LEMMA ProductLinesAre ==
  ASSUME BookFits, NEW orders \in SUBSET DOMAIN book, NEW f
  PROVE  ProductLines(orders, f) \in SUBSET LinesOf(orders) /\ IsFiniteSet(ProductLines(orders, f))
BY LinesFinite, FS_Subset DEF ProductLines

(* The lines a report counts of some orders, and those of them of one      *)
(* order.                                                                  *)
Counting(orders, f, scoped) == IF scoped THEN ProductLines(orders, f) ELSE LinesOf(orders)

(* So are the lines a report counts.                                       *)
LEMMA CountingFinite ==
  ASSUME BookFits, NEW orders \in SUBSET DOMAIN book, NEW f, NEW scoped
  PROVE  /\ IsFiniteSet(Counting(orders, f, scoped))
         /\ Counting(orders, f, scoped) \in SUBSET LinesOf(orders)
         /\ \A l \in Counting(orders, f, scoped) : LineFits(Line(l)) /\ l[1] \in orders
BY LinesFinite, ProductLinesAre, LineFitsIn DEF Counting

(* The lines counted of one order are those counted for it alone.          *)
LEMMA LinesOfOne ==
  ASSUME NEW orders, NEW f, NEW scoped, NEW o \in orders
  PROVE  {l \in Counting(orders, f, scoped) : l[1] = o} = Counting({o}, f, scoped)
<1>1. ASSUME NEW l PROVE l \in LinesOf({o}) <=> (l \in LinesOf(orders) /\ l[1] = o)
  BY LinesAre DEF IsLineOf
<1> QED
  BY <1>1 DEF Counting, ProductLines

(* Amounts of the lines.                                                   *)
LEMMA LinesSums ==
  ASSUME BookFits, NEW orders \in SUBSET DOMAIN book, NEW L \in SUBSET LinesOf(orders)
  PROVE  /\ IsFiniteSet(L)
         /\ LinesValue(L) \in Int /\ LinesQuantity(L) \in Int /\ LinesDiscount(L) \in Int
         /\ BookIsSound => LinesValue(L) >= 0
<1>1. IsFiniteSet(L)
  BY LinesFinite, FS_Subset
<1>2. \A l \in L : Line(l).total \in Int /\ Line(l).quantity \in Int /\ Line(l).discount \in Int
  BY LineFitsIn DEF LineFits
<1>3. PICK v \in [L -> Int] : v = [l \in L |-> Line(l).total]
  BY <1>2
<1>4. PICK q \in [L -> Int] : q = [l \in L |-> Line(l).quantity]
  BY <1>2
<1>5. PICK d \in [L -> Int] : d = [l \in L |-> Line(l).discount]
  BY <1>2
<1>6. SumFunction(v) \in Int /\ SumFunction(q) \in Int /\ SumFunction(d) \in Int
  BY <1>1, SumTyped
<1>7. ASSUME BookIsSound PROVE SumFunction(v) >= 0
  <2>1. \A l \in L : v[l] >= 0
    BY <1>3, <1>7, LinesAre DEF BookIsSound, RowIsSound, IsLineOf, Line
  <2> QED
    BY <1>1, <2>1, SumNotNegative
<1> QED
  BY <1>1, <1>3, <1>4, <1>5, <1>6, <1>7 DEF LinesValue, LinesQuantity, LinesDiscount, SumOver

(* What the lines of some orders add up to is what each of them does.      *)
LEMMA LinesByOrder ==
  ASSUME BookFits, NEW orders \in SUBSET DOMAIN book, NEW f, NEW scoped
  PROVE  LET L(o) == Counting({o}, f, scoped)
         IN /\ SumFunction([o \in orders |-> LinesValue(L(o))])
                 = LinesValue(Counting(orders, f, scoped))
            /\ SumFunction([o \in orders |-> LinesQuantity(L(o))])
                 = LinesQuantity(Counting(orders, f, scoped))
            /\ SumFunction([o \in orders |-> LinesDiscount(L(o))])
                 = LinesDiscount(Counting(orders, f, scoped))
<1>1. PICK S : S = Counting(orders, f, scoped)
  OBVIOUS
<1>2. IsFiniteSet(S) /\ IsFiniteSet(orders)
  BY <1>1, CountingFinite, OrdersFinite
<1>3. \A l \in S : /\ l[1] \in orders
                   /\ Line(l).total \in Int /\ Line(l).quantity \in Int /\ Line(l).discount \in Int
  BY <1>1, CountingFinite DEF LineFits
<1>4. PICK k \in [S -> orders] : k = [l \in S |-> l[1]]
  BY <1>3
<1>5. PICK v \in [S -> Int] : v = [l \in S |-> Line(l).total]
  BY <1>3
<1>6. PICK q \in [S -> Int] : q = [l \in S |-> Line(l).quantity]
  BY <1>3
<1>7. PICK d \in [S -> Int] : d = [l \in S |-> Line(l).discount]
  BY <1>3
<1>8. ASSUME NEW o \in orders
      PROVE  /\ ClassOf(k, S, o) = Counting({o}, f, scoped)
             /\ Counting({o}, f, scoped) \subseteq S
  <2>1. {l \in S : l[1] = o} = Counting({o}, f, scoped)
    BY <1>1, LinesOfOne
  <2> QED
    BY <1>4, <2>1 DEF ClassOf
<1>9. [o \in orders |-> LinesValue(Counting({o}, f, scoped))]
        = [o \in orders |-> SumFunction(Part(v, ClassOf(k, S, o)))]
  <2>1. ASSUME NEW o \in orders
        PROVE  LinesValue(Counting({o}, f, scoped)) = SumFunction(Part(v, ClassOf(k, S, o)))
    <3>1. PICK C : C = Counting({o}, f, scoped)
      OBVIOUS
    <3>2. [l \in C |-> Line(l).total] = Part(v, C)
      BY <1>5, <1>8, <3>1 DEF Part
    <3> QED
      BY <1>8, <3>1, <3>2 DEF LinesValue, SumOver
  <2> QED
    BY <2>1
<1>10. [o \in orders |-> LinesQuantity(Counting({o}, f, scoped))]
        = [o \in orders |-> SumFunction(Part(q, ClassOf(k, S, o)))]
  <2>1. ASSUME NEW o \in orders
        PROVE  LinesQuantity(Counting({o}, f, scoped)) = SumFunction(Part(q, ClassOf(k, S, o)))
    <3>1. PICK C : C = Counting({o}, f, scoped)
      OBVIOUS
    <3>2. [l \in C |-> Line(l).quantity] = Part(q, C)
      BY <1>6, <1>8, <3>1 DEF Part
    <3> QED
      BY <1>8, <3>1, <3>2 DEF LinesQuantity, SumOver
  <2> QED
    BY <2>1
<1>11. [o \in orders |-> LinesDiscount(Counting({o}, f, scoped))]
        = [o \in orders |-> SumFunction(Part(d, ClassOf(k, S, o)))]
  <2>1. ASSUME NEW o \in orders
        PROVE  LinesDiscount(Counting({o}, f, scoped)) = SumFunction(Part(d, ClassOf(k, S, o)))
    <3>1. PICK C : C = Counting({o}, f, scoped)
      OBVIOUS
    <3>2. [l \in C |-> Line(l).discount] = Part(d, C)
      BY <1>7, <1>8, <3>1 DEF Part
    <3> QED
      BY <1>8, <3>1, <3>2 DEF LinesDiscount, SumOver
  <2> QED
    BY <2>1
<1>12. /\ SumFunction(v) = LinesValue(S) /\ SumFunction(q) = LinesQuantity(S)
       /\ SumFunction(d) = LinesDiscount(S)
  BY <1>5, <1>6, <1>7 DEF LinesValue, LinesQuantity, LinesDiscount, SumOver
<1>13. /\ SumFunction([o \in orders |-> SumFunction(Part(v, ClassOf(k, S, o)))]) = SumFunction(v)
       /\ SumFunction([o \in orders |-> SumFunction(Part(q, ClassOf(k, S, o)))]) = SumFunction(q)
       /\ SumFunction([o \in orders |-> SumFunction(Part(d, ClassOf(k, S, o)))]) = SumFunction(d)
  BY <1>2, SumInClasses
<1> QED
  BY <1>1, <1>9, <1>10, <1>11, <1>12, <1>13

(* What an order earned under a filter.                                    *)
Earned(o, f) == IF ProductScoped(f) THEN LinesValue(ProductLines({o}, f)) ELSE HeaderRevenue(o)

AmountsFit(v) ==
  v.current \in Int /\ v.discount \in Int /\ v.items \in Int /\ (BookIsSound => v.current >= 0)

(* A nullable amount with a default is a number.                           *)
LEMMA ValueOrTyped ==
  ASSUME NEW S, Amount(S), NEW d \in Int
  PROVE  ValueOr(S, d) \in Int
BY DEF ValueOr, The, Amount

(* The revenue an order's header states is a number.                       *)
LEMMA HeaderIsNumber ==
  ASSUME BookFits, NEW o \in DOMAIN book
  PROVE  HeaderRevenue(o) \in Int /\ (BookIsSound => HeaderRevenue(o) >= 0)
<1>1. Amount(book[o].net) /\ book[o].total \in Int
  BY DEF BookFits, RowFits
<1>2. HeaderRevenue(o) \in Int
  BY <1>1, ValueOrTyped DEF HeaderRevenue
<1>3. ASSUME BookIsSound PROVE HeaderRevenue(o) >= 0
  BY <1>1, <1>3 DEF BookIsSound, RowIsSound, HeaderRevenue, ValueOr, The
<1> QED
  BY <1>2, <1>3

(* What the headers of some orders state, each for itself.                 *)
LEMMA HeaderValuesFit ==
  ASSUME BookFits, NEW orders \in SUBSET DOMAIN book
  PROVE  /\ DOMAIN HeaderOrderValues(orders) = orders
         /\ \A o \in orders : /\ AmountsFit(HeaderOrderValues(orders)[o])
                              /\ HeaderOrderValues(orders)[o].current = HeaderRevenue(o)
                              /\ HeaderOrderValues(orders)[o] = HeaderOrderValues({o})[o]
<1>1. DOMAIN HeaderOrderValues(orders) = orders
  BY DEF HeaderOrderValues
<1>2. ASSUME NEW o \in orders
      PROVE  /\ AmountsFit(HeaderOrderValues(orders)[o])
             /\ HeaderOrderValues(orders)[o].current = HeaderRevenue(o)
             /\ HeaderOrderValues(orders)[o] = HeaderOrderValues({o})[o]
  <2>1. PICK v : v = HeaderOrderValues(orders)[o]
    OBVIOUS
  <2>2. /\ v.current = HeaderRevenue(o) /\ v.items = book[o].itemCount
        /\ v.discount = ValueOr(book[o].discountValue, book[o].discount)
    BY <2>1 DEF HeaderOrderValues
  <2>3. v.discount \in Int
    BY <2>2, ValueOrTyped DEF BookFits, RowFits
  <2>4. v.items \in Int
    BY <2>2 DEF BookFits, RowFits
  <2>5. v = HeaderOrderValues({o})[o]
    BY <2>1 DEF HeaderOrderValues
  <2> QED
    BY <2>1, <2>2, <2>3, <2>4, <2>5, HeaderIsNumber DEF AmountsFit
<1> QED
  BY <1>1, <1>2

LinesUnder(o, f) == Counting({o}, f, ProductScoped(f))

CurrentIs(V, orders, f) ==
  /\ DOMAIN V = {o \in orders : LinesUnder(o, f) # {}}
  /\ \A o \in DOMAIN V :
       /\ AmountsFit(V[o])
       /\ V[o].current = LinesValue(LinesUnder(o, f))
       /\ V[o].items = LinesQuantity(LinesUnder(o, f))
       /\ V[o].discount = LinesDiscount(LinesUnder(o, f))
       /\ V[o] = CurrentOrderValues({o}, f)[o]

(* What the lines of some orders state, each for itself.                   *)
LEMMA CurrentValuesFit ==
  ASSUME BookFits, NEW orders \in SUBSET DOMAIN book, NEW f
  PROVE  CurrentIs(CurrentOrderValues(orders, f), orders, f)
<1>1. DOMAIN CurrentOrderValues(orders, f) = {o \in orders : LinesUnder(o, f) # {}}
  BY DEF CurrentOrderValues, LinesUnder, Counting
<1>2. ASSUME NEW o \in DOMAIN CurrentOrderValues(orders, f)
      PROVE  /\ AmountsFit(CurrentOrderValues(orders, f)[o])
             /\ CurrentOrderValues(orders, f)[o].current = LinesValue(LinesUnder(o, f))
             /\ CurrentOrderValues(orders, f)[o].items = LinesQuantity(LinesUnder(o, f))
             /\ CurrentOrderValues(orders, f)[o].discount = LinesDiscount(LinesUnder(o, f))
             /\ CurrentOrderValues(orders, f)[o] = CurrentOrderValues({o}, f)[o]
  <2>1. o \in orders /\ {o} \in SUBSET DOMAIN book
    BY <1>1
  <2>2. PICK v : v = CurrentOrderValues(orders, f)[o]
    OBVIOUS
  <2>3. /\ v.current = LinesValue(LinesUnder(o, f)) /\ v.items = LinesQuantity(LinesUnder(o, f))
        /\ v.discount = LinesDiscount(LinesUnder(o, f))
    BY <1>2, <2>2 DEF CurrentOrderValues, LinesUnder, Counting
  <2>4. v = CurrentOrderValues({o}, f)[o]
    BY <1>2, <2>2 DEF CurrentOrderValues
  <2>5. LinesUnder(o, f) \in SUBSET LinesOf({o})
    BY <2>1, CountingFinite DEF LinesUnder
  <2>6. AmountsFit(v)
    BY <2>1, <2>3, <2>5, LinesSums DEF AmountsFit
  <2> QED
    BY <2>2, <2>3, <2>4, <2>6
<1> QED
  BY <1>1, <1>2 DEF CurrentIs

(* A filter for products finds orders with a line of them.                 *)
LEMMA FoundHaveLines ==
  ASSUME NEW f, NEW bounds, NEW o \in Matching(f, bounds), ProductScoped(f)
  PROVE  ProductLines({o}, f) # {}
<1>1. PICK i \in DOMAIN book[o].items :
        ~book[o].items[i].excluded /\ \E good \in book[o].items[i].good : ChosenProduct(good, f)
  BY DEF Matching, order_conditions
<1>2. <<o, i>> \in LinesOf({o}) /\ Line(<<o, i>>) = book[o].items[i]
  BY <1>1 DEF LinesOf, Line
<1> QED
  BY <1>1, <1>2 DEF ProductLines

ValuesOn(V, orders, f) ==
  /\ orders \in SUBSET DOMAIN book /\ IsFiniteSet(orders) /\ DOMAIN V = orders
  /\ \A o \in orders : /\ AmountsFit(V[o]) /\ V[o].current = Earned(o, f)
                       /\ V[o] = AnalyticOrderValues({o}, f)[o]

(* The values of the orders a filter finds are theirs, whatever other      *)
(* orders they are asked for with.                                         *)
LEMMA ValuesFit ==
  ASSUME BookFits, NEW f, NEW bounds, NEW orders \in SUBSET Matching(f, bounds)
  PROVE  ValuesOn(AnalyticOrderValues(orders, f), orders, f)
<1>1. orders \in SUBSET DOMAIN book
  BY DEF Matching
<1>2. IsFiniteSet(orders)
  BY <1>1, OrdersFinite
<1>3. CASE ProductScoped(f)
  <2>1. \A o \in orders : LinesUnder(o, f) # {} /\ LinesUnder(o, f) = ProductLines({o}, f)
    BY <1>3, FoundHaveLines DEF LinesUnder, Counting
  <2>2. PICK V : V = CurrentOrderValues(orders, f)
    OBVIOUS
  <2>3. CurrentIs(V, orders, f)
    BY <1>1, <2>2, CurrentValuesFit
  <2>4. \A g : AnalyticOrderValues(g, f) = CurrentOrderValues(g, f)
    BY <1>3 DEF AnalyticOrderValues
  <2>5. \A o \in orders : Earned(o, f) = LinesValue(LinesUnder(o, f))
    BY <1>3, <2>1 DEF Earned
  <2>6. DOMAIN V = orders
    BY <2>1, <2>3 DEF CurrentIs
  <2>7. \A o \in orders : AmountsFit(V[o]) /\ V[o].current = LinesValue(LinesUnder(o, f))
    BY <2>3, <2>6 DEF CurrentIs
  <2>8. \A o \in orders : V[o] = CurrentOrderValues({o}, f)[o]
    BY <2>3, <2>6 DEF CurrentIs
  <2> QED
    BY <1>1, <1>2, <2>2, <2>4, <2>5, <2>6, <2>7, <2>8 DEF ValuesOn
<1>4. CASE ~ProductScoped(f)
  <2>1. \A g : AnalyticOrderValues(g, f) = HeaderOrderValues(g)
    BY <1>4 DEF AnalyticOrderValues
  <2>2. \A o \in orders : Earned(o, f) = HeaderRevenue(o)
    BY <1>4 DEF Earned
  <2> QED
    BY <1>1, <1>2, <2>1, <2>2, HeaderValuesFit DEF ValuesOn
<1> QED
  BY <1>3, <1>4

(* Sales and cancellations are among the orders found.                     *)
LEMMA SalesAreFound ==
  ASSUME NEW f, NEW bounds
  PROVE  /\ SalesIn(f, bounds) \in SUBSET Matching(f, bounds)
         /\ Cancelled(f, bounds) \in SUBSET Matching(f, bounds)
         /\ Matching(f, bounds) \in SUBSET DOMAIN book
BY DEF SalesIn, Cancelled, OfStatus, Matching

(* The calendar.                                                           *)
LEMMA MonthStartGrows ==
  ASSUME NEW a \in Int, NEW b \in Int, a <= b
  PROVE  MonthStart(a) \in Int /\ MonthStart(a) <= MonthStart(b)
BY DEF MonthStart

(* A day lies in its month.                                                *)
LEMMA MonthBegins ==
  ASSUME NEW day \in Int
  PROVE  MonthOf(day) \in Int /\ MonthStart(MonthOf(day)) <= day /\ day < MonthStart(MonthOf(day) + 1)
<1>1. PICK q \in Int, r \in 0..6 : day = 7 * q + r /\ day \div 7 = q /\ day % 7 = r
  OBVIOUS
<1>2. PICK e \in {0, 1} : e = IF r >= 4 THEN 1 ELSE 0
  OBVIOUS
<1>3. MonthOf(day) = 2 * q + e
  BY <1>1, <1>2 DEF MonthOf
<1>4. (2 * q + e) \div 2 = q /\ (2 * q + e) % 2 = e
  BY <1>2
<1>5. MonthStart(2 * q + e) = 7 * q + 4 * e
  BY <1>4 DEF MonthStart
<1>6. MonthStart(2 * q + e + 1) = IF e = 0 THEN 7 * q + 4 ELSE 7 * q + 7
  BY <1>2 DEF MonthStart
<1> QED
  BY <1>1, <1>2, <1>3, <1>5, <1>6

(* The bucket of a day does not begin after it.                            *)
LEMMA BucketBegins ==
  ASSUME NEW day \in Int, NEW granularity
  PROVE  FloorBucket(day, granularity) \in Int /\ FloorBucket(day, granularity) <= day
<1>1. PICK m \in Int : m = MonthOf(day) /\ MonthStart(m) <= day
  BY MonthBegins
<1>2. 3 * (m \div 3) \in Int /\ 3 * (m \div 3) <= m /\ 12 * (m \div 12) \in Int /\ 12 * (m \div 12) <= m
  OBVIOUS
<1>3. MonthStart(m) \in Int
  BY MonthStartGrows
<1>4. MonthStart(3 * (m \div 3)) \in Int /\ MonthStart(3 * (m \div 3)) <= MonthStart(m)
  BY <1>2, MonthStartGrows
<1>5. MonthStart(12 * (m \div 12)) \in Int /\ MonthStart(12 * (m \div 12)) <= MonthStart(m)
  BY <1>2, MonthStartGrows
<1>6. YearStart(day) \in Int /\ YearStart(day) <= day
  BY <1>1, <1>3, <1>5 DEF YearStart
<1>7. MonthStart(3 * (m \div 3)) <= day
  BY <1>1, <1>3, <1>4
<1>8. day - (day % 7) \in Int /\ day - (day % 7) <= day
  OBVIOUS
<1> QED
  BY <1>1, <1>3, <1>4, <1>6, <1>7, <1>8 DEF FloorBucket

(* The key figures of the period.                                          *)
LEMMA FiguresAre ==
  ASSUME NEW f, NEW bounds
  PROVE  LET V == AnalyticOrderValues(SalesIn(f, bounds), f)
             total == summary_for_bounds(f, bounds)
         IN /\ total.orders = Cardinality(DOMAIN V) /\ total.netRevenue = NetOf(V)
            /\ total.discountTotal = SumOver(DOMAIN V, LAMBDA o : V[o].discount)
            /\ total.customers = Cardinality(BuyersOf(DOMAIN V))
            /\ total.items = SumOver(DOMAIN V, LAMBDA o : V[o].items)
            /\ total.cancellations = Cardinality(Cancelled(f, bounds))
            /\ total.allOrders = Cardinality(Matching(f, bounds))
BY DEF summary_for_bounds, Totals, CancelledTotals, Joined

(* The buyers of some orders are finitely many.                            *)
LEMMA BuyersFinite ==
  ASSUME BookFits, NEW orders \in SUBSET DOMAIN book
  PROVE  IsFiniteSet(BuyersOf(orders))
<1>1. PICK k : k = [o \in orders |-> book[o].buyer]
  OBVIOUS
<1>2. IsFiniteSet(KeysOf(k, orders))
  BY <1>1, OrdersFinite, KeysFinite
<1>3. BuyersOf(orders) = UNION KeysOf(k, orders)
  BY <1>1 DEF BuyersOf, KeysOf
<1>4. ASSUME NEW o \in orders PROVE IsFiniteSet(k[o])
  <2>1. Column(k[o])
    BY <1>1 DEF BookFits, RowFits
  <2>2. k[o] = {} \/ \E x : k[o] = {x}
    BY <2>1 DEF Column
  <2> QED
    BY <2>2, FS_EmptySet, FS_Singleton
<1>5. \A T \in KeysOf(k, orders) : IsFiniteSet(T)
  BY <1>4 DEF KeysOf
<1> QED
  BY <1>2, <1>3, <1>5, FS_UNION

(* Fewer orders have fewer buyers.                                         *)
LEMMA FewerBuyers ==
  ASSUME BookFits, NEW orders \in SUBSET DOMAIN book, NEW some \in SUBSET orders
  PROVE  /\ Cardinality(BuyersOf(some)) <= Cardinality(BuyersOf(orders))
         /\ Cardinality(BuyersOf(some)) \in Nat
<1>1. IsFiniteSet(BuyersOf(orders)) /\ BuyersOf(some) \in SUBSET BuyersOf(orders)
  BY BuyersFinite DEF BuyersOf
<1> QED
  BY <1>1, FS_Subset, FS_CardinalityType

(* One row of a series stands for some of the sales.                       *)
RowOfSales(row, orders, V) ==
  /\ row.orders = Cardinality(orders) /\ row.customers = Cardinality(BuyersOf(orders))
  /\ row.revenue = SumFunction([o \in orders |-> V[o].current])
  /\ row.items = SumFunction([o \in orders |-> V[o].items])
  /\ row.discounts = SumFunction([o \in orders |-> V[o].discount])

(* The totals of a bucket stand for its sales.                             *)
LEMMA BucketIsRow ==
  ASSUME BookFits, NEW f, NEW bounds, NEW orders \in SUBSET SalesIn(f, bounds)
  PROVE  RowOfSales(BucketTotals(orders, f), orders, AnalyticOrderValues(SalesIn(f, bounds), f))
<1>1. PICK V : V = AnalyticOrderValues(SalesIn(f, bounds), f)
  OBVIOUS
<1>2. ValuesOn(V, SalesIn(f, bounds), f)
  BY <1>1, SalesAreFound, ValuesFit
<1>3. orders \in SUBSET DOMAIN book /\ orders \in SUBSET Matching(f, bounds)
  BY SalesAreFound
<1>4. PICK row : row = BucketTotals(orders, f)
  OBVIOUS
<1>5. CASE ~ProductScoped(f)
  <2>1. PICK W : W = HeaderOrderValues(orders)
    OBVIOUS
  <2>2. DOMAIN W = orders
    BY <2>1 DEF HeaderOrderValues
  <2>3. \A o \in orders : V[o] = W[o]
    BY <1>1, <1>5, <2>1 DEF AnalyticOrderValues, HeaderOrderValues
  <2>4. /\ row.orders = Cardinality(orders) /\ row.customers = Cardinality(BuyersOf(orders))
        /\ row.revenue = NetOf(W) /\ row.items = SumOver(orders, LAMBDA o : W[o].items)
        /\ row.discounts = SumOver(orders, LAMBDA o : W[o].discount)
    BY <1>4, <1>5, <2>1 DEF BucketTotals
  <2>5. /\ [o \in orders |-> W[o].items] = [o \in orders |-> V[o].items]
        /\ [o \in orders |-> W[o].discount] = [o \in orders |-> V[o].discount]
        /\ [o \in orders |-> W[o].current] = [o \in orders |-> V[o].current]
    BY <2>3
  <2> QED
    BY <1>1, <1>4, <2>2, <2>4, <2>5 DEF RowOfSales, NetOf, SumOver
<1>6. CASE ProductScoped(f)
  <2>1. PICK L : L = ProductLines(orders, f)
    OBVIOUS
  <2>2. {l[1] : l \in L} = orders
    <3>1. \A l \in L : l[1] \in orders
      BY <1>3, <2>1, ProductLinesAre, LineFitsIn
    <3>2. ASSUME NEW o \in orders PROVE \E l \in L : l[1] = o
      <4>1. PICK l : l \in ProductLines({o}, f)
        BY <1>3, <1>6, FoundHaveLines
      <4>2. l \in L /\ l[1] = o
        BY <2>1, <4>1, LinesOfOne DEF Counting
      <4> QED
        BY <4>2
    <3> QED
      BY <3>1, <3>2
  <2>3. /\ row.orders = Cardinality(orders) /\ row.customers = Cardinality(BuyersOf(orders))
        /\ row.revenue = LinesValue(L) /\ row.items = LinesQuantity(L)
        /\ row.discounts = LinesDiscount(L)
    BY <1>4, <1>6, <2>1, <2>2 DEF BucketTotals
  <2>4. CurrentIs(V, SalesIn(f, bounds), f)
    BY <1>1, <1>6, SalesAreFound, CurrentValuesFit DEF AnalyticOrderValues
  <2>5. \A o \in orders : /\ V[o].current = LinesValue(Counting({o}, f, TRUE))
                          /\ V[o].items = LinesQuantity(Counting({o}, f, TRUE))
                          /\ V[o].discount = LinesDiscount(Counting({o}, f, TRUE))
    <3>1. \A o \in orders : o \in DOMAIN V
      BY <1>2 DEF ValuesOn
    <3>2. \A o \in orders : /\ V[o].current = LinesValue(LinesUnder(o, f))
                            /\ V[o].items = LinesQuantity(LinesUnder(o, f))
                            /\ V[o].discount = LinesDiscount(LinesUnder(o, f))
      BY <2>4, <3>1 DEF CurrentIs
    <3> QED
      BY <1>6, <3>2 DEF LinesUnder, Counting
  <2>6. L = Counting(orders, f, TRUE)
    BY <2>1 DEF Counting
  <2>7. /\ SumFunction([o \in orders |-> LinesValue(Counting({o}, f, TRUE))]) = LinesValue(L)
        /\ SumFunction([o \in orders |-> LinesQuantity(Counting({o}, f, TRUE))]) = LinesQuantity(L)
        /\ SumFunction([o \in orders |-> LinesDiscount(Counting({o}, f, TRUE))]) = LinesDiscount(L)
    BY <1>3, <2>6, LinesByOrder
  <2>8. /\ [o \in orders |-> V[o].current] = [o \in orders |-> LinesValue(Counting({o}, f, TRUE))]
        /\ [o \in orders |-> V[o].items] = [o \in orders |-> LinesQuantity(Counting({o}, f, TRUE))]
        /\ [o \in orders |-> V[o].discount] = [o \in orders |-> LinesDiscount(Counting({o}, f, TRUE))]
    BY <2>5
  <2> QED
    BY <1>1, <1>4, <2>3, <2>7, <2>8 DEF RowOfSales
<1> QED
  BY <1>5, <1>6

(* A series has a row for some buckets, which stands for their sales and    *)
(* cancellations; of the others it has none, or an empty one.               *)
BucketsOf(orders, f) == [o \in orders |-> FloorBucket(book[o].day, f.granularity)]

SeriesOf(series, f, bounds) ==
  LET S == SalesIn(f, bounds)
      k == BucketsOf(S, f)
      V == AnalyticOrderValues(S, f)
  IN /\ KeysOf(k, S) \in SUBSET DOMAIN series /\ IsFiniteSet(DOMAIN series)
     /\ \A b \in KeysOf(k, S) :
          /\ RowOfSales(series[b], ClassOf(k, S, b), V)
          /\ series[b].cancellations = Cardinality(InBucket(Cancelled(f, bounds), b, f))
     /\ \A b \in DOMAIN series \ KeysOf(k, S) : series[b] = EmptyBucket

(* The series without its empty buckets has one row for each bucket with   *)
(* a sale.                                                                 *)
LEMMA SparseSeries ==
  ASSUME BookFits, NEW f, NEW bounds
  PROVE  /\ DOMAIN timeseries_items(f, bounds)
              = KeysOf(BucketsOf(SalesIn(f, bounds), f), SalesIn(f, bounds))
         /\ SeriesOf(timeseries_items(f, bounds), f, bounds)
<1>1. PICK S : S = SalesIn(f, bounds)
  OBVIOUS
<1>2. PICK k : k = BucketsOf(S, f)
  OBVIOUS
<1>3. PICK series : series = timeseries_items(f, bounds)
  OBVIOUS
<1>4. S \in SUBSET DOMAIN book
  BY <1>1, SalesAreFound
<1>5. DOMAIN k = S /\ k = [o \in S |-> FloorBucket(book[o].day, f.granularity)]
  BY <1>2 DEF BucketsOf
<1>6. DOMAIN series = KeysOf(k, S)
  BY <1>1, <1>3, <1>5 DEF timeseries_items, KeysOf
<1>7. IsFiniteSet(KeysOf(k, S))
  BY <1>4, <1>5, OrdersFinite, KeysFinite
<1>8. ASSUME NEW b \in KeysOf(k, S)
      PROVE  /\ RowOfSales(series[b], ClassOf(k, S, b), AnalyticOrderValues(S, f))
             /\ series[b].cancellations = Cardinality(InBucket(Cancelled(f, bounds), b, f))
  <2>1. InBucket(S, b, f) = ClassOf(k, S, b) /\ ClassOf(k, S, b) \in SUBSET S
    BY <1>5 DEF InBucket, ClassOf
  <2>2. PICK row : row = BucketTotals(ClassOf(k, S, b), f)
    OBVIOUS
  <2>3. RowOfSales(row, ClassOf(k, S, b), AnalyticOrderValues(S, f))
    BY <1>1, <2>1, <2>2, BucketIsRow
  <2>4. DOMAIN row = {"orders", "customers", "revenue", "items", "discounts"}
    BY <2>2 DEF BucketTotals
  <2>5. series[b] = Joined(row, [cancellations |-> Cardinality(InBucket(Cancelled(f, bounds), b, f))])
    BY <1>1, <1>3, <1>5, <2>1, <2>2, <1>8 DEF timeseries_items, KeysOf
  <2>6. /\ series[b].orders = row.orders /\ series[b].customers = row.customers
        /\ series[b].revenue = row.revenue /\ series[b].items = row.items
        /\ series[b].discounts = row.discounts
        /\ series[b].cancellations = Cardinality(InBucket(Cancelled(f, bounds), b, f))
    BY <2>4, <2>5 DEF Joined
  <2> QED
    BY <2>3, <2>6 DEF RowOfSales
<1> QED
  BY <1>1, <1>2, <1>3, <1>6, <1>7, <1>8 DEF SeriesOf

(* The bounds of the period are days, or absent.                           *)
LEMMA PeriodTyped ==
  ASSUME BookFits, NEW f, Amount(f.dateFrom), Amount(f.dateTo)
  PROVE  Amount(date_bounds(f)[1]) /\ Amount(date_bounds(f)[2])
<1>1. today \in Int
  BY MirrorConstants DEF BookFits
<1>2. \A period \in DOMAIN PERIOD_DAYS : Now - PERIOD_DAYS[period] \in Int
  BY <1>1, CatalogueTyped DEF Now
<1>3. YearStart(today) \in Int
  <2>1. FloorBucket(today, "year") \in Int
    BY <1>1, BucketBegins
  <2> QED
    BY <2>1 DEF FloorBucket
<1>4. \A x \in Int : Amount({x})
  BY DEF Amount, Column
<1>5. Amount({})
  BY DEF Amount, Column
<1>6. Amount(date_bounds(f)[1])
  BY <1>2, <1>3, <1>4, <1>5 DEF date_bounds, Coalesce
<1>7. Amount({d + 1 : d \in f.dateTo})
  BY DEF Amount, Column
<1> QED
  BY <1>6, <1>7 DEF date_bounds

(* The series that fills the empty buckets in stands for the same sales.   *)
LEMMA DenseSeries ==
  ASSUME BookFits, NEW f, Amount(f.dateFrom), Amount(f.dateTo)
  PROVE  SeriesOf(timeseries(f), f, date_bounds(f))
<1>1. PICK bounds : bounds = date_bounds(f)
  OBVIOUS
<1>2. PICK S : S = SalesIn(f, bounds)
  OBVIOUS
<1>3. PICK items : items = timeseries_items(f, bounds)
  OBVIOUS
<1>4. PICK K : K = KeysOf(BucketsOf(S, f), S)
  OBVIOUS
<1>5. DOMAIN items = K /\ SeriesOf(items, f, bounds)
  BY <1>2, <1>3, <1>4, SparseSeries
<1>6. CASE bounds[1] = {} \/ bounds[2] = {}
  BY <1>1, <1>3, <1>5, <1>6 DEF timeseries, dense_timeseries
<1>7. CASE bounds[1] # {} /\ bounds[2] # {}
  <2>1. Amount(bounds[1]) /\ Amount(bounds[2])
    BY <1>1, PeriodTyped
  <2>2. PICK from \in Int : from \in bounds[1] /\ from = The(bounds[1])
    BY <1>7, <2>1 DEF Amount, The
  <2>3. PICK to \in Int : to \in bounds[2] /\ to = The(bounds[2])
    BY <1>7, <2>1 DEF Amount, The
  <2>4. PICK start \in Int : start = FloorBucket(from, f.granularity) /\ start <= from
    BY BucketBegins
  <2>5. PICK k : k = [day \in start..to - 1 |-> FloorBucket(day, f.granularity)]
    OBVIOUS
  <2>6. PICK D : D = KeysOf(k, start..to - 1)
    OBVIOUS
  <2>7. IsFiniteSet(start..to - 1)
    BY FS_Interval
  <2>8. IsFiniteSet(D)
    BY <2>5, <2>6, <2>7, KeysFinite
  <2>9. D = {FloorBucket(day, f.granularity) : day \in start..to - 1}
    BY <2>5, <2>6 DEF KeysOf
  <2>10. PICK series : series = timeseries(f)
    OBVIOUS
  <2>11. series = [b \in D |-> IF b \in K THEN items[b] ELSE EmptyBucket]
    BY <1>1, <1>3, <1>5, <1>7, <2>2, <2>3, <2>4, <2>9, <2>10 DEF timeseries, dense_timeseries
  <2>12. K \subseteq D
    <3>1. ASSUME NEW o \in S PROVE FloorBucket(book[o].day, f.granularity) \in D
      <4>1. book[o].day \in Int
        BY <1>2, SalesAreFound DEF BookFits, RowFits
      <4>2. book[o].day >= from /\ book[o].day < to
        BY <1>2, <2>2, <2>3 DEF SalesIn, OfStatus, Matching, order_conditions, Within
      <4>3. book[o].day \in start..to - 1
        BY <2>4, <4>1, <4>2
      <4> QED
        BY <2>9, <4>3
    <3> QED
      BY <1>4, <3>1 DEF KeysOf, BucketsOf
  <2>13. /\ DOMAIN series = D
         /\ \A b \in K : series[b] = items[b]
         /\ \A b \in D \ K : series[b] = EmptyBucket
    BY <2>11, <2>12
  <2>14. SeriesOf(series, f, bounds)
    BY <1>2, <1>4, <1>5, <2>8, <2>12, <2>13 DEF SeriesOf
  <2> QED
    BY <1>1, <2>10, <2>14
<1> QED
  BY <1>6, <1>7

(* The sum over the rows is the sum over the sales, row by row.            *)
LEMMA SeriesSum ==
  ASSUME NEW S, IsFiniteSet(S), NEW f \in [S -> Int], NEW k, DOMAIN k = S, k = [x \in S |-> k[x]],
         NEW D, IsFiniteSet(D), NEW K \in SUBSET D, K = KeysOf(k, S), NEW g, g = [b \in D |-> g[b]],
         \A b \in K : g[b] = SumFunction(Part(f, ClassOf(k, S, b))),
         \A b \in D \ K : g[b] = 0
  PROVE  SumFunction(g) = SumFunction(f)
<1>2. ASSUME NEW b \in K PROVE g[b] \in Int
  <2>1. PICK T \in SUBSET S : T = ClassOf(k, S, b)
    BY DEF ClassOf
  <2>2. SumFunction(Part(f, T)) \in Int
    BY SumOfParts
  <2> QED
    BY <2>1, <2>2
<1>3. g \in [D -> Int]
  BY <1>2
<1>4. SumFunction(g) = SumFunction(Over(g, K))
  BY <1>3, SumOfPart
<1>5. PICK h : h = Over(g, K)
  OBVIOUS
<1>6. h = [v \in K |-> h[v]] /\ \A v \in K : h[v] = SumFunction(Part(f, ClassOf(k, S, v)))
  BY <1>5 DEF Over
<1>7. SumFunction(h) = SumFunction(f)
  BY <1>6, SumByGroups
<1> QED
  BY <1>4, <1>5, <1>7

(* A series adds up to the key figures.                                    *)
LEMMA SeriesDoesAddUp ==
  ASSUME BookFits, NEW f, NEW bounds, NEW series, SeriesOf(series, f, bounds),
         series = [b \in DOMAIN series |-> series[b]]
  PROVE  SeriesAddsUp(series, summary_for_bounds(f, bounds))
<1>1. PICK S : S = SalesIn(f, bounds)
  OBVIOUS
<1>2. PICK V : V = AnalyticOrderValues(S, f)
  OBVIOUS
<1>3. PICK k : k = BucketsOf(S, f)
  OBVIOUS
<1>4. PICK C : C = Cancelled(f, bounds)
  OBVIOUS
<1>5. PICK total : total = summary_for_bounds(f, bounds)
  OBVIOUS
<1>6. ValuesOn(V, S, f)
  BY <1>1, <1>2, SalesAreFound, ValuesFit
<1>7. IsFiniteSet(S) /\ S \in SUBSET DOMAIN book /\ DOMAIN V = S
  BY <1>6 DEF ValuesOn
<1>8. C \in SUBSET DOMAIN book /\ IsFiniteSet(C)
  <2>1. C \in SUBSET DOMAIN book
    BY <1>4, SalesAreFound
  <2> QED
    BY <2>1, OrdersFinite
<1>9. /\ total.orders = Cardinality(S) /\ total.netRevenue = SumFunction([o \in S |-> V[o].current])
      /\ total.discountTotal = SumFunction([o \in S |-> V[o].discount])
      /\ total.customers = Cardinality(BuyersOf(S))
      /\ total.items = SumFunction([o \in S |-> V[o].items])
      /\ total.cancellations = Cardinality(C)
  BY <1>1, <1>2, <1>4, <1>5, <1>7, FiguresAre DEF NetOf, SumOver
<1>10. DOMAIN k = S /\ k = [o \in S |-> k[o]]
  BY <1>3 DEF BucketsOf
<1>11. PICK D : D = DOMAIN series
  OBVIOUS
<1>12. PICK K : K = KeysOf(k, S)
  OBVIOUS
<1>13. /\ K \in SUBSET D /\ IsFiniteSet(D)
       /\ \A b \in K : /\ RowOfSales(series[b], ClassOf(k, S, b), V)
                       /\ series[b].cancellations = Cardinality(InBucket(C, b, f))
       /\ \A b \in D \ K : series[b] = EmptyBucket
  BY <1>1, <1>2, <1>3, <1>4, <1>11, <1>12 DEF SeriesOf
<1>14. \A b \in D \ K : /\ series[b].orders = 0 /\ series[b].revenue = 0 /\ series[b].items = 0
                        /\ series[b].discounts = 0 /\ series[b].cancellations = 0
                        /\ series[b].customers = 0
  BY <1>13 DEF EmptyBucket
<1>15. \A o \in S : V[o].current \in Int /\ V[o].items \in Int /\ V[o].discount \in Int
  BY <1>6 DEF ValuesOn, AmountsFit
<1>16. \A b \in K : ClassOf(k, S, b) \in SUBSET S
  BY DEF ClassOf
<1>17. SumFunction([b \in D |-> series[b].revenue]) = total.netRevenue
  <2>1. PICK e \in [S -> Int] : e = [o \in S |-> V[o].current]
    BY <1>15
  <2>2. PICK g : g = [b \in D |-> series[b].revenue]
    OBVIOUS
  <2>3. \A b \in K : [o \in ClassOf(k, S, b) |-> V[o].current] = Part(e, ClassOf(k, S, b))
    BY <1>16, <2>1 DEF Part
  <2>4. \A b \in K : g[b] = SumFunction(Part(e, ClassOf(k, S, b)))
    BY <1>13, <2>2, <2>3 DEF RowOfSales
  <2>5. \A b \in D \ K : g[b] = 0
    BY <1>14, <2>2
  <2>6. g = [b \in D |-> g[b]]
    BY <2>2
  <2>7. SumFunction(g) = SumFunction(e)
    BY <1>7, <1>10, <1>12, <1>13, <2>4, <2>5, <2>6, SeriesSum
  <2> QED
    BY <1>9, <2>1, <2>2, <2>7
<1>18. SumFunction([b \in D |-> series[b].items]) = total.items
  <2>1. PICK e \in [S -> Int] : e = [o \in S |-> V[o].items]
    BY <1>15
  <2>2. PICK g : g = [b \in D |-> series[b].items]
    OBVIOUS
  <2>3. \A b \in K : [o \in ClassOf(k, S, b) |-> V[o].items] = Part(e, ClassOf(k, S, b))
    BY <1>16, <2>1 DEF Part
  <2>4. \A b \in K : g[b] = SumFunction(Part(e, ClassOf(k, S, b)))
    BY <1>13, <2>2, <2>3 DEF RowOfSales
  <2>5. \A b \in D \ K : g[b] = 0
    BY <1>14, <2>2
  <2>6. g = [b \in D |-> g[b]]
    BY <2>2
  <2>7. SumFunction(g) = SumFunction(e)
    BY <1>7, <1>10, <1>12, <1>13, <2>4, <2>5, <2>6, SeriesSum
  <2> QED
    BY <1>9, <2>1, <2>2, <2>7
<1>19. SumFunction([b \in D |-> series[b].discounts]) = total.discountTotal
  <2>1. PICK e \in [S -> Int] : e = [o \in S |-> V[o].discount]
    BY <1>15
  <2>2. PICK g : g = [b \in D |-> series[b].discounts]
    OBVIOUS
  <2>3. \A b \in K : [o \in ClassOf(k, S, b) |-> V[o].discount] = Part(e, ClassOf(k, S, b))
    BY <1>16, <2>1 DEF Part
  <2>4. \A b \in K : g[b] = SumFunction(Part(e, ClassOf(k, S, b)))
    BY <1>13, <2>2, <2>3 DEF RowOfSales
  <2>5. \A b \in D \ K : g[b] = 0
    BY <1>14, <2>2
  <2>6. g = [b \in D |-> g[b]]
    BY <2>2
  <2>7. SumFunction(g) = SumFunction(e)
    BY <1>7, <1>10, <1>12, <1>13, <2>4, <2>5, <2>6, SeriesSum
  <2> QED
    BY <1>9, <2>1, <2>2, <2>7
<1>20. SumFunction([b \in D |-> series[b].orders]) = total.orders
  <2>1. PICK e \in [S -> Int] : e = [o \in S |-> 1]
    <3>1. [o \in S |-> 1] \in [S -> Int]
      OBVIOUS
    <3> QED
      BY <3>1
  <2>2. PICK g : g = [b \in D |-> series[b].orders]
    OBVIOUS
  <2>3. ASSUME NEW b \in K PROVE g[b] = SumFunction(Part(e, ClassOf(k, S, b)))
    <3>1. PICK T \in SUBSET S : T = ClassOf(k, S, b)
      BY <1>16
    <3>2. IsFiniteSet(T)
      BY <1>7, FS_Subset
    <3>3. Part(e, T) = [x \in T |-> 1]
      BY <2>1 DEF Part
    <3>4. SumFunction(Part(e, T)) = Cardinality(T)
      BY <3>2, <3>3, CountIsSumOfOnes
    <3> QED
      BY <1>13, <2>2, <3>1, <3>4 DEF RowOfSales
  <2>5. \A b \in D \ K : g[b] = 0
    BY <1>14, <2>2
  <2>6. g = [b \in D |-> g[b]]
    BY <2>2
  <2>7. SumFunction(g) = SumFunction(e)
    BY <1>7, <1>10, <1>12, <1>13, <2>3, <2>5, <2>6, SeriesSum
  <2>8. SumFunction(e) = Cardinality(S)
    BY <1>7, <2>1, CountIsSumOfOnes
  <2> QED
    BY <1>9, <2>2, <2>7, <2>8
<1>21. SumFunction([b \in D |-> series[b].cancellations]) <= total.cancellations
  <2>1. PICK U \in SUBSET C : U = {o \in C : FloorBucket(book[o].day, f.granularity) \in K}
    OBVIOUS
  <2>2. IsFiniteSet(U) /\ Cardinality(U) <= Cardinality(C)
    BY <1>8, FS_Subset
  <2>3. PICK u \in [U -> K] : u = [o \in U |-> FloorBucket(book[o].day, f.granularity)]
    BY <2>1
  <2>4. IsFiniteSet(K)
    BY <1>13, FS_Subset
  <2>5. SumFunction([b \in K |-> Cardinality(ClassOf(u, U, b))]) = Cardinality(U)
    BY <2>2, <2>4, CountInClasses
  <2>6. PICK g : g = [b \in D |-> series[b].cancellations]
    OBVIOUS
  <2>7. ASSUME NEW b \in K PROVE g[b] = Cardinality(ClassOf(u, U, b)) /\ g[b] \in Int
    <3>1. InBucket(C, b, f) = ClassOf(u, U, b)
      BY <2>1, <2>3 DEF InBucket, ClassOf
    <3>2. ClassOf(u, U, b) \in SUBSET U
      BY DEF ClassOf
    <3>3. Cardinality(ClassOf(u, U, b)) \in Int
      BY <2>2, <3>2, FS_Subset, FS_CardinalityType
    <3> QED
      BY <1>13, <2>6, <3>1, <3>3
  <2>8. \A b \in D \ K : g[b] = 0
    BY <1>14, <2>6
  <2>9. g \in [D -> Int]
    BY <2>6, <2>7, <2>8
  <2>10. SumFunction(g) = SumFunction(Over(g, K))
    BY <1>13, <2>8, <2>9, SumOfPart
  <2>11. Over(g, K) = [b \in K |-> Cardinality(ClassOf(u, U, b))]
    BY <2>7 DEF Over
  <2> QED
    BY <1>9, <2>2, <2>5, <2>6, <2>10, <2>11
<1>22. \A b \in D : series[b].customers <= total.customers
  <2>1. \A b \in K : series[b].customers = Cardinality(BuyersOf(ClassOf(k, S, b)))
    BY <1>13 DEF RowOfSales
  <2>2. \A b \in K : Cardinality(BuyersOf(ClassOf(k, S, b))) <= Cardinality(BuyersOf(S))
    BY <1>7, <1>16, FewerBuyers
  <2>3. Cardinality(BuyersOf(S)) \in Nat
    BY <1>7, FewerBuyers
  <2> QED
    BY <1>9, <1>13, <1>14, <2>1, <2>2, <2>3
<1> QED
  BY <1>5, <1>11, <1>17, <1>18, <1>19, <1>20, <1>21, <1>22 DEF SeriesAddsUp, Field, SumOver

(* New and returning buyers are the buyers of the period.                  *)
LEMMA MixDoesAddUp ==
  ASSUME BookFits, NEW f
  PROVE  MixAddsUp(f, summary_for_bounds(f, date_bounds(f)), buyer_mix(f, date_bounds(f)))
<1>1. PICK bounds : bounds = date_bounds(f)
  OBVIOUS
<1>2. PICK S : S = SalesIn(f, bounds)
  OBVIOUS
<1>3. PICK A : A = BuyersOf(S)
  OBVIOUS
<1>4. PICK B : B = BuyersOf(SalesIn(f, <<{}, bounds[1]>>))
  OBVIOUS
<1>5. IsFiniteSet(A)
  BY <1>2, <1>3, SalesAreFound, BuyersFinite
<1>6. IsFiniteSet(A \ B) /\ IsFiniteSet(A \cap B) /\ (A \ B) \cap (A \cap B) = {} /\ (A \ B) \cup (A \cap B) = A
  BY <1>5, FS_Subset
<1>7. Cardinality(A \ B) + Cardinality(A \cap B) = Cardinality(A)
  <2>1. Cardinality(A \ B) = Cardinality(A) - Cardinality(A \cap B)
    BY <1>5, FS_Difference
  <2>2. Cardinality(A) \in Nat /\ Cardinality(A \cap B) \in Nat
    BY <1>5, <1>6, FS_CardinalityType
  <2> QED
    BY <2>1, <2>2
<1>8. DOMAIN AnalyticOrderValues(S, f) = S
  BY <1>2, SalesAreFound, ValuesFit DEF ValuesOn
<1>9. summary_for_bounds(f, bounds).customers = Cardinality(A)
  BY <1>2, <1>3, <1>8, FiguresAre
<1>10. PeriodMix(f, bounds) = <<Cardinality(A \ B), Cardinality(A \cap B)>>
  BY <1>2, <1>3, <1>4 DEF PeriodMix
<1> QED
  BY <1>1, <1>7, <1>9, <1>10 DEF MixAddsUp, buyer_mix

(* The first day of a month is in it.                                      *)
LEMMA MonthOfStart ==
  ASSUME NEW m \in Int
  PROVE  MonthOf(MonthStart(m)) = m /\ MonthStart(m) \in Int /\ MonthLength(m) >= 1
<1>1. PICK q \in Int, r \in {0, 1} : m = 2 * q + r /\ m \div 2 = q /\ m % 2 = r
  <2>1. m = 2 * (m \div 2) + (m % 2) /\ m \div 2 \in Int /\ m % 2 \in 0..1
    OBVIOUS
  <2> QED
    BY <2>1
<1>2. MonthStart(m) = 7 * q + 4 * r
  BY <1>1 DEF MonthStart
<1>3. (7 * q + 4 * r) \div 7 = q /\ (7 * q + 4 * r) % 7 = 4 * r
  BY <1>1
<1>4. MonthOf(MonthStart(m)) = m
  BY <1>1, <1>2, <1>3 DEF MonthOf
<1>5. MonthStart(m + 1) \in Int /\ MonthStart(m) \in Int
  BY <1>1, MonthStartGrows
<1>6. MonthStart(m + 1) >= MonthStart(m) + 3
  <2>1. CASE r = 0
    <3>1. m + 1 = 2 * q + 1 /\ (m + 1) \div 2 = q /\ (m + 1) % 2 = 1
      BY <1>1, <2>1
    <3> QED
      BY <1>2, <2>1, <3>1 DEF MonthStart
  <2>2. CASE r = 1
    <3>1. (m + 1) \div 2 = q + 1 /\ (m + 1) % 2 = 0
      BY <1>1, <2>2
    <3> QED
      BY <1>2, <2>2, <3>1 DEF MonthStart
  <2> QED
    BY <2>1, <2>2
<1> QED
  BY <1>4, <1>5, <1>6 DEF MonthLength

(* A month before the first of a month is the first of the month before.   *)
LEMMA MonthBefore ==
  ASSUME NEW day \in Int, day = MonthStart(MonthOf(day))
  PROVE  ShiftMonths(day, -1) = MonthStart(MonthOf(day) - 1)
<1>1. PICK m \in Int : m = MonthOf(day)
  BY MonthBegins
<1>2. m + -1 = m - 1 /\ m - 1 \in Int
  OBVIOUS
<1>3. MonthLength(m - 1) >= 1 /\ MonthStart(m - 1) \in Int
  BY <1>2, MonthOfStart
<1>3a. MonthLength(m - 1) \in Int
  BY <1>2, MonthStartGrows DEF MonthLength
<1>4. day - MonthStart(m) = 0
  BY <1>1
<1>5. 0 < MonthLength(m - 1)
  BY <1>3, <1>3a
<1>6. ShiftMonths(day, -1) = MonthStart(m + -1) + 0
  BY <1>1, <1>2, <1>4, <1>5 DEF ShiftMonths
<1> QED
  BY <1>1, <1>2, <1>3, <1>6

(* The comparison of months begins where the month before ends.            *)
LEMMA MonthsDoMeet ==
  ASSUME BookFits, NEW f, Amount(f.dateFrom), Amount(f.dateTo)
  PROVE  MonthsMeet(f)
<1> DEFINE whole(bounds) == \A side \in {1, 2} : \E day \in bounds[side] : day = MonthStart(MonthOf(day))
           oneMonth(bounds) == MonthOf(The(bounds[2])) = MonthOf(The(bounds[1])) + 1
<1>1. PICK now : now = date_bounds(f)
  OBVIOUS
<1>2. Amount(now[1]) /\ Amount(now[2])
  BY <1>1, PeriodTyped
<1> SUFFICES ASSUME f.dateFrom # {}, whole(now), oneMonth(now)
             PROVE  /\ whole(previous_bounds(f)) /\ oneMonth(previous_bounds(f))
                    /\ previous_bounds(f)[2] = now[1]
  BY <1>1 DEF MonthsMeet
<1>3. PICK a \in Int : now[1] = {a} /\ a = MonthStart(MonthOf(a))
  BY <1>2 DEF Amount, Column
<1>4. PICK b \in Int : now[2] = {b} /\ b = MonthStart(MonthOf(b))
  BY <1>2 DEF Amount, Column
<1>5. \A x : The({x}) = x
  BY DEF The
<1>6. PICK m \in Int : m = MonthOf(a) /\ MonthOf(b) = m + 1 /\ a = MonthStart(m)
  BY <1>3, <1>4, <1>5, MonthBegins
<1>7. ShiftMonths(a, -1) = MonthStart(m - 1)
  BY <1>3, <1>6, MonthBefore
<1>8. ShiftMonths(b, -1) = a
  <2>1. m + 1 - 1 = m
    OBVIOUS
  <2> QED
    BY <1>4, <1>6, <2>1, MonthBefore
<1>9. ComparisonMonths(f) = -1
  BY DEF ComparisonMonths
<1>10. previous_bounds(f) = <<{MonthStart(m - 1)}, {a}>>
  BY <1>1, <1>3, <1>4, <1>5, <1>7, <1>8, <1>9 DEF previous_bounds, ValueOr
<1>11. MonthOf(MonthStart(m - 1)) = m - 1
  BY MonthOfStart
<1>12. PICK old : old = previous_bounds(f) /\ old[1] = {MonthStart(m - 1)} /\ old[2] = {a}
  BY <1>10
<1>13. whole(old)
  BY <1>3, <1>11, <1>12
<1>14. The(old[1]) = MonthStart(m - 1) /\ The(old[2]) = a
  <2>1. PICK start : start = MonthStart(m - 1)
    OBVIOUS
  <2>2. old[1] = {start}
    BY <1>12, <2>1
  <2> QED
    BY <1>5, <1>12, <2>1, <2>2
<1>15. oneMonth(old)
  <2>1. m = (m - 1) + 1
    OBVIOUS
  <2> QED
    BY <1>6, <1>11, <1>14, <2>1
<1> QED
  BY <1>3, <1>12, <1>13, <1>15

-----------------------------------------------------------------------------
(* The bands of value are a partition of the sales.                        *)
LEMMA BandsAddUp ==
  ASSUME NEW V, NEW S, S = DOMAIN V, IsFiniteSet(S), \A o \in S : V[o].current \in Int, NEW limits
  PROVE  /\ Field(Bands(V, limits), LAMBDA b : b.orders) = Cardinality(S)
         /\ Field(Bands(V, limits), LAMBDA b : b.value) = NetOf(V)
<1>1. PICK k : k = [o \in S |-> BandOf(V[o].current, limits)]
  OBVIOUS
<1>2. DOMAIN k = S /\ k = [o \in S |-> k[o]]
  BY <1>1
<1>3. PICK K : K = KeysOf(k, S)
  OBVIOUS
<1>4. PICK rows : rows = Bands(V, limits)
  OBVIOUS
<1>5. DOMAIN rows = K
  BY <1>1, <1>3, <1>4 DEF Bands, KeysOf
<1>6. ASSUME NEW b \in K
      PROVE  /\ rows[b].orders = Cardinality(ClassOf(k, S, b))
             /\ rows[b].value = SumFunction([o \in ClassOf(k, S, b) |-> V[o].current])
  <2>1. {o \in DOMAIN V : BandOf(V[o].current, limits) = b} = ClassOf(k, S, b)
    BY <1>1 DEF ClassOf
  <2> QED
    BY <1>4, <1>5, <2>1 DEF Bands, SumOver
<1>7. SumFunction([b \in K |-> rows[b].orders]) = Cardinality(S)
  <2>1. PICK g : g = [b \in K |-> rows[b].orders]
    OBVIOUS
  <2>2. g = [b \in KeysOf(k, S) |-> g[b]] /\ \A b \in KeysOf(k, S) : g[b] = Cardinality(ClassOf(k, S, b))
    BY <1>3, <1>6, <2>1
  <2>3. SumFunction(g) = Cardinality(S)
    BY <1>2, <2>2, CountByGroups
  <2> QED
    BY <2>1, <2>3
<1>8. SumFunction([b \in K |-> rows[b].value]) = NetOf(V)
  <2>1. PICK g : g = [b \in K |-> rows[b].value]
    OBVIOUS
  <2>2. PICK e \in [S -> Int] : e = [o \in S |-> V[o].current]
    OBVIOUS
  <2>3. \A b \in K : ClassOf(k, S, b) \subseteq S
    BY DEF ClassOf
  <2>4. \A b \in K : Part(e, ClassOf(k, S, b)) = [o \in ClassOf(k, S, b) |-> V[o].current]
    BY <2>2, <2>3 DEF Part
  <2>5. /\ g = [b \in KeysOf(k, S) |-> g[b]]
        /\ \A b \in KeysOf(k, S) : g[b] = SumFunction(Part(e, ClassOf(k, S, b)))
    BY <1>3, <1>6, <2>1, <2>4
  <2>6. SumFunction(g) = SumFunction(e)
    BY <1>2, <2>5, SumByGroups
  <2> QED
    BY <2>1, <2>2, <2>6 DEF NetOf, SumOver
<1> QED
  BY <1>4, <1>5, <1>7, <1>8 DEF Field, SumOver

(* The orders of some statuses, status by status.                          *)
StatusesIn(orders) == {book[o].status : o \in orders}
WorthOf(orders, v, statuses) == SumFunction([o \in OfStatus(orders, statuses) |-> v[o]])

(* The orders of some statuses, counted and valued status by status.       *)
LEMMA StatusesAddUp ==
  ASSUME NEW all, IsFiniteSet(all), NEW statuses, NEW v, \A o \in all : v[o] \in Int,
         NEW some, some = StatusesIn(all) \cap statuses
  PROVE  /\ SumFunction([s \in some |-> Cardinality(OfStatus(all, {s}))])
              = Cardinality(OfStatus(all, statuses))
         /\ SumFunction([s \in some |-> WorthOf(all, v, {s})]) = WorthOf(all, v, statuses)
<1>1. PICK S \in SUBSET all : S = OfStatus(all, statuses)
  BY DEF OfStatus
<1>2. PICK k : k = [o \in S |-> book[o].status]
  OBVIOUS
<1>3. DOMAIN k = S /\ k = [o \in S |-> k[o]]
  BY <1>2
<1>4. some = KeysOf(k, S)
  BY <1>1, <1>2 DEF KeysOf, OfStatus, StatusesIn
<1>5. \A s \in some : OfStatus(all, {s}) = ClassOf(k, S, s)
  BY <1>1, <1>2, <1>4 DEF ClassOf, OfStatus, KeysOf
<1>6. IsFiniteSet(S)
  BY FS_Subset
<1>7. SumFunction([s \in some |-> Cardinality(OfStatus(all, {s}))]) = Cardinality(S)
  <2>1. PICK g : g = [s \in some |-> Cardinality(OfStatus(all, {s}))]
    OBVIOUS
  <2>2. g = [s \in KeysOf(k, S) |-> g[s]] /\ \A s \in KeysOf(k, S) : g[s] = Cardinality(ClassOf(k, S, s))
    BY <1>4, <1>5, <2>1
  <2>3. SumFunction(g) = Cardinality(S)
    BY <1>3, <1>6, <2>2, CountByGroups
  <2> QED
    BY <2>1, <2>3
<1>8. SumFunction([s \in some |-> WorthOf(all, v, {s})]) = SumFunction([o \in S |-> v[o]])
  <2>1. PICK g : g = [s \in some |-> WorthOf(all, v, {s})]
    OBVIOUS
  <2>2. PICK e \in [S -> Int] : e = [o \in S |-> v[o]]
    OBVIOUS
  <2>3. \A s \in some : ClassOf(k, S, s) \subseteq S
    BY DEF ClassOf
  <2>4. \A s \in some : Part(e, ClassOf(k, S, s)) = [o \in ClassOf(k, S, s) |-> v[o]]
    BY <2>2, <2>3 DEF Part
  <2>5. /\ g = [s \in KeysOf(k, S) |-> g[s]]
        /\ \A s \in KeysOf(k, S) : g[s] = SumFunction(Part(e, ClassOf(k, S, s)))
    BY <1>4, <1>5, <2>1, <2>4 DEF WorthOf
  <2>6. SumFunction(g) = SumFunction(e)
    BY <1>3, <1>6, <2>5, SumByGroups
  <2> QED
    BY <2>1, <2>2, <2>6
<1> QED
  BY <1>1, <1>7, <1>8 DEF WorthOf

(* The list of orders, its statuses and its bands agree with the key       *)
(* figures.                                                                *)
LEMMA ListDoesAddUp ==
  ASSUME BookFits, NEW f
  PROVE  ListAddsUp(f, summary_for_bounds(f, date_bounds(f)), OrdersSummary(f), StatusBreakdown(f),
                    ValueDistribution(f, BandLimits))
<1>1. PICK bounds : bounds = date_bounds(f)
  OBVIOUS
<1>2. PICK S : S = SalesIn(f, bounds)
  OBVIOUS
<1>3. PICK V : V = AnalyticOrderValues(S, f)
  OBVIOUS
<1>4. PICK all : all = Matching(f, bounds)
  OBVIOUS
<1>5. PICK total : total = summary_for_bounds(f, bounds)
  OBVIOUS
<1>6. ValuesOn(V, S, f)
  BY <1>2, <1>3, SalesAreFound, ValuesFit
<1>7. IsFiniteSet(S) /\ DOMAIN V = S /\ \A o \in S : V[o].current \in Int
  BY <1>6 DEF ValuesOn, AmountsFit
<1>8. all \in SUBSET DOMAIN book /\ IsFiniteSet(all)
  <2>1. all \in SUBSET DOMAIN book
    BY <1>4, SalesAreFound
  <2> QED
    BY <2>1, OrdersFinite
<1>9. /\ total.orders = Cardinality(S) /\ total.netRevenue = NetOf(V)
      /\ total.cancellations = Cardinality(OfStatus(all, CANCELLED_ORDER_STATUSES))
      /\ total.allOrders = Cardinality(all) /\ S = OfStatus(all, VALID_SALE_STATUSES)
  BY <1>2, <1>3, <1>4, <1>5, <1>7, FiguresAre DEF Cancelled, SalesIn
<1>10. OrdersSummary(f).validOrders = total.orders /\ OrdersSummary(f).orderValue = total.netRevenue
  BY <1>1, <1>2, <1>3, <1>9 DEF OrdersSummary, SummaryOf
<1>11. ValueDistribution(f, BandLimits) = Bands(V, BandLimits)
  BY <1>1, <1>2, <1>3 DEF ValueDistribution
<1>12. /\ Field(Bands(V, BandLimits), LAMBDA b : b.orders) = total.orders
       /\ Field(Bands(V, BandLimits), LAMBDA b : b.value) = total.netRevenue
  BY <1>7, <1>9, BandsAddUp
<1>13a. \A o \in all : HeaderRevenue(o) \in Int
  BY <1>8, HeaderIsNumber
<1>13b. PICK v : v = [o \in all |-> HeaderRevenue(o)]
  OBVIOUS
<1>13c. \A o \in all : v[o] \in Int
  BY <1>13a, <1>13b
<1>13. v = [o \in all |-> HeaderRevenue(o)] /\ \A o \in all : v[o] \in Int
  BY <1>13a, <1>13b
<1>14. PICK every : every = StatusesIn(all)
  OBVIOUS
<1>15. Field(StatusDistribution(f), LAMBDA n : n) = total.allOrders
  <2>1. every = StatusesIn(all) \cap every /\ OfStatus(all, every) = all
    BY <1>14 DEF OfStatus, StatusesIn
  <2>1a. SumFunction([s \in every |-> Cardinality(OfStatus(all, {s}))])
           = Cardinality(OfStatus(all, every))
    BY <1>8, <1>13, <2>1, StatusesAddUp
  <2>2. SumFunction([s \in every |-> Cardinality(OfStatus(all, {s}))]) = Cardinality(all)
    BY <2>1, <2>1a
  <2>3. StatusDistribution(f) = [s \in every |-> Cardinality(OfStatus(all, {s}))]
    BY <1>1, <1>4, <1>14 DEF StatusDistribution, StatusesIn
  <2>4. PICK d : d = StatusDistribution(f)
    OBVIOUS
  <2>5. d = [s \in DOMAIN d |-> d[s]]
    BY <2>3, <2>4
  <2> QED
    BY <1>9, <2>2, <2>3, <2>4, <2>5 DEF Field, SumOver
<1>16. PICK status : status = StatusBreakdown(f)
  OBVIOUS
<1>17. /\ DOMAIN status = every
       /\ \A s \in every :
            /\ status[s].orders = Cardinality(OfStatus(all, {s}))
            /\ status[s].value = SumFunction([o \in OfStatus(all, {s}) |-> v[o]])
  <2>1. ASSUME NEW s \in every
        PROVE  /\ status[s].orders = Cardinality(OfStatus(all, {s}))
               /\ status[s].value = SumFunction([o \in OfStatus(all, {s}) |-> HeaderRevenue(o)])
    BY <1>1, <1>4, <1>14, <1>16 DEF StatusBreakdown, SumOver, StatusesIn
  <2>2. \A s \in every : \A o \in OfStatus(all, {s}) : v[o] = HeaderRevenue(o)
    BY <1>13 DEF OfStatus
  <2>3. DOMAIN status = every
    BY <1>1, <1>4, <1>14, <1>16 DEF StatusBreakdown, StatusesIn
  <2>4. \A s \in every : [o \in OfStatus(all, {s}) |-> v[o]]
                           = [o \in OfStatus(all, {s}) |-> HeaderRevenue(o)]
    BY <2>2
  <2> QED
    BY <2>1, <2>3, <2>4
<1>18. SumFunction([s \in every \cap CANCELLED_ORDER_STATUSES |-> status[s].orders]) = total.cancellations
  <2>1. PICK some : some = every \cap CANCELLED_ORDER_STATUSES
    OBVIOUS
  <2>1a. some = StatusesIn(all) \cap CANCELLED_ORDER_STATUSES
    BY <1>14, <2>1
  <2>2. SumFunction([s \in some |-> Cardinality(OfStatus(all, {s}))])
          = Cardinality(OfStatus(all, CANCELLED_ORDER_STATUSES))
    BY <1>8, <1>13c, <2>1a, StatusesAddUp
  <2>3. [s \in some |-> status[s].orders] = [s \in some |-> Cardinality(OfStatus(all, {s}))]
    BY <1>17, <2>1
  <2> QED
    BY <1>9, <2>1, <2>2, <2>3
<1>19. ASSUME ~ProductScoped(f)
       PROVE  /\ SumFunction([s \in every \cap VALID_SALE_STATUSES |-> status[s].value]) = total.netRevenue
              /\ ValueBands(f, BandLimits) = Bands(V, BandLimits)
  <2>1. PICK some : some = every \cap VALID_SALE_STATUSES
    OBVIOUS
  <2>1a. some = StatusesIn(all) \cap VALID_SALE_STATUSES
    BY <1>14, <2>1
  <2>2. SumFunction([s \in some |-> WorthOf(all, v, {s})]) = WorthOf(all, v, VALID_SALE_STATUSES)
    BY <1>8, <1>13c, <2>1a, StatusesAddUp
  <2>3. [s \in some |-> status[s].value] = [s \in some |-> WorthOf(all, v, {s})]
    BY <1>17, <2>1 DEF WorthOf
  <2>4. \A o \in S : V[o].current = v[o]
    BY <1>6, <1>9, <1>13, <1>19 DEF ValuesOn, Earned, OfStatus
  <2>5. [o \in S |-> v[o]] = [o \in S |-> V[o].current]
    BY <2>4
  <2>6. NetOf(V) = SumFunction([o \in S |-> V[o].current])
    BY <1>7 DEF NetOf, SumOver
  <2>7. ValueBands(f, BandLimits) = Bands(V, BandLimits)
    BY <1>1, <1>2, <1>3, <1>19 DEF ValueBands, AnalyticOrderValues
  <2> QED
    BY <1>9, <2>1, <2>2, <2>3, <2>5, <2>6, <2>7 DEF WorthOf
<1> QED
  BY <1>1, <1>5, <1>10, <1>11, <1>12, <1>15, <1>16, <1>17, <1>18, <1>19 DEF ListAddsUp, SumOver

-----------------------------------------------------------------------------
(* Groups by a nullable column: what has none is in no group.              *)
ValuesOf(c, S) == UNION {c[x] : x \in S}
Holding(c, S, v) == {x \in S : v \in c[x]}
WithValue(c, S) == {x \in S : c[x] # {}}

(* The totals by a nullable column are the total of what has one.          *)
LEMMA SumByColumn ==
  ASSUME NEW S, IsFiniteSet(S), NEW f \in [S -> Int], NEW c, \A x \in S : Column(c[x]),
         NEW D, D = ValuesOf(c, S), NEW g, g = [v \in D |-> g[v]],
         \A v \in D : g[v] = SumFunction(Part(f, Holding(c, S, v))),
         NEW T, T = WithValue(c, S)
  PROVE  SumFunction(g) = SumFunction(Part(f, T)) /\ IsFiniteSet(D)
<1>1. T \in SUBSET S /\ IsFiniteSet(T)
  BY FS_Subset DEF WithValue
<1>2. PICK k : k = [x \in T |-> The(c[x])]
  OBVIOUS
<1>3. DOMAIN k = T /\ k = [x \in T |-> k[x]]
  BY <1>2
<1>4. \A x \in T : k[x] \in c[x] /\ c[x] = {k[x]}
  BY <1>2 DEF The, Column, WithValue
<1>5. D = KeysOf(k, T)
  <2>1. ASSUME NEW v \in D PROVE v \in KeysOf(k, T)
    <3>1. PICK x \in S : v \in c[x]
      BY DEF ValuesOf
    <3>2. x \in T
      BY <3>1 DEF WithValue
    <3>3. v = k[x]
      BY <1>4, <3>1, <3>2
    <3> QED
      BY <3>2, <3>3 DEF KeysOf
  <2>2. ASSUME NEW v \in KeysOf(k, T) PROVE v \in D
    <3>1. PICK x \in T : v = k[x]
      BY DEF KeysOf
    <3> QED
      BY <1>1, <1>4, <3>1 DEF ValuesOf
  <2> QED
    BY <2>1, <2>2
<1>6. \A v \in D : Holding(c, S, v) = ClassOf(k, T, v)
  BY <1>4 DEF ClassOf, Holding, WithValue
<1>7. PICK e \in [T -> Int] : e = Part(f, T)
  BY <1>1 DEF Part
<1>8. \A v \in D : ClassOf(k, T, v) \subseteq T
  BY DEF ClassOf
<1>9. \A v \in D : Part(f, Holding(c, S, v)) = Part(e, ClassOf(k, T, v))
  BY <1>6, <1>7, <1>8 DEF Part
<1>10. /\ g = [v \in KeysOf(k, T) |-> g[v]]
       /\ \A v \in KeysOf(k, T) : g[v] = SumFunction(Part(e, ClassOf(k, T, v)))
  BY <1>5, <1>9
<1>11. SumFunction(g) = SumFunction(e)
  BY <1>1, <1>3, <1>10, SumByGroups
<1> QED
  BY <1>1, <1>3, <1>5, <1>7, <1>11, KeysFinite

(* The counts by a nullable column are the count of what has one.          *)
LEMMA CountByColumn ==
  ASSUME NEW S, IsFiniteSet(S), NEW c, \A x \in S : Column(c[x]),
         NEW D, D = ValuesOf(c, S), NEW g, g = [v \in D |-> g[v]],
         \A v \in D : g[v] = Cardinality(Holding(c, S, v)),
         NEW T, T = WithValue(c, S)
  PROVE  SumFunction(g) = Cardinality(T)
<1>1. PICK f \in [S -> Int] : f = [x \in S |-> 1]
  <2>1. [x \in S |-> 1] \in [S -> Int]
    OBVIOUS
  <2> QED
    BY <2>1
<1>2. ASSUME NEW U \in SUBSET S PROVE SumFunction(Part(f, U)) = Cardinality(U)
  <2>1. IsFiniteSet(U) /\ Part(f, U) = [x \in U |-> 1]
    BY <1>1, FS_Subset DEF Part
  <2> QED
    BY <2>1, CountIsSumOfOnes
<1>3. ASSUME NEW v \in D PROVE g[v] = SumFunction(Part(f, Holding(c, S, v)))
  BY <1>2 DEF Holding
<1>4. T \in SUBSET S
  BY DEF WithValue
<1>5. SumFunction(g) = SumFunction(Part(f, T))
  BY <1>1, <1>3, SumByColumn
<1> QED
  BY <1>2, <1>4, <1>5

(* The rows of the customers and of the sellers.                           *)
OfBuyer(orders, c) == {o \in orders : book[o].buyer = c}
OfSeller(orders, s) == {o \in orders : s \in book[o].seller}
Worth(V, orders) == SumFunction([o \in orders |-> V[o].current])

CustomersAre(rows, V) ==
  /\ DOMAIN rows = {book[o].buyer : o \in DOMAIN V}
  /\ \A c \in DOMAIN rows : /\ rows[c].orders = Cardinality(OfBuyer(DOMAIN V, c))
                            /\ rows[c].revenue = Worth(V, OfBuyer(DOMAIN V, c))

(* A customer's row is about his own sales.                                *)
LEMMA CustomerRowsAre ==
  ASSUME NEW V
  PROVE  CustomersAre(ByCustomer(V), V)
<1>1. PICK rows : rows = ByCustomer(V)
  OBVIOUS
<1>2. DOMAIN rows = {book[o].buyer : o \in DOMAIN V}
  BY <1>1 DEF ByCustomer
<1>3. ASSUME NEW c \in DOMAIN rows
      PROVE  /\ rows[c].orders = Cardinality(OfBuyer(DOMAIN V, c))
             /\ rows[c].revenue = Worth(V, OfBuyer(DOMAIN V, c))
  BY <1>1, <1>2 DEF ByCustomer, OfBuyer, Worth, SumOver
<1> QED
  BY <1>1, <1>2, <1>3 DEF CustomersAre

SellersAre(rows, V) ==
  /\ DOMAIN rows = UNION {book[o].seller : o \in DOMAIN V}
  /\ \A s \in DOMAIN rows : /\ rows[s].orders = Cardinality(OfSeller(DOMAIN V, s))
                            /\ rows[s].customers = Cardinality(BuyersOf(OfSeller(DOMAIN V, s)))
                            /\ rows[s].revenue = Worth(V, OfSeller(DOMAIN V, s))

(* A seller's row is about his own sales.                                  *)
LEMMA SellerRowsAre ==
  ASSUME NEW V
  PROVE  SellersAre(BySeller(V), V)
<1>1. PICK rows : rows = BySeller(V)
  OBVIOUS
<1>2. DOMAIN rows = UNION {book[o].seller : o \in DOMAIN V}
  BY <1>1 DEF BySeller
<1>3. ASSUME NEW s \in DOMAIN rows
      PROVE  /\ rows[s].orders = Cardinality(OfSeller(DOMAIN V, s))
             /\ rows[s].customers = Cardinality(BuyersOf(OfSeller(DOMAIN V, s)))
             /\ rows[s].revenue = Worth(V, OfSeller(DOMAIN V, s))
  BY <1>1, <1>2 DEF BySeller, OfSeller, Worth, SumOver
<1> QED
  BY <1>1, <1>2, <1>3 DEF SellersAre

(* The rows of the customers, with the one of nobody, are all the sales.   *)
LEMMA CustomersAddUp ==
  ASSUME NEW V, NEW S, S = DOMAIN V, IsFiniteSet(S), \A o \in S : V[o].current \in Int,
         NEW rows, CustomersAre(rows, V)
  PROVE  Revenues(rows) = Worth(V, S) /\ OrderCounts(rows) = Cardinality(S)
<1>1. PICK k : k = [o \in S |-> book[o].buyer]
  OBVIOUS
<1>2. DOMAIN k = S /\ k = [o \in S |-> k[o]]
  BY <1>1
<1>3. PICK K : K = KeysOf(k, S)
  OBVIOUS
<1>4. DOMAIN rows = K
  BY <1>1, <1>3 DEF CustomersAre, KeysOf
<1>5. \A c : OfBuyer(S, c) = ClassOf(k, S, c)
  BY <1>1 DEF OfBuyer, ClassOf
<1>6. SumFunction([c \in K |-> rows[c].orders]) = Cardinality(S)
  <2>1. PICK g : g = [c \in K |-> rows[c].orders]
    OBVIOUS
  <2>2. g = [c \in KeysOf(k, S) |-> g[c]] /\ \A c \in KeysOf(k, S) : g[c] = Cardinality(ClassOf(k, S, c))
    BY <1>3, <1>4, <1>5, <2>1 DEF CustomersAre
  <2>3. SumFunction(g) = Cardinality(S)
    BY <1>2, <2>2, CountByGroups
  <2> QED
    BY <2>1, <2>3
<1>7. SumFunction([c \in K |-> rows[c].revenue]) = Worth(V, S)
  <2>1. PICK g : g = [c \in K |-> rows[c].revenue]
    OBVIOUS
  <2>2. PICK e \in [S -> Int] : e = [o \in S |-> V[o].current]
    OBVIOUS
  <2>3. \A c : ClassOf(k, S, c) \subseteq S
    BY DEF ClassOf
  <2>4. \A c : Part(e, ClassOf(k, S, c)) = [o \in ClassOf(k, S, c) |-> V[o].current]
    BY <2>2, <2>3 DEF Part
  <2>4a. ASSUME NEW c \in K PROVE g[c] = SumFunction(Part(e, ClassOf(k, S, c)))
    <3>1. g[c] = Worth(V, OfBuyer(S, c))
      BY <1>4, <2>1 DEF CustomersAre
    <3> QED
      BY <1>5, <2>4, <3>1 DEF Worth
  <2>5. /\ g = [c \in KeysOf(k, S) |-> g[c]]
        /\ \A c \in KeysOf(k, S) : g[c] = SumFunction(Part(e, ClassOf(k, S, c)))
    BY <1>3, <2>1, <2>4a
  <2>6. SumFunction(g) = SumFunction(e)
    BY <1>2, <2>5, SumByGroups
  <2> QED
    BY <2>1, <2>2, <2>6 DEF Worth
<1> QED
  BY <1>4, <1>6, <1>7 DEF Revenues, OrderCounts, SumOver

(* The rows of the sellers and the sales of nobody are all the sales.      *)
LEMMA SellersAddUp ==
  ASSUME NEW V, NEW S, S = DOMAIN V, IsFiniteSet(S), \A o \in S : V[o].current \in Int,
         \A o \in S : Column(book[o].seller), NEW rows, SellersAre(rows, V)
  PROVE  /\ Revenues(rows) = Worth(V, {o \in S : book[o].seller # {}})
         /\ Revenues(rows) + Worth(V, {o \in S : book[o].seller = {}}) = Worth(V, S)
<1>1. PICK c : c = [o \in S |-> book[o].seller]
  OBVIOUS
<1>2. \A o \in S : Column(c[o])
  BY <1>1
<1>3. PICK D : D = ValuesOf(c, S)
  OBVIOUS
<1>4. PICK T \in SUBSET S : T = WithValue(c, S)
  BY DEF WithValue
<1>5. PICK e \in [S -> Int] : e = [o \in S |-> V[o].current]
  OBVIOUS
<1>6. DOMAIN rows = D
  BY <1>1, <1>3 DEF SellersAre, ValuesOf
<1>7. ASSUME NEW s \in D PROVE rows[s].revenue = SumFunction(Part(e, Holding(c, S, s)))
  <2>1. Holding(c, S, s) = OfSeller(S, s) /\ OfSeller(S, s) \subseteq S
    BY <1>1 DEF Holding, OfSeller
  <2>2. Part(e, OfSeller(S, s)) = [o \in OfSeller(S, s) |-> V[o].current]
    BY <1>5, <2>1 DEF Part
  <2> QED
    BY <1>6, <2>1, <2>2 DEF SellersAre, Worth
<1>8. PICK g : g = [s \in D |-> rows[s].revenue]
  OBVIOUS
<1>9. g = [s \in D |-> g[s]] /\ \A s \in D : g[s] = SumFunction(Part(e, Holding(c, S, s)))
  BY <1>7, <1>8
<1>10. SumFunction(g) = SumFunction(Part(e, T))
  BY <1>2, <1>3, <1>4, <1>9, SumByColumn
<1>11. T = {o \in S : book[o].seller # {}} /\ S \ T = {o \in S : book[o].seller = {}}
  BY <1>1, <1>4 DEF WithValue
<1>12. \A U \in SUBSET S : Part(e, U) = [o \in U |-> V[o].current]
  BY <1>5 DEF Part
<1>13. SumFunction(e) = SumFunction(Part(e, T)) + SumFunction(Part(e, S \ T))
  BY <1>4, SumOfParts
<1>14. Revenues(rows) = SumFunction(g)
  BY <1>6, <1>8 DEF Revenues, SumOver
<1>15. S \ T \in SUBSET S
  OBVIOUS
<1>16. Worth(V, T) = SumFunction(Part(e, T)) /\ Worth(V, S \ T) = SumFunction(Part(e, S \ T))
  BY <1>12, <1>15 DEF Worth
<1> QED
  BY <1>5, <1>10, <1>11, <1>13, <1>14, <1>16 DEF Worth

(* Customers and sellers agree with the key figures.                       *)
LEMMA PeopleDoAddUp ==
  ASSUME BookFits, NEW f
  PROVE  PeopleAddUp(f, summary_for_bounds(f, date_bounds(f)), SellerAggregate(f), CustomerAggregate(f))
<1>1. PICK S : S = Sales(f)
  OBVIOUS
<1>2. PICK V : V = AnalyticOrderValues(S, f)
  OBVIOUS
<1>3. PICK total : total = summary_for_bounds(f, date_bounds(f))
  OBVIOUS
<1>4. ValuesOn(V, S, f)
  BY <1>1, <1>2, SalesAreFound, ValuesFit DEF Sales
<1>5. IsFiniteSet(S) /\ S \in SUBSET DOMAIN book /\ DOMAIN V = S /\ \A o \in S : V[o].current \in Int
  BY <1>4 DEF ValuesOn, AmountsFit
<1>6. total.orders = Cardinality(S) /\ total.netRevenue = Worth(V, S)
  <2>1. total.orders = Cardinality(DOMAIN V) /\ total.netRevenue = NetOf(V)
    BY <1>1, <1>2, <1>3, FiguresAre DEF Sales
  <2> QED
    BY <1>5, <2>1 DEF NetOf, SumOver, Worth
<1>7. PICK buyers : buyers = CustomerAggregate(f) /\ CustomersAre(buyers, V)
  BY <1>1, <1>2, CustomerRowsAre DEF CustomerAggregate
<1>8. PICK sellers : sellers = SellerAggregate(f) /\ SellersAre(sellers, V)
  BY <1>1, <1>2, SellerRowsAre DEF SellerAggregate
<1>9. \A o \in S : Column(book[o].seller) /\ Column(book[o].buyer)
  BY <1>5 DEF BookFits, RowFits
<1>10. Revenues(buyers) = Worth(V, S) /\ OrderCounts(buyers) = Cardinality(S)
  BY <1>5, <1>7, CustomersAddUp
<1>11. Revenues(sellers) + Worth(V, {o \in S : book[o].seller = {}}) = Worth(V, S)
  BY <1>5, <1>8, <1>9, SellersAddUp
<1>12. SumOver({o \in S : book[o].seller = {}}, LAMBDA o : V[o].current)
         = Worth(V, {o \in S : book[o].seller = {}})
  BY DEF SumOver, Worth
<1>13. ASSUME ~ProductScoped(f)
       PROVE  /\ RankedAs(RankingCustomers(f), [c \in BuyersOf(S) |-> buyers[{c}]])
              /\ RankedAs(RankingSellers(f), sellers)
  <2>1. \A o \in S : V[o].current = HeaderRevenue(o)
    BY <1>4, <1>13 DEF ValuesOn, Earned
  <2>2. PICK ranking : ranking = RankingCustomers(f)
    OBVIOUS
  <2>3. PICK rows : rows = [c \in BuyersOf(S) |-> buyers[{c}]]
    OBVIOUS
  <2>4. DOMAIN ranking \subseteq BuyersOf(S)
    BY <1>1, <2>2 DEF RankingCustomers
  <2>5. ASSUME NEW c \in DOMAIN ranking
        PROVE  ranking[c].orders = rows[c].orders /\ ranking[c].revenue = rows[c].revenue
    <3>1. PICK o \in S : c \in book[o].buyer
      BY <2>4 DEF BuyersOf
    <3>2. book[o].buyer = {c} /\ {c} \in DOMAIN buyers
      BY <1>5, <1>7, <1>9, <3>1 DEF Column, CustomersAre
    <3>3. PICK T : T = OfBuyer(S, {c})
      OBVIOUS
    <3>4. T = {x \in S : c \in book[x].buyer}
      BY <1>9, <3>3 DEF OfBuyer, Column
    <3>5. ranking[c].orders = Cardinality(T) /\ ranking[c].revenue = SumFunction([x \in T |-> HeaderRevenue(x)])
      BY <1>1, <2>2, <3>4 DEF RankingCustomers, SumOver
    <3>6. [x \in T |-> HeaderRevenue(x)] = [x \in T |-> V[x].current]
      BY <2>1, <3>4
    <3>7. rows[c] = buyers[{c}]
      BY <2>3, <2>4
    <3> QED
      BY <1>5, <1>7, <3>2, <3>3, <3>5, <3>6, <3>7 DEF CustomersAre, Worth
  <2>6. PICK chart : chart = RankingSellers(f)
    OBVIOUS
  <2>7. ASSUME NEW s \in DOMAIN chart
        PROVE  chart[s].orders = sellers[s].orders /\ chart[s].revenue = sellers[s].revenue
    <3>1. s \in DOMAIN sellers
      BY <1>1, <1>5, <1>8, <2>6 DEF RankingSellers, SellersAre
    <3>2. PICK T \in SUBSET S : T = OfSeller(S, s)
      BY DEF OfSeller
    <3>3. chart[s].orders = Cardinality(T) /\ chart[s].revenue = SumFunction([x \in T |-> HeaderRevenue(x)])
      BY <1>1, <2>6, <3>2 DEF RankingSellers, SumOver, OfSeller
    <3>4. [x \in T |-> HeaderRevenue(x)] = [x \in T |-> V[x].current]
      BY <2>1
    <3> QED
      BY <1>5, <1>8, <3>1, <3>2, <3>3, <3>4 DEF SellersAre, Worth
  <2> QED
    BY <2>2, <2>3, <2>5, <2>6, <2>7 DEF RankedAs
<1> QED
  BY <1>1, <1>2, <1>3, <1>5, <1>6, <1>7, <1>8, <1>10, <1>11, <1>12, <1>13 DEF PeopleAddUp

(* The sum over one element.                                               *)
LEMMA SumOfSingle ==
  ASSUME NEW x, NEW f, f[x] \in Int
  PROVE  SumFunction(Part(f, {x})) = f[x]
<1>0. Part(f, {x}) \in [{x} -> Int] /\ Part(f, {x})[x] = f[x]
  BY DEF Part
<1>1. PICK h \in [{x} -> Int] : h = Part(f, {x}) /\ h[x] = f[x]
  BY <1>0
<1>2. SumFunction(Over(h, {x})) = h[x] + SumFunction(Over(h, {x} \ {x}))
  <2>1. IsFiniteSet({x}) /\ {x} \in SUBSET {x} /\ x \in {x}
    BY FS_Singleton
  <2> QED
    BY <2>1, SumSplit
<1>3. SumFunction(Over(h, {x} \ {x})) = 0
  BY SumOfNone DEF Over
<1>4. Over(h, {x}) = h
  BY OverAll
<1> QED
  BY <1>1, <1>2, <1>3, <1>4

(* The sum over four elements.                                             *)
LEMMA SumOfFour ==
  ASSUME NEW g \in [1..4 -> Int]
  PROVE  SumFunction(g) = g[1] + g[2] + g[3] + g[4]
<1>1. IsFiniteSet(1..4)
  <2>1. 1 \in Int /\ 4 \in Int
    OBVIOUS
  <2> QED
    BY <2>1, FS_Interval
<1>2. \A T \in SUBSET (1..4) : IsFiniteSet(T)
  BY <1>1, FS_Subset
<1>3. ASSUME NEW T \in SUBSET (1..4), NEW i \in T
      PROVE  /\ SumFunction(Part(g, T)) = g[i] + SumFunction(Part(g, T \ {i}))
             /\ SumFunction(Part(g, T \ {i})) \in Int
  <2>1. PICK h \in [T -> Int] : h = Part(g, T)
    BY DEF Part
  <2>2. IsFiniteSet(T) /\ {i} \in SUBSET T /\ T \ {i} \in SUBSET T
    BY <1>2
  <2>3. SumFunction(h) = SumFunction(Part(h, {i})) + SumFunction(Part(h, T \ {i}))
    BY <2>2, SumOfParts
  <2>4. SumFunction(Part(h, {i})) = h[i]
    BY SumOfSingle
  <2>5. Part(h, T \ {i}) = Part(g, T \ {i}) /\ h[i] = g[i]
    BY <2>1 DEF Part
  <2>6. SumFunction(Part(h, T \ {i})) \in Int
    BY <2>2, SumOfParts
  <2> QED
    BY <2>1, <2>3, <2>4, <2>5, <2>6
<1>4. /\ 1..4 \ {1} = {2, 3, 4} /\ {2, 3, 4} \ {2} = {3, 4} /\ {3, 4} \ {3} = {4} /\ {4} \ {4} = {}
      /\ {2, 3, 4} \in SUBSET (1..4) /\ {3, 4} \in SUBSET (1..4) /\ {4} \in SUBSET (1..4)
  OBVIOUS
<1>5. SumFunction(Part(g, {})) = 0
  BY SumOfNone DEF Part
<1>6. Part(g, 1..4) = g
  BY DEF Part
<1>7. SumFunction(Part(g, {4})) = g[4]
  BY SumOfSingle
<1>8. SumFunction(Part(g, {3, 4})) = g[3] + g[4]
  BY <1>3, <1>4, <1>7
<1>9. SumFunction(Part(g, {2, 3, 4})) = g[2] + (g[3] + g[4])
  BY <1>3, <1>4, <1>8
<1>10. SumFunction(g) = g[1] + (g[2] + (g[3] + g[4]))
  BY <1>3, <1>4, <1>6, <1>9
<1> QED
  BY <1>10

-----------------------------------------------------------------------------
(* A list can be sorted by two numbers.                                    *)
Outranks(first, second, x, y) ==
  \/ first[x] > first[y]
  \/ first[x] = first[y] /\ second[x] >= second[y]
InRanks(s, first, second) ==
  \A i, j \in DOMAIN s : i < j => s[i] # s[j] /\ Outranks(first, second, s[i], s[j])

(* The order of the ranking is what the sort compares.                     *)
LEMMA OutranksWhoPrecedes ==
  ASSUME NEW S, NEW first \in [S -> Int], NEW second \in [S -> Int], NEW third \in [S -> Int],
         NEW x \in S, NEW y \in S,
         Precedes(<<first[x], second[x], third[x]>>, <<first[y], second[y], third[y]>>)
  PROVE  Outranks(first, second, x, y)
<1>1. PICK a : a = <<first[x], second[x], third[x]>>
  OBVIOUS
<1>2. PICK b : b = <<first[y], second[y], third[y]>>
  OBVIOUS
<1>3. DOMAIN a = 1..3 /\ a[1] = first[x] /\ a[2] = second[x] /\ a[3] = third[x]
  BY <1>1
<1>4. b[1] = first[y] /\ b[2] = second[y] /\ b[3] = third[y]
  BY <1>2
<1>5. PICK i \in 1..3 : a[i] > b[i] /\ \A j \in 1..i - 1 : a[j] = b[j]
  BY <1>1, <1>2, <1>3 DEF Precedes
<1>6. i = 1 \/ i = 2 \/ i = 3
  OBVIOUS
<1>7. CASE i = 1
  BY <1>3, <1>4, <1>5, <1>7 DEF Outranks
<1>8. CASE i = 2
  <2>1. a[1] = b[1]
    BY <1>5, <1>8
  <2> QED
    BY <1>3, <1>4, <1>5, <1>8, <2>1 DEF Outranks
<1>9. CASE i = 3
  <2>1. a[1] = b[1] /\ a[2] = b[2]
    BY <1>5, <1>9
  <2> QED
    BY <1>3, <1>4, <2>1 DEF Outranks
<1> QED
  BY <1>6, <1>7, <1>8, <1>9

(* There is a list by revenue and by orders, of everybody.                 *)
LEMMA RankingExists ==
  ASSUME NEW S, IsFiniteSet(S), NEW first \in [S -> Int], NEW second \in [S -> Int]
  PROVE  /\ Cardinality(S) \in Nat
         /\ \E s \in [1..Cardinality(S) -> S] : InRanks(s, first, second)
<1>1. PICK N \in Nat : N = Cardinality(S)
  BY FS_CardinalityType
<1>2. PICK b : b \in Bijection(1..N, S)
  BY <1>1, FS_CardinalityType DEF ExistsBijection
<1>3. b \in [1..N -> S] /\ (\A i, j \in 1..N : b[i] = b[j] => i = j) /\ \A x \in S : \E i \in 1..N : b[i] = x
  BY <1>2 DEF Bijection, Injection, Surjection, IsInjective
<1>4. PICK third : third = [x \in S |-> CHOOSE i \in 1..N : b[i] = x]
  OBVIOUS
<1>5. \A x \in S : third[x] \in 1..N /\ b[third[x]] = x
  BY <1>3, <1>4
<1>6. third \in [S -> Int] /\ \A x, y \in S : x # y => third[x] # third[y]
  BY <1>4, <1>5
<1>7. PICK keys : keys = [x \in S |-> <<first[x], second[x], third[x]>>]
  OBVIOUS
<1>8. DOMAIN keys = S /\ \A x \in S : /\ keys[x] \in [1..3 -> Int] /\ keys[x][3] = third[x]
                                      /\ keys[x] = <<first[x], second[x], third[x]>>
  BY <1>6, <1>7
<1>9. Rank(keys, 3)
  BY <1>6, <1>8 DEF Rank
<1>10. PICK P : P = Places(keys)
  OBVIOUS
<1>11. P \in Bijection(S, 0..N - 1)
  BY <1>1, <1>8, <1>9, <1>10, PlacesAreAll DEF Spots
<1>12. /\ P \in [S -> 0..N - 1]
       /\ \A i \in 0..N - 1 : \E c \in S : P[c] = i
  BY <1>11 DEF Bijection, Injection, Surjection, IsInjective
<1>13. PICK s : s = [i \in 1..N |-> CHOOSE c \in S : P[c] = i - 1]
  OBVIOUS
<1>14. \A i \in 1..N : s[i] \in S /\ P[s[i]] = i - 1
  <2>1. \A i \in 1..N : \E c \in S : P[c] = i - 1
    BY <1>12
  <2> QED
    BY <1>13, <2>1
<1>15. s \in [1..N -> S]
  BY <1>13, <1>14
<1>16. ASSUME NEW i \in 1..N, NEW j \in 1..N, i < j
       PROVE  s[i] # s[j] /\ Outranks(first, second, s[i], s[j])
  <2>1. PICK x \in S : x = s[i] /\ P[x] = i - 1
    BY <1>14
  <2>2. PICK y \in S : y = s[j] /\ P[y] = j - 1
    BY <1>14
  <2>3. x # y
    BY <1>16, <2>1, <2>2
  <2>4. keys[x] # keys[y]
    BY <1>6, <1>8, <2>3
  <2>5. Precedes(keys[x], keys[y]) \/ Precedes(keys[y], keys[x])
    BY <1>8, <2>4, OnePrecedes
  <2>6. P[x] = PlaceOf(x, keys) /\ P[y] = PlaceOf(y, keys)
    BY <1>8, <1>10 DEF Places
  <2>7. ~Precedes(keys[y], keys[x])
    <3>1. ASSUME Precedes(keys[y], keys[x]) PROVE PlaceOf(y, keys) < PlaceOf(x, keys)
      BY <1>8, <1>9, <3>1, PlacesDiffer
    <3> QED
      BY <1>16, <2>1, <2>2, <2>6, <3>1
  <2>8. Outranks(first, second, x, y)
    <3>1. Precedes(<<first[x], second[x], third[x]>>, <<first[y], second[y], third[y]>>)
      BY <1>8, <2>5, <2>7
    <3>2. third \in [S -> Int]
      BY <1>6
    <3> QED
      BY <3>1, <3>2, OutranksWhoPrecedes
  <2> QED
    BY <2>1, <2>2, <2>3, <2>8
<1>17. InRanks(s, first, second)
  BY <1>15, <1>16 DEF InRanks
<1> QED
  BY <1>1, <1>15, <1>17

(* A list as long as the set, with nobody twice, has everybody.            *)
LEMMA RankingIsAll ==
  ASSUME NEW S, IsFiniteSet(S), NEW s \in [1..Cardinality(S) -> S],
         \A i, j \in DOMAIN s : i < j => s[i] # s[j]
  PROVE  s \in Bijection(1..Cardinality(S), S)
<1>1. PICK N \in Nat : N = Cardinality(S)
  BY FS_CardinalityType
<1>2. IsFiniteSet(1..N) /\ Cardinality(1..N) = N
  BY FS_Interval
<1>3. s \in Injection(1..N, S)
  <2>1. \A i, j \in 1..N : s[i] = s[j] => i = j
    BY <1>1
  <2> QED
    BY <1>1, <2>1 DEF Injection, IsInjective
<1>4. s \in Surjection(1..N, S)
  BY <1>1, <1>2, <1>3, FS_Injection
<1> QED
  BY <1>1, <1>3, <1>4 DEF Bijection

(* The ranking of the customers has each of them once.                     *)
RankedWith(bought, known) ==
  /\ known = {c \in DOMAIN CustomerTable : {c} \in DOMAIN bought}
  /\ \A c \in known : bought[{c}].revenue \in Int /\ bought[{c}].orders \in Int

(* The ranking is such a list, of the customers that are known.            *)
LEMMA RankedAre ==
  ASSUME NEW bought, NEW known, IsFiniteSet(known), RankedWith(bought, known)
  PROVE  /\ Cardinality(known) \in Nat
         /\ \E s \in [1..Cardinality(known) -> known] :
              RankedCustomers(bought) = [i \in 1..Cardinality(known) |-> bought[{s[i]}]]
<1>0. /\ known = {c \in DOMAIN CustomerTable : {c} \in DOMAIN bought}
      /\ \A c \in known : bought[{c}].revenue \in Int /\ bought[{c}].orders \in Int
  BY DEF RankedWith
<1>1. PICK N \in Nat : N = Cardinality(known)
  BY FS_CardinalityType
<1>2. PICK first \in [known -> Int] : first = [c \in known |-> bought[{c}].revenue]
  BY <1>0
<1>3. PICK second \in [known -> Int] : second = [c \in known |-> bought[{c}].orders]
  BY <1>0
<1> DEFINE ranks(s) == \A i, j \in DOMAIN s : i < j =>
                         /\ s[i] # s[j]
                         /\ \/ bought[{s[i]}].revenue > bought[{s[j]}].revenue
                            \/ /\ bought[{s[i]}].revenue = bought[{s[j]}].revenue
                               /\ bought[{s[i]}].orders >= bought[{s[j]}].orders
<1>4. \E s \in [1..N -> known] : ranks(s)
  <2>1. PICK s \in [1..N -> known] : InRanks(s, first, second)
    BY <1>1, RankingExists
  <2>2. ASSUME NEW i \in DOMAIN s, NEW j \in DOMAIN s, i < j
        PROVE  s[i] # s[j] /\ Outranks(first, second, s[i], s[j])
    BY <2>1, <2>2 DEF InRanks
  <2>3. \A i \in DOMAIN s : s[i] \in known
    OBVIOUS
  <2>4. ranks(s)
    BY <1>2, <1>3, <2>2, <2>3 DEF Outranks
  <2> HIDE DEF ranks
  <2> QED
    BY <2>4
<1>5. PICK s : s = CHOOSE x \in [1..Cardinality(known) -> known] : ranks(x)
  OBVIOUS
<1>6. RankedCustomers(bought) = [i \in 1..Cardinality(known) |-> bought[{s[i]}]]
  BY <1>0, <1>5 DEF RankedCustomers, Sorted
<1> HIDE DEF ranks
<1>7. s \in [1..N -> known]
  BY <1>1, <1>4, <1>5
<1> QED
  BY <1>1, <1>6, <1>7

-----------------------------------------------------------------------------
(* A run of a list is the same run of its amounts.                         *)
RunOf(e, from, to) == SumFunction(Part(e, {i \in DOMAIN e : from <= i /\ i <= to}))
IsList(e, n) == n \in Nat /\ e \in [1..n -> Int]
IsRun(g, e, n, from, to) ==
  LET m == 1 + (IF to < n THEN to ELSE n) - from
  IN g = [i \in 1..m |-> g[i]] /\ \A i \in 1..m : g[i] = e[i + from - 1]
Place(from) == from \in Nat /\ from >= 1
Follows(next, x) == x \in Nat /\ next = x + 1

(* The sum over a run is what the run of the amounts adds up to.           *)
LEMMA SumOfRun ==
  ASSUME NEW n, NEW e, IsList(e, n), NEW from, Place(from), NEW to, to \in Nat,
         NEW g, IsRun(g, e, n, from, to)
  PROVE  SumFunction(g) = RunOf(e, from, to)
<1>0. n \in Nat /\ e \in [1..n -> Int] /\ from \in Nat /\ from >= 1
  BY DEF IsList, Place
<1>0a. PICK b \in Nat : b = (IF to < n THEN to ELSE n)
  BY <1>0
<1>0b. PICK m \in Int : m = 1 + b - from
  BY <1>0
<1>0c. g = [i \in 1..m |-> g[i]] /\ \A i \in 1..m : g[i] = e[i + from - 1]
  BY <1>0a, <1>0b DEF IsRun
<1>1. PICK S : S = 1..m
  OBVIOUS
<1>2. PICK T \in SUBSET (1..n) : T = {i \in DOMAIN e : from <= i /\ i <= to}
  BY <1>0
<1>3. IsFiniteSet(S)
  <2>1. 1 \in Int /\ m \in Int
    OBVIOUS
  <2> QED
    BY <1>1, <2>1, FS_Interval
<1>4. PICK k : k = [i \in S |-> i + from - 1]
  OBVIOUS
<1>5. k \in [S -> T] /\ \A i, j \in S : k[i] = k[j] => i = j
  BY <1>0, <1>0a, <1>0b, <1>1, <1>2, <1>4
<1>6. \A t \in T : t + 1 - from \in S /\ k[t + 1 - from] = t
  BY <1>0, <1>0a, <1>0b, <1>1, <1>2, <1>4
<1>7. k \in Bijection(S, T)
  BY <1>5, <1>6 DEF Bijection, Injection, Surjection, IsInjective
<1>8. PICK h \in [T -> Int] : h = Part(e, T)
  <2>1. Part(e, T) \in [T -> Int]
    BY <1>0 DEF Part
  <2> QED
    BY <2>1
<1>9. \A x \in S : g[x] = h[k[x]]
  BY <1>0c, <1>1, <1>4, <1>5, <1>8 DEF Part
<1>10. ReadsAlong(g, h, k, S)
  BY <1>0c, <1>1, <1>9 DEF ReadsAlong
<1>11. SumFunction(g) = SumFunction(h)
  BY <1>3, <1>7, <1>10, SumAlong
<1> QED
  BY <1>2, <1>8, <1>11 DEF RunOf

(* Two runs that meet are one.                                             *)
LEMMA RunsAddUp ==
  ASSUME NEW n, NEW e, IsList(e, n), NEW x, NEW y, y \in Nat, NEW next, Follows(next, x),
         x <= y \/ n <= y
  PROVE  /\ RunOf(e, 1, y) = RunOf(e, 1, x) + RunOf(e, next, y)
         /\ RunOf(e, 1, x) \in Int /\ RunOf(e, next, y) \in Int
<1>0. n \in Nat /\ e \in [1..n -> Int] /\ x \in Nat /\ next = x + 1
  BY DEF IsList, Follows
<1>1. PICK T \in SUBSET (1..n) : T = {i \in DOMAIN e : 1 <= i /\ i <= y}
  BY <1>0
<1>2. PICK h \in [T -> Int] : h = Part(e, T)
  <2>1. Part(e, T) \in [T -> Int]
    BY <1>0 DEF Part
  <2> QED
    BY <2>1
<1>3. IsFiniteSet(T)
  <2>1. 1 \in Int /\ n \in Int
    BY <1>0
  <2>2. IsFiniteSet(1..n)
    BY <2>1, FS_Interval
  <2> QED
    BY <2>2, FS_Subset
<1>4. PICK U : U = {i \in DOMAIN e : 1 <= i /\ i <= x}
  OBVIOUS
<1>4a. U \in SUBSET T
  BY <1>0, <1>1, <1>4
<1>5. T \ U = {i \in DOMAIN e : next <= i /\ i <= y}
  BY <1>0, <1>1, <1>4
<1>6. /\ SumFunction(h) = SumFunction(Part(h, U)) + SumFunction(Part(h, T \ U))
      /\ SumFunction(Part(h, U)) \in Int /\ SumFunction(Part(h, T \ U)) \in Int
  BY <1>3, <1>4a, SumOfParts
<1>7. Part(h, U) = Part(e, U) /\ Part(h, T \ U) = Part(e, T \ U)
  BY <1>2, <1>4a DEF Part
<1> QED
  BY <1>1, <1>2, <1>4, <1>5, <1>6, <1>7 DEF RunOf

(* What a tier shows.                                                      *)
Tier(ranked, from, to) ==
  CustomerCohort(SubSeq(ranked, from, IF to < Len(ranked) THEN to ELSE Len(ranked)))

Ones(ones, n) == ones = [i \in 1..n |-> 1]
TierAdds(t, revenue, orders, ones, from, to) ==
  /\ t.revenue = RunOf(revenue, from, to) /\ t.orders = RunOf(orders, from, to)
  /\ t.customers = RunOf(ones, from, to)
AmountsOf(ranked, revenue, orders) ==
  \A i \in DOMAIN ranked : ranked[i].revenue = revenue[i] /\ ranked[i].orders = orders[i]

(* What a tier shows is a run of the ranking's amounts.                    *)
LEMMA TierIs ==
  ASSUME NEW n, NEW R, NEW ranked, ranked \in [1..n -> R], NEW revenue, IsList(revenue, n),
         NEW orders, IsList(orders, n), AmountsOf(ranked, revenue, orders),
         NEW ones, Ones(ones, n), NEW from, Place(from), NEW to, to \in Nat
  PROVE  TierAdds(Tier(ranked, from, to), revenue, orders, ones, from, to)
<1>0. n \in Nat /\ from \in Nat /\ from >= 1
  BY DEF IsList, Place
<1>0a. IsList(ones, n)
  BY <1>0 DEF IsList, Ones
<1>1. ranked \in Seq(R) /\ Len(ranked) = n
  BY <1>0
<1>2. PICK b \in Nat : b = (IF to < n THEN to ELSE n)
  BY <1>0
<1>3. PICK rows : rows = SubSeq(ranked, from, b)
  OBVIOUS
<1>4. PICK m \in Int : m = 1 + b - from
  BY <1>0
<1>5. rows = [i \in 1..m |-> ranked[i + from - 1]]
  BY <1>0, <1>1, <1>2, <1>3, <1>4
<1>6. \A i \in 1..m : i + from - 1 \in 1..n /\ rows[i] = ranked[i + from - 1]
  BY <1>0, <1>2, <1>4, <1>5
<1>7. Tier(ranked, from, to) = CustomerCohort(rows)
  BY <1>1, <1>2, <1>3 DEF Tier
<1>8. CustomerCohort(rows).revenue = RunOf(revenue, from, to)
  <2>1. PICK g : g = [i \in 1..m |-> rows[i].revenue]
    OBVIOUS
  <2>2. g = [i \in 1..m |-> g[i]] /\ \A i \in 1..m : g[i] = revenue[i + from - 1]
    BY <1>6, <2>1 DEF AmountsOf
  <2>2a. IsRun(g, revenue, n, from, to)
    BY <1>2, <1>4, <2>2 DEF IsRun
  <2>3. SumFunction(g) = RunOf(revenue, from, to)
    BY <1>0a, <2>2a, SumOfRun
  <2> QED
    BY <1>5, <2>1, <2>3 DEF CustomerCohort, SumOver
<1>9. CustomerCohort(rows).orders = RunOf(orders, from, to)
  <2>1. PICK g : g = [i \in 1..m |-> rows[i].orders]
    OBVIOUS
  <2>2. g = [i \in 1..m |-> g[i]] /\ \A i \in 1..m : g[i] = orders[i + from - 1]
    BY <1>6, <2>1 DEF AmountsOf
  <2>2a. IsRun(g, orders, n, from, to)
    BY <1>2, <1>4, <2>2 DEF IsRun
  <2>3. SumFunction(g) = RunOf(orders, from, to)
    BY <1>0a, <2>2a, SumOfRun
  <2> QED
    BY <1>5, <2>1, <2>3 DEF CustomerCohort, SumOver
<1>10. CustomerCohort(rows).customers = RunOf(ones, from, to)
  <2>1. PICK g : g = [i \in 1..m |-> 1]
    OBVIOUS
  <2>2. g = [i \in 1..m |-> g[i]] /\ \A i \in 1..m : g[i] = ones[i + from - 1]
    BY <1>6, <2>1 DEF Ones
  <2>2a. IsRun(g, ones, n, from, to)
    BY <1>2, <1>4, <2>2 DEF IsRun
  <2>3. SumFunction(g) = RunOf(ones, from, to)
    BY <1>0a, <2>2a, SumOfRun
  <2>4. IsFiniteSet(1..m) /\ Cardinality(1..m) = IF 1 > m THEN 0 ELSE m - 1 + 1
    <3>1. 1 \in Int /\ m \in Int
      OBVIOUS
    <3> QED
      BY <3>1, FS_Interval
  <2>5. Len(rows) = IF 1 > m THEN 0 ELSE m
    BY <1>0, <1>1, <1>2, <1>3, <1>4
  <2>6. SumFunction(g) = Cardinality(1..m)
    BY <2>1, <2>4, CountIsSumOfOnes
  <2> QED
    BY <2>3, <2>4, <2>5, <2>6 DEF CustomerCohort
<1> QED
  BY <1>7, <1>8, <1>9, <1>10 DEF TierAdds

(* The runs of the tiers, one after another, are the list.                 *)
Ascend(x, y, z) == x \in Nat /\ y \in Nat /\ z \in Nat /\ x <= y /\ y <= z

(* Four runs that meet are the list.                                       *)
LEMMA FourRuns ==
  ASSUME NEW n, NEW e, IsList(e, n), NEW x, NEW y, NEW z, Ascend(x, y, z),
         NEW x1, NEW y1, NEW z1, Follows(x1, x), Follows(y1, y), Follows(z1, z)
  PROVE  /\ RunOf(e, 1, n) = RunOf(e, 1, x) + RunOf(e, x1, y) + RunOf(e, y1, z) + RunOf(e, z1, n)
         /\ RunOf(e, 1, n) = RunOf(e, 1, z) + RunOf(e, z1, n)
         /\ RunOf(e, 1, x) \in Int /\ RunOf(e, x1, y) \in Int
         /\ RunOf(e, y1, z) \in Int /\ RunOf(e, z1, n) \in Int
<1>0. /\ x \in Nat /\ y \in Nat /\ z \in Nat /\ n \in Nat
      /\ x <= y \/ n <= y
      /\ y <= z \/ n <= z
      /\ z <= n \/ n <= n
  BY DEF Ascend, IsList
<1>1. /\ RunOf(e, 1, y) = RunOf(e, 1, x) + RunOf(e, x1, y)
      /\ RunOf(e, 1, x) \in Int /\ RunOf(e, x1, y) \in Int
  BY <1>0, RunsAddUp
<1>2. /\ RunOf(e, 1, z) = RunOf(e, 1, y) + RunOf(e, y1, z)
      /\ RunOf(e, 1, y) \in Int /\ RunOf(e, y1, z) \in Int
  BY <1>0, RunsAddUp
<1>3. /\ RunOf(e, 1, n) = RunOf(e, 1, z) + RunOf(e, z1, n)
      /\ RunOf(e, 1, z) \in Int /\ RunOf(e, z1, n) \in Int
  BY <1>0, RunsAddUp
<1> QED
  BY <1>1, <1>2, <1>3

(* So are two.                                                             *)
LEMMA TwoRuns ==
  ASSUME NEW n, NEW e, IsList(e, n), NEW z, NEW z1, Follows(z1, z)
  PROVE  RunOf(e, 1, n) = RunOf(e, 1, z) + RunOf(e, z1, n)
<1>1. n \in Nat /\ (z <= n \/ n <= n)
  BY DEF IsList
<1> QED
  BY <1>1, RunsAddUp

(* The sums of four runs that meet are the sum of the list.                *)
LEMMA SumOfRuns ==
  ASSUME NEW n, NEW e, IsList(e, n), NEW x, NEW y, NEW z, Ascend(x, y, z),
         NEW x1, NEW y1, NEW z1, Follows(x1, x), Follows(y1, y), Follows(z1, z),
         NEW g, g = [i \in 1..4 |-> g[i]],
         g[1] = RunOf(e, 1, x), g[2] = RunOf(e, x1, y), g[3] = RunOf(e, y1, z), g[4] = RunOf(e, z1, n)
  PROVE  SumFunction(g) = RunOf(e, 1, n)
<1>1. /\ RunOf(e, 1, n) = RunOf(e, 1, x) + RunOf(e, x1, y) + RunOf(e, y1, z) + RunOf(e, z1, n)
      /\ RunOf(e, 1, x) \in Int /\ RunOf(e, x1, y) \in Int
      /\ RunOf(e, y1, z) \in Int /\ RunOf(e, z1, n) \in Int
  BY FourRuns
<1>2. g \in [1..4 -> Int]
  BY <1>1
<1>3. SumFunction(g) = g[1] + g[2] + g[3] + g[4]
  BY <1>2, SumOfFour
<1> QED
  BY <1>1, <1>3

(* The tiers of a ranking add up to it.                                    *)
LEMMA TiersOf ==
  ASSUME NEW n \in Nat, NEW R, NEW ranked \in [1..n -> R], NEW revenue \in [1..n -> Int],
         NEW orders \in [1..n -> Int], AmountsOf(ranked, revenue, orders)
  PROVE  TiersAddUp(CustomerTiers(ranked))
<1>1. PICK tiers : tiers = CustomerTiers(ranked)
  OBVIOUS
<1>2. ranked \in Seq(R) /\ Len(ranked) = n
  OBVIOUS
<1>3a. Tiers[1] \in Nat /\ Tiers[2] \in Nat /\ Tiers[3] \in Nat
  BY TiersGrow
<1>3b. PICK x \in Nat : x = Tiers[1]
  BY <1>3a
<1>3c. PICK y \in Nat : y = Tiers[2]
  BY <1>3a
<1>3d. PICK z \in Nat : z = Tiers[3]
  BY <1>3a
<1>3. x = Tiers[1] /\ y = Tiers[2] /\ z = Tiers[3] /\ x <= y /\ y <= z
  BY <1>3b, <1>3c, <1>3d, TiersGrow
<1>4. PICK ones \in [1..n -> Int] : ones = [i \in 1..n |-> 1]
  <2>1. [i \in 1..n |-> 1] \in [1..n -> Int]
    OBVIOUS
  <2> QED
    BY <2>1
<1>4a. PICK x1 \in Nat : x1 = x + 1 /\ Place(x1) /\ Follows(x1, x)
  BY DEF Place, Follows
<1>4b. PICK y1 \in Nat : y1 = y + 1 /\ Place(y1) /\ Follows(y1, y)
  BY DEF Place, Follows
<1>4c. PICK z1 \in Nat : z1 = z + 1 /\ Place(z1) /\ Follows(z1, z)
  BY DEF Place, Follows
<1>4d. IsList(revenue, n) /\ IsList(orders, n) /\ IsList(ones, n) /\ Ascend(x, y, z)
  BY <1>3, <1>4 DEF IsList, Ascend
<1>4e. /\ Ascend(x, y, z) /\ Follows(x1, x) /\ Follows(y1, y) /\ Follows(z1, z)
       /\ IsList(revenue, n) /\ IsList(orders, n) /\ IsList(ones, n)
  BY <1>4a, <1>4b, <1>4c, <1>4d
<1>5. /\ tiers.top[1] = Tier(ranked, 1, x) /\ tiers.top[3] = Tier(ranked, 1, z)
      /\ tiers.next = Tier(ranked, x1, y) /\ tiers.nextBut1 = Tier(ranked, y1, z)
      /\ tiers.rest = Tier(ranked, z1, n) /\ tiers.all = CustomerCohort(ranked)
  BY <1>1, <1>2, <1>3, <1>4a, <1>4b, <1>4c, TiersGrow DEF CustomerTiers, Tier
<1>6. SubSeq(ranked, 1, n) = ranked
  BY <1>2
<1>7. tiers.all = Tier(ranked, 1, n)
  BY <1>2, <1>5, <1>6 DEF Tier
<1>8. ASSUME NEW from, Place(from), NEW to, to \in Nat
      PROVE  TierAdds(Tier(ranked, from, to), revenue, orders, ones, from, to)
  <2>1. Ones(ones, n)
    BY <1>4 DEF Ones
  <2> QED
    BY <1>4d, <1>8, <2>1, TierIs
<1>9. Place(1)
  BY DEF Place
<1>10. PICK parts : parts = <<tiers.top[1], tiers.next, tiers.nextBut1, tiers.rest>>
  OBVIOUS
<1>11. /\ parts[1] = Tier(ranked, 1, x) /\ parts[2] = Tier(ranked, x1, y)
       /\ parts[3] = Tier(ranked, y1, z) /\ parts[4] = Tier(ranked, z1, n)
  BY <1>5, <1>10
<1>12. /\ TierAdds(parts[1], revenue, orders, ones, 1, x)
       /\ TierAdds(parts[2], revenue, orders, ones, x1, y)
       /\ TierAdds(parts[3], revenue, orders, ones, y1, z)
       /\ TierAdds(parts[4], revenue, orders, ones, z1, n)
       /\ TierAdds(tiers.all, revenue, orders, ones, 1, n)
       /\ TierAdds(tiers.top[3], revenue, orders, ones, 1, z)
       /\ TierAdds(tiers.rest, revenue, orders, ones, z1, n)
  <2>1. /\ TierAdds(Tier(ranked, 1, x), revenue, orders, ones, 1, x)
        /\ TierAdds(Tier(ranked, 1, z), revenue, orders, ones, 1, z)
        /\ TierAdds(Tier(ranked, 1, n), revenue, orders, ones, 1, n)
    BY <1>8, <1>9
  <2>2. TierAdds(Tier(ranked, x1, y), revenue, orders, ones, x1, y)
    BY <1>4a, <1>8
  <2>3. TierAdds(Tier(ranked, y1, z), revenue, orders, ones, y1, z)
    BY <1>4b, <1>8
  <2>4. TierAdds(Tier(ranked, z1, n), revenue, orders, ones, z1, n)
    BY <1>4c, <1>8
  <2> QED
    BY <1>5, <1>7, <1>11, <2>1, <2>2, <2>3, <2>4
<1>13. SumOver(1..4, LAMBDA i : parts[i].revenue) = tiers.all.revenue
  <2>1. PICK g : g = [i \in 1..4 |-> parts[i].revenue]
    OBVIOUS
  <2>2. /\ g[1] = RunOf(revenue, 1, x) /\ g[2] = RunOf(revenue, x1, y)
        /\ g[3] = RunOf(revenue, y1, z) /\ g[4] = RunOf(revenue, z1, n)
    BY <1>12, <2>1 DEF TierAdds
  <2>3. g = [i \in 1..4 |-> g[i]]
    BY <2>1
  <2>4. SumFunction(g) = RunOf(revenue, 1, n)
    BY <1>4e, <2>2, <2>3, SumOfRuns
  <2>5. tiers.all.revenue = RunOf(revenue, 1, n)
    BY <1>12 DEF TierAdds
  <2> QED
    BY <2>1, <2>4, <2>5 DEF SumOver
<1>14. SumOver(1..4, LAMBDA i : parts[i].customers) = tiers.all.customers
  <2>1. PICK g : g = [i \in 1..4 |-> parts[i].customers]
    OBVIOUS
  <2>2. /\ g[1] = RunOf(ones, 1, x) /\ g[2] = RunOf(ones, x1, y)
        /\ g[3] = RunOf(ones, y1, z) /\ g[4] = RunOf(ones, z1, n)
    BY <1>12, <2>1 DEF TierAdds
  <2>3. g = [i \in 1..4 |-> g[i]]
    BY <2>1
  <2>4. SumFunction(g) = RunOf(ones, 1, n)
    BY <1>4e, <2>2, <2>3, SumOfRuns
  <2>5. tiers.all.customers = RunOf(ones, 1, n)
    BY <1>12 DEF TierAdds
  <2> QED
    BY <2>1, <2>4, <2>5 DEF SumOver
<1>15. tiers.top[3].orders + tiers.rest.orders = tiers.all.orders
  <2>1. /\ tiers.top[3].orders = RunOf(orders, 1, z) /\ tiers.rest.orders = RunOf(orders, z1, n)
        /\ tiers.all.orders = RunOf(orders, 1, n)
    BY <1>12 DEF TierAdds
  <2>1a. IsList(orders, n) /\ Follows(z1, z)
    BY <1>4e
  <2>2. RunOf(orders, 1, n) = RunOf(orders, 1, z) + RunOf(orders, z1, n)
    BY <2>1a, TwoRuns
  <2> QED
    BY <2>1, <2>2
<1> QED
  BY <1>1, <1>10, <1>13, <1>14, <1>15 DEF TiersAddUp

(* The tiers of the customers of a period are a partition of them.         *)
LEMMA TiersDoAddUp ==
  ASSUME BookFits, NEW f
  PROVE  TiersAddUp(CustomerTiers(RankedCustomers(CustomerAggregate(f))))
<1>1. PICK S : S = Sales(f)
  OBVIOUS
<1>2. PICK V : V = AnalyticOrderValues(S, f)
  OBVIOUS
<1>3. ValuesOn(V, S, f)
  BY <1>1, <1>2, SalesAreFound, ValuesFit DEF Sales
<1>4. IsFiniteSet(S) /\ S \in SUBSET DOMAIN book /\ DOMAIN V = S /\ \A o \in S : V[o].current \in Int
  BY <1>3 DEF ValuesOn, AmountsFit
<1>5. PICK bought : bought = CustomerAggregate(f) /\ CustomersAre(bought, V)
  BY <1>1, <1>2, CustomerRowsAre DEF CustomerAggregate
<1>6. PICK known : known = {c \in DOMAIN CustomerTable : {c} \in DOMAIN bought}
  OBVIOUS
<1>7. IsFiniteSet(known)
  <2>1. known \subseteq BuyersOf(S)
    BY <1>4, <1>5, <1>6 DEF CustomersAre, BuyersOf
  <2>2. IsFiniteSet(BuyersOf(S))
    BY <1>4, BuyersFinite
  <2> QED
    BY <2>1, <2>2, FS_Subset
<1>8. ASSUME NEW c \in known
      PROVE  bought[{c}].revenue \in Int /\ bought[{c}].orders \in Int
  <2>1. PICK T \in SUBSET S : T = OfBuyer(S, {c})
    BY DEF OfBuyer
  <2>2. bought[{c}].orders = Cardinality(T) /\ bought[{c}].revenue = Worth(V, T)
    BY <1>4, <1>5, <1>6, <2>1 DEF CustomersAre
  <2>3. IsFiniteSet(T)
    BY <1>4, FS_Subset
  <2>4. Cardinality(T) \in Int
    BY <2>3, FS_CardinalityType
  <2>5. PICK e \in [T -> Int] : e = [o \in T |-> V[o].current]
    BY <1>4
  <2>6. SumFunction(e) \in Int
    BY <2>3, SumTyped
  <2> QED
    BY <2>2, <2>4, <2>5, <2>6 DEF Worth
<1>8a. RankedWith(bought, known)
  BY <1>6, <1>8 DEF RankedWith
<1>9. PICK n \in Nat : n = Cardinality(known)
  BY <1>7, FS_CardinalityType
<1>10. PICK s \in [1..n -> known] : RankedCustomers(bought) = [i \in 1..n |-> bought[{s[i]}]]
  <2>1. \E s \in [1..Cardinality(known) -> known] :
          RankedCustomers(bought) = [i \in 1..Cardinality(known) |-> bought[{s[i]}]]
    BY <1>7, <1>8a, RankedAre
  <2> QED
    BY <1>9, <2>1
<1>11. PICK ranked : ranked = RankedCustomers(bought)
  OBVIOUS
<1>12. PICK R : R = {bought[{c}] : c \in known}
  OBVIOUS
<1>13. ranked \in [1..n -> R]
  BY <1>10, <1>11, <1>12
<1>14. \A i \in 1..n : s[i] \in known /\ ranked[i] = bought[{s[i]}]
  BY <1>10, <1>11
<1>15. PICK revenue \in [1..n -> Int] : revenue = [i \in 1..n |-> ranked[i].revenue]
  BY <1>8, <1>14
<1>16. PICK orders \in [1..n -> Int] : orders = [i \in 1..n |-> ranked[i].orders]
  BY <1>8, <1>14
<1>17. AmountsOf(ranked, revenue, orders)
  BY <1>13, <1>15, <1>16 DEF AmountsOf
<1>18. TiersAddUp(CustomerTiers(ranked))
  BY <1>13, <1>17, TiersOf
<1> QED
  BY <1>5, <1>11, <1>18

-----------------------------------------------------------------------------
(* The sales of customers whose state is known are some of the sales.      *)
StatesOf(o) ==
  UNION {CustomerTable[c].state : c \in book[o].buyer \cap DOMAIN CustomerTable}

(* An order's customer has one state at most.                              *)
LEMMA OneState ==
  ASSUME BookFits, NEW o \in DOMAIN book
  PROVE  Column(StatesOf(o))
<1>1. Column(book[o].buyer)
  BY DEF BookFits, RowFits
<1>2. \A c \in DOMAIN CustomerTable : Column(CustomerTable[c].state)
  BY CatalogueTyped
<1> QED
  BY <1>1, <1>2 DEF Column, StatesOf

(* The map shows no more than was sold.                                    *)
LEMMA MapDoesAddUp ==
  ASSUME BookFits, BookIsSound, NEW f
  PROVE  MapAddsUp(f, summary_for_bounds(f, date_bounds(f)))
<1>1. PICK S : S = SalesIn(f, date_bounds(f))
  OBVIOUS
<1>2. PICK V : V = AnalyticOrderValues(S, f)
  OBVIOUS
<1>3. ValuesOn(V, S, f)
  BY <1>1, <1>2, SalesAreFound, ValuesFit
<1>4. /\ IsFiniteSet(S) /\ S \in SUBSET DOMAIN book /\ DOMAIN V = S
      /\ \A o \in S : V[o].current \in Int /\ V[o].current >= 0
  BY <1>3 DEF ValuesOn, AmountsFit
<1>5. PICK e \in [S -> Int] : e = [o \in S |-> V[o].current]
  BY <1>4
<1>6. PICK c : c = [o \in S |-> StatesOf(o)]
  OBVIOUS
<1>7. \A o \in S : Column(c[o])
  BY <1>4, <1>6, OneState
<1>8. PICK D : D = ValuesOf(c, S)
  OBVIOUS
<1>9. PICK T \in SUBSET S : T = WithValue(c, S)
  BY DEF WithValue
<1>10. PICK states : states = geography(f)
  OBVIOUS
<1>11. D = UNION {StatesOf(o) : o \in S}
  BY <1>6, <1>8 DEF ValuesOf
<1>12. DOMAIN states = D
  BY <1>1, <1>2, <1>4, <1>10, <1>11 DEF geography, ByState, StatesOf
<1>13. ASSUME NEW v \in D
       PROVE  states[v].revenue = SumFunction(Part(e, Holding(c, S, v)))
  <2>1. PICK M \in SUBSET S : M = Holding(c, S, v)
    BY DEF Holding
  <2>2. M = {o \in S : v \in StatesOf(o)}
    BY <1>6, <2>1 DEF Holding
  <2>3. states[v].revenue = SumFunction([o \in M |-> V[o].current])
    BY <1>1, <1>2, <1>4, <1>10, <1>11, <2>2 DEF geography, ByState, StatesOf, SumOver
  <2>4. Part(e, M) = [o \in M |-> V[o].current]
    BY <1>5 DEF Part
  <2> QED
    BY <2>1, <2>3, <2>4
<1>14. PICK g : g = [v \in D |-> states[v].revenue]
  OBVIOUS
<1>15. g = [v \in D |-> g[v]] /\ \A v \in D : g[v] = SumFunction(Part(e, Holding(c, S, v)))
  BY <1>13, <1>14
<1>16. SumFunction(g) = SumFunction(Part(e, T))
  BY <1>4, <1>7, <1>8, <1>9, <1>15, SumByColumn
<1>17. \A o \in S \ T : e[o] >= 0
  BY <1>4, <1>5
<1>18. SumFunction(Part(e, T)) <= SumFunction(e)
  BY <1>4, <1>17, SumOfFewer
<1>19. Field(states, LAMBDA s : s.revenue) = SumFunction(g)
  BY <1>12, <1>14 DEF Field, SumOver
<1>20. summary_for_bounds(f, date_bounds(f)).netRevenue = SumFunction(e)
  <2>1. summary_for_bounds(f, date_bounds(f)).netRevenue = NetOf(V)
    BY <1>1, <1>2, FiguresAre
  <2> QED
    BY <1>4, <1>5, <2>1 DEF NetOf, SumOver
<1> QED
  BY <1>10, <1>16, <1>18, <1>19, <1>20 DEF MapAddsUp

-----------------------------------------------------------------------------
(* What the quality report counts as known is part of what there is.       *)
LEMMA FewerThan ==
  ASSUME NEW S, IsFiniteSet(S), NEW T \in SUBSET S
  PROVE  Cardinality(T) <= Cardinality(S) /\ Cardinality(T) \in Nat /\ IsFiniteSet(T)
<1>1. IsFiniteSet(T)
  BY FS_Subset
<1>2. Cardinality(T) \in Nat
  BY <1>1, FS_CardinalityType
<1>3. Cardinality(T) <= Cardinality(S)
  BY FS_Subset
<1> QED
  BY <1>1, <1>2, <1>3

(* No share of the quality report is above the whole.                      *)
LEMMA QualityDoesAddUp ==
  ASSUME BookFits
  PROVE  QualityAddsUp
<1>1. PICK B : B = DOMAIN book
  OBVIOUS
<1>2. IsFiniteSet(B)
  BY <1>1, OrdersFinite
<1>3. PICK c : c = DataQuality.coverage
  OBVIOUS
<1>4. /\ c.orders = OrderCoverage.orders /\ c.withCustomer = OrderCoverage.withCustomer
      /\ c.withSeller = OrderCoverage.withSeller /\ c.recognized = OrderCoverage.recognized
      /\ c.items = ItemCoverage.items /\ c.withProduct = ItemCoverage.withProduct
  BY <1>3 DEF DataQuality, Joined, OrderCoverage, ItemCoverage
<1>5. c.orders = Cardinality(B)
  BY <1>1, <1>4 DEF OrderCoverage
<1>6. c.withCustomer <= c.orders
  <2>1. PICK T \in SUBSET B : T = {o \in DOMAIN book : book[o].buyer \cap DOMAIN CustomerTable # {}}
    BY <1>1
  <2>2. Cardinality(T) <= Cardinality(B)
    BY <1>2, FewerThan
  <2> QED
    BY <1>4, <1>5, <2>1, <2>2 DEF OrderCoverage
<1>7. c.withSeller <= c.orders
  <2>1. PICK T \in SUBSET B : T = {o \in DOMAIN book : book[o].seller \cap DOMAIN SellerTable # {}}
    BY <1>1
  <2>2. Cardinality(T) <= Cardinality(B)
    BY <1>2, FewerThan
  <2> QED
    BY <1>4, <1>5, <2>1, <2>2 DEF OrderCoverage
<1>8. c.recognized <= c.orders
  <2>1. PICK T \in SUBSET B : T = OfStatus(DOMAIN book, CANCELLED_ORDER_STATUSES
                     \cup QUOTE_ORDER_STATUSES \cup VALID_SALE_STATUSES)
    BY <1>1 DEF OfStatus
  <2>2. Cardinality(T) <= Cardinality(B)
    BY <1>2, FewerThan
  <2> QED
    BY <1>4, <1>5, <2>1, <2>2 DEF OrderCoverage
<1>9. c.withProduct <= c.items
  <2>1. PICK L : L = LinesOf(B)
    OBVIOUS
  <2>2. IsFiniteSet(L)
    BY <1>1, <2>1, LinesFinite
  <2>3. PICK T \in SUBSET L : T = {l \in LinesOf(DOMAIN book) : Line(l).good \cap DOMAIN ProductTable # {}}
    BY <1>1, <2>1
  <2>4. Cardinality(T) <= Cardinality(L) /\ Cardinality(T) \in Nat
    BY <2>2, FewerThan
  <2>5. PICK k \in [L -> B] : k = [l \in L |-> l[1]]
    BY <2>1, LinesAre DEF IsLineOf
  <2>6. SumFunction([o \in B |-> Cardinality(ClassOf(k, L, o))]) = Cardinality(L)
    BY <1>2, <2>2, CountInClasses
  <2>7. ASSUME NEW o \in B
        PROVE  /\ Cardinality(ClassOf(k, L, o)) <= Len(book[o].items)
               /\ Cardinality(ClassOf(k, L, o)) \in Int /\ Len(book[o].items) \in Int
    <3>1. PICK C \in SUBSET L : C = ClassOf(k, L, o)
      BY DEF ClassOf
    <3>2. PICK n \in Nat : n = Len(book[o].items) /\ DOMAIN book[o].items = 1..n
      BY <1>1 DEF BookFits, RowFits
    <3>3. PICK I : I = 1..n
      OBVIOUS
    <3>4. IsFiniteSet(I) /\ Cardinality(I) = n
      <4>1. 1 \in Int /\ n \in Int
        OBVIOUS
      <4>2. IsFiniteSet(I) /\ Cardinality(I) = IF 1 > n THEN 0 ELSE n - 1 + 1
        BY <3>3, <4>1, FS_Interval
      <4> QED
        BY <4>2
    <3>5. \A l \in C : l = <<o, l[2]>> /\ l[2] \in I
      BY <2>1, <2>5, <3>1, <3>2, <3>3, LinesAre DEF IsLineOf, ClassOf
    <3>6. PICK h \in [C -> I] : h = [l \in C |-> l[2]]
      BY <3>5
    <3>7. \A l, m \in C : h[l] = h[m] => l = m
      BY <3>5, <3>6
    <3>8. h \in Injection(C, I)
      BY <3>7 DEF Injection, IsInjective
    <3>9. Cardinality(C) <= Cardinality(I)
      BY <3>4, <3>8, FS_Injection
    <3>10. IsFiniteSet(C)
      BY <2>2, FS_Subset
    <3>11. Cardinality(C) \in Nat
      BY <3>10, FS_CardinalityType
    <3> QED
      BY <3>1, <3>2, <3>4, <3>9, <3>11
  <2>8. PICK a \in [B -> Int] : a = [o \in B |-> Cardinality(ClassOf(k, L, o))]
    BY <2>7
  <2>9. PICK b \in [B -> Int] : b = [o \in B |-> Len(book[o].items)]
    BY <2>7
  <2>10. \A o \in B : a[o] <= b[o]
    BY <2>7, <2>8, <2>9
  <2>11. SumFunction(a) <= SumFunction(b)
    BY <1>2, <2>10, SumOfLess
  <2>12. c.items = SumFunction(b)
    BY <1>1, <1>4, <2>9 DEF ItemCoverage, SumOver
  <2>13. c.withProduct = Cardinality(T)
    BY <1>4, <2>3 DEF ItemCoverage
  <2>14. SumFunction(b) \in Int /\ SumFunction(a) \in Int
    BY <1>2, SumTyped
  <2>15. Cardinality(L) = SumFunction(a)
    BY <2>6, <2>8
  <2> QED
    BY <2>4, <2>11, <2>12, <2>13, <2>14, <2>15
<1> QED
  BY <1>3, <1>6, <1>7, <1>8, <1>9 DEF QualityAddsUp

(* Of some rows, the one that earned least and the one that earned most.   *)
LEMMA GreatestAndLeast ==
  ASSUME NEW S, IsFiniteSet(S), S # {}, NEW f \in [S -> Int]
  PROVE  /\ \E x \in S : \A y \in S : f[x] <= f[y]
         /\ \E x \in S : \A y \in S : f[y] <= f[x]
<1>1. PICK n \in Nat : n = Cardinality(S)
  <2>1. Cardinality(S) \in Nat
    BY FS_CardinalityType
  <2> QED
    BY <2>1
<1>2. PICK s \in [1..n -> S] : InRanks(s, f, f)
  <2>1. \E s \in [1..Cardinality(S) -> S] : InRanks(s, f, f)
    BY RankingExists
  <2> QED
    BY <1>1, <2>1
<1>3. \A i, j \in 1..n : i < j => s[i] # s[j] /\ f[s[j]] <= f[s[i]]
  <2>1. \A i \in 1..n : s[i] \in S /\ f[s[i]] \in Int
    OBVIOUS
  <2> QED
    BY <1>2, <2>1 DEF InRanks, Outranks
<1>4. s \in Bijection(1..n, S)
  <2>1. \A i, j \in DOMAIN s : i < j => s[i] # s[j]
    BY <1>3
  <2> QED
    BY <1>1, <2>1, RankingIsAll
<1>5. \A y \in S : \E i \in 1..n : s[i] = y
  BY <1>4 DEF Bijection, Surjection
<1>6. 1 \in 1..n /\ n \in 1..n
  BY <1>5
<1>7. \A i \in 1..n : f[s[n]] <= f[s[i]] /\ f[s[i]] <= f[s[1]]
  <2>1. \A i \in 1..n : s[i] \in S /\ f[s[i]] \in Int
    OBVIOUS
  <2> QED
    BY <1>3, <1>6, <2>1
<1>8. s[1] \in S /\ s[n] \in S
  BY <1>6
<1> QED
  BY <1>5, <1>7, <1>8

-----------------------------------------------------------------------------
(* The lines of a product, and the rows of the products sold.              *)
OfGood(L, g) == {l \in L : g \in Line(l).good}
GoodsOf(L) == UNION {Line(l).good : l \in L}
ProductsAre(rows, L) ==
  /\ DOMAIN rows = GoodsOf(L)
  /\ \A g \in DOMAIN rows :
       /\ rows[g].revenue = LinesValue(OfGood(L, g))
       /\ rows[g].quantity = LinesQuantity(OfGood(L, g))
       /\ rows[g].orders = Cardinality({l[1] : l \in OfGood(L, g)})

(* The row of a product stands for its lines among the sales.              *)
LEMMA ProductRowsAre ==
  ASSUME BookFits, NEW f, NEW L, L = ProductLines(Sales(f), f)
  PROVE  /\ ProductsAre(ProductAggregate(f), L)
         /\ L \in SUBSET LinesOf(Sales(f)) /\ Sales(f) \in SUBSET DOMAIN book
         /\ \A g \in GoodsOf(L) : ChosenProduct(g, f)
         /\ \A l \in L : \A g \in Line(l).good : Line(l).good = {g}
<1>1. Sales(f) \in SUBSET DOMAIN book
  BY SalesAreFound DEF Sales
<1>2. L \in SUBSET LinesOf(Sales(f))
  BY <1>1, ProductLinesAre
<1>3. \A l \in L : \A g \in Line(l).good : Line(l).good = {g}
  BY <1>1, <1>2, LineFitsIn DEF LineFits, Column
<1>4. \A l \in L : \E g \in Line(l).good : ChosenProduct(g, f)
  BY DEF ProductLines
<1>5. \A g \in GoodsOf(L) : ChosenProduct(g, f)
  BY <1>3, <1>4 DEF GoodsOf
<1>6. {The(Line(l).good) : l \in L} = GoodsOf(L)
  <2>1. \A l \in L : Line(l).good = {The(Line(l).good)}
    BY <1>3, <1>4 DEF The
  <2> QED
    BY <2>1 DEF GoodsOf
<1>7. PICK rows : rows = ProductAggregate(f)
  OBVIOUS
<1>8. DOMAIN rows = GoodsOf(L)
  BY <1>6, <1>7 DEF ProductAggregate
<1>9. ASSUME NEW g \in GoodsOf(L)
      PROVE  /\ rows[g].revenue = LinesValue(OfGood(L, g))
             /\ rows[g].quantity = LinesQuantity(OfGood(L, g))
             /\ rows[g].orders = Cardinality({l[1] : l \in OfGood(L, g)})
  BY <1>6, <1>7 DEF ProductAggregate, OfGood
<1> QED
  BY <1>1, <1>2, <1>3, <1>5, <1>7, <1>8, <1>9 DEF ProductsAre

(* Rows with whole amounts.                                                *)
RowsFit(rows, D) ==
  /\ D = DOMAIN rows /\ IsFiniteSet(D)
  /\ \A g \in D : rows[g].revenue \in Int /\ (BookIsSound => rows[g].revenue >= 0)

(* The rows of the products hold whole numbers.                            *)
LEMMA ProductRowsFit ==
  ASSUME BookFits, NEW f
  PROVE  /\ RowsFit(ProductAggregate(f), DOMAIN ProductAggregate(f))
         /\ \A g \in DOMAIN ProductAggregate(f) : ChosenProduct(g, f)
<1>1. PICK L : L = ProductLines(Sales(f), f)
  OBVIOUS
<1>2. PICK rows : rows = ProductAggregate(f)
  OBVIOUS
<1>3. /\ ProductsAre(rows, L) /\ L \in SUBSET LinesOf(Sales(f)) /\ Sales(f) \in SUBSET DOMAIN book
      /\ \A g \in GoodsOf(L) : ChosenProduct(g, f)
  BY <1>1, <1>2, ProductRowsAre
<1>4. DOMAIN rows \subseteq DOMAIN ProductTable
  BY <1>3 DEF ProductsAre, ChosenProduct
<1>5. IsFiniteSet(DOMAIN rows)
  BY <1>4, CatalogueTyped, FS_Subset
<1>6. ASSUME NEW g \in DOMAIN rows
      PROVE  rows[g].revenue \in Int /\ (BookIsSound => rows[g].revenue >= 0)
  <2>1. PICK M \in SUBSET L : M = OfGood(L, g)
    BY DEF OfGood
  <2>2. M \in SUBSET LinesOf(Sales(f))
    BY <1>3
  <2>3. LinesValue(M) \in Int /\ (BookIsSound => LinesValue(M) >= 0)
    BY <1>3, <2>2, LinesSums
  <2> QED
    BY <1>3, <2>1, <2>3 DEF ProductsAre
<1> QED
  BY <1>2, <1>3, <1>5, <1>6 DEF RowsFit, ProductsAre

-----------------------------------------------------------------------------
(* The classes of the rows are the same money and as many rows.            *)
LEMMA ClassesAddUp ==
  ASSUME NEW rows, NEW D, RowsFit(rows, D)
  PROVE  /\ Field(AbcBreakdown(rows), LAMBDA k : k.revenue) = Revenues(rows)
         /\ Field(AbcBreakdown(rows), LAMBDA k : k.entities) = Cardinality(D)
<1>0. D = DOMAIN rows /\ IsFiniteSet(D) /\ \A x \in D : rows[x].revenue \in Int
  BY DEF RowsFit
<1>1. PICK k : k = [x \in D |-> IF Revenues(rows) = 0 THEN "C" ELSE AbcClass(rows, x)]
  OBVIOUS
<1>2. DOMAIN k = D /\ k = [x \in D |-> k[x]]
  BY <1>1
<1>3. PICK K : K = KeysOf(k, D)
  OBVIOUS
<1>4. PICK abc : abc = AbcBreakdown(rows)
  OBVIOUS
<1>5. DOMAIN abc = K
  BY <1>0, <1>1, <1>3, <1>4 DEF AbcBreakdown, KeysOf
<1>6. ASSUME NEW b \in K
      PROVE  /\ abc[b].entities = Cardinality(ClassOf(k, D, b))
             /\ abc[b].revenue = SumFunction([x \in ClassOf(k, D, b) |-> rows[x].revenue])
  <2>1. {x \in DOMAIN rows : (IF Revenues(rows) = 0 THEN "C" ELSE AbcClass(rows, x)) = b}
          = ClassOf(k, D, b)
    BY <1>0, <1>1 DEF ClassOf
  <2> QED
    BY <1>4, <1>5, <2>1 DEF AbcBreakdown, SumOver
<1>7. SumFunction([b \in K |-> abc[b].entities]) = Cardinality(D)
  <2>1. PICK g : g = [b \in K |-> abc[b].entities]
    OBVIOUS
  <2>2. g = [b \in KeysOf(k, D) |-> g[b]] /\ \A b \in KeysOf(k, D) : g[b] = Cardinality(ClassOf(k, D, b))
    BY <1>3, <1>6, <2>1
  <2>2a. IsFiniteSet(D)
    BY <1>0
  <2>3. SumFunction(g) = Cardinality(D)
    BY <1>2, <2>2, <2>2a, CountByGroups
  <2> QED
    BY <2>1, <2>3
<1>8. SumFunction([b \in K |-> abc[b].revenue]) = Revenues(rows)
  <2>1. PICK g : g = [b \in K |-> abc[b].revenue]
    OBVIOUS
  <2>2. PICK e \in [D -> Int] : e = [x \in D |-> rows[x].revenue]
    BY <1>0
  <2>3. \A b \in K : ClassOf(k, D, b) \subseteq D
    BY DEF ClassOf
  <2>4. \A b \in K : Part(e, ClassOf(k, D, b)) = [x \in ClassOf(k, D, b) |-> rows[x].revenue]
    BY <2>2, <2>3 DEF Part
  <2>5. /\ g = [b \in KeysOf(k, D) |-> g[b]]
        /\ \A b \in KeysOf(k, D) : g[b] = SumFunction(Part(e, ClassOf(k, D, b)))
    BY <1>3, <1>6, <2>1, <2>4
  <2>5a. IsFiniteSet(D)
    BY <1>0
  <2>6. SumFunction(g) = SumFunction(e)
    BY <1>2, <2>5, <2>5a, SumByGroups
  <2> QED
    BY <1>0, <2>1, <2>2, <2>6 DEF Revenues, SumOver
<1> QED
  BY <1>4, <1>5, <1>7, <1>8 DEF Field, SumOver

(* The sum over a row, when there is one.                                  *)
LEMMA SumOfARow ==
  ASSUME NEW v \in Int, NEW r
  PROVE  SumFunction([x \in {r} |-> v]) = v
<1>1. PICK f : f = [x \in {r} |-> v]
  OBVIOUS
<1>2. f[r] \in Int /\ f[r] = v /\ Part(f, {r}) = f
  BY <1>1 DEF Part
<1> QED
  BY <1>1, <1>2, SumOfSingle

(* What is earned up to the row that earned least is everything; what is   *)
(* earned is not negative.                                                 *)
LEMMA EarningsAre ==
  ASSUME BookIsSound, NEW rows, NEW D, RowsFit(rows, D), NEW E, E = {g \in D : rows[g].revenue > 0}
  PROVE  /\ Revenues(rows) \in Int /\ Revenues(rows) >= 0
         /\ SumFunction([g \in E |-> rows[g].revenue]) = Revenues(rows)
         /\ \A g \in D : RevenueUpTo(rows, g) \in Int
         /\ E # {} => \E g \in E : RevenueUpTo(rows, g) = Revenues(rows)
<1>0. D = DOMAIN rows /\ IsFiniteSet(D) /\ \A x \in D : rows[x].revenue \in Int /\ rows[x].revenue >= 0
  BY DEF RowsFit
<1>1. PICK e \in [D -> Int] : e = [x \in D |-> rows[x].revenue]
  BY <1>0
<1>2. Revenues(rows) = SumFunction(e)
  BY <1>0, <1>1 DEF Revenues, SumOver
<1>3. IsFiniteSet(D) /\ \A x \in D : e[x] >= 0
  BY <1>0, <1>1
<1>4. SumFunction(e) \in Int /\ SumFunction(e) >= 0
  BY <1>3, SumNotNegative
<1>5. ASSUME NEW T \in SUBSET D, E \subseteq T
      PROVE  SumFunction([x \in T |-> rows[x].revenue]) = SumFunction(e)
  <2>1. \A x \in D \ T : e[x] = 0
    BY <1>0, <1>1, <1>5
  <2>2. SumFunction(e) = SumFunction(Part(e, T)) + SumFunction(Part(e, D \ T))
        /\ SumFunction(Part(e, T)) \in Int
    BY <1>3, SumOfParts
  <2>3. Part(e, D \ T) \in [D \ T -> {0}]
    BY <2>1 DEF Part
  <2>4. IsFiniteSet(D \ T)
    BY <1>3, FS_Subset
  <2>5. SumFunction(Part(e, D \ T)) = 0
    BY <2>3, <2>4, SumOfZeros
  <2>6. Part(e, T) = [x \in T |-> rows[x].revenue]
    BY <1>1 DEF Part
  <2> QED
    BY <2>2, <2>5, <2>6
<1>6. ASSUME NEW g \in D PROVE RevenueUpTo(rows, g) \in Int
  <2>1. PICK T \in SUBSET D : T = {y \in DOMAIN rows : rows[y].revenue >= rows[g].revenue}
    BY <1>0
  <2>2. RevenueUpTo(rows, g) = SumFunction([y \in T |-> rows[y].revenue])
    BY <2>1 DEF RevenueUpTo, SumOver
  <2>3. IsFiniteSet(T)
    BY <1>3, FS_Subset
  <2>4. PICK h \in [T -> Int] : h = [y \in T |-> rows[y].revenue]
    BY <1>0
  <2>5. SumFunction(h) \in Int
    BY <2>3, SumTyped
  <2> QED
    BY <2>2, <2>4, <2>5
<1>7. ASSUME E # {} PROVE \E g \in E : RevenueUpTo(rows, g) = Revenues(rows)
  <2>1. IsFiniteSet(E) /\ E \subseteq D
    BY <1>0, FS_Subset
  <2>2. PICK h \in [E -> Int] : h = [g \in E |-> rows[g].revenue]
    BY <1>0, <2>1
  <2>3. PICK g \in E : \A y \in E : h[g] <= h[y]
    BY <1>7, <2>1, GreatestAndLeast
  <2>4. PICK T \in SUBSET D : T = {y \in DOMAIN rows : rows[y].revenue >= rows[g].revenue}
    BY <1>0
  <2>5. E \subseteq T
    BY <1>0, <2>1, <2>2, <2>3, <2>4
  <2>6. SumFunction([x \in T |-> rows[x].revenue]) = SumFunction(e)
    BY <1>5, <2>5
  <2> QED
    BY <1>2, <2>4, <2>6 DEF RevenueUpTo, SumOver
<1>8. SumFunction([g \in E |-> rows[g].revenue]) = SumFunction(e)
  <2>1. E \in SUBSET D
    OBVIOUS
  <2> QED
    BY <1>5, <2>1
<1> QED
  BY <1>2, <1>4, <1>6, <1>7, <1>8

-----------------------------------------------------------------------------
(* The page of the products shows the rows of those that were sold.        *)
LEMMA PageIs ==
  ASSUME NEW f, NEW sold, NEW D, RowsFit(sold, D), \A g \in D : ChosenProduct(g, f), ~f.activeOnly
  PROVE  LET page == ProductRows(f, sold)
         IN {g \in DOMAIN page : page[g].revenue > 0} = {g \in D : sold[g].revenue > 0}
            /\ \A g \in D : g \in DOMAIN page /\ page[g].abc = AbcClass(sold, g)
<1>0. D = DOMAIN sold /\ \A x \in D : sold[x].revenue \in Int
  BY DEF RowsFit
<1>1. PICK page : page = ProductRows(f, sold)
  OBVIOUS
<1>2. DOMAIN page = ListedProducts(f, D)
  BY <1>0, <1>1 DEF ProductRows
<1>3. D \subseteq DOMAIN page
  BY <1>2 DEF ListedProducts, ChosenProduct
<1>4. ASSUME NEW g \in DOMAIN page, g \in D
      PROVE  page[g].revenue = sold[g].revenue /\ page[g].abc = AbcClass(sold, g)
  <2>1. PICK r : r = sold[g]
    OBVIOUS
  <2>2. /\ page[g].revenue = SumFunction([x \in {r} |-> x.revenue])
        /\ page[g].abc = AbcClass(sold, g)
    BY <1>0, <1>1, <1>2, <1>4, <2>1 DEF ProductRows, SumOver
  <2>3. [x \in {r} |-> x.revenue] = [x \in {r} |-> r.revenue]
    OBVIOUS
  <2>4. r.revenue \in Int
    BY <1>0, <1>4, <2>1
  <2>5. SumFunction([x \in {r} |-> r.revenue]) = r.revenue
    BY <2>4, SumOfARow
  <2> QED
    BY <2>1, <2>2, <2>3, <2>5
<1>5. ASSUME NEW g \in DOMAIN page, g \notin D
      PROVE  page[g].revenue = 0
  <2>1. page[g].revenue = SumFunction([x \in {} |-> x.revenue])
    BY <1>0, <1>1, <1>2, <1>5 DEF ProductRows, SumOver
  <2> QED
    BY <2>1, SumOfNone
<1>6. {g \in DOMAIN page : page[g].revenue > 0} = {g \in D : sold[g].revenue > 0}
  BY <1>3, <1>4, <1>5
<1> QED
  BY <1>1, <1>3, <1>4, <1>6

(* The insights count the rows that earned something, by class.            *)
InsightsAre(i, sold, E) ==
  LET before(percent) == {g \in E : 100 * RevenueUpTo(sold, g) < percent * Revenues(sold)}
  IN /\ i.products = Cardinality(E) /\ i.revenue = SumFunction([g \in E |-> sold[g].revenue])
     /\ i.needed[80] = Cardinality(before(80)) + 1 /\ i.needed[95] = Cardinality(before(95)) + 1
     /\ \A k \in DOMAIN i.abc : i.abc[k] = Cardinality({g \in E : AbcClass(sold, g) = k})
     /\ \E c : /\ DOMAIN c = E /\ c = [g \in E |-> c[g]] /\ DOMAIN i.mix = KeysOf(c, E)
               /\ \A k \in DOMAIN i.mix : i.mix[k] = Cardinality(ClassOf(c, E, k))

(* The insights count the products that earned something.                  *)
LEMMA InsightsFound ==
  ASSUME NEW sold, NEW E, E = {g \in DOMAIN sold : sold[g].revenue > 0}
  PROVE  InsightsAre(product_insights(sold), sold, E)
<1>1. PICK i : i = product_insights(sold)
  OBVIOUS
<1>2. i.products = Cardinality(E) /\ i.revenue = SumFunction([g \in E |-> sold[g].revenue])
  BY <1>1 DEF product_insights, SumOver
<1>3. /\ i.needed[80] = Cardinality({g \in E : 100 * RevenueUpTo(sold, g) < 80 * Revenues(sold)}) + 1
      /\ i.needed[95] = Cardinality({g \in E : 100 * RevenueUpTo(sold, g) < 95 * Revenues(sold)}) + 1
  BY <1>1 DEF product_insights
<1>4. \A k \in DOMAIN i.abc : i.abc[k] = Cardinality({g \in E : AbcClass(sold, g) = k})
  BY <1>1 DEF product_insights
<1>5. PICK c : c = [g \in E |-> IF ProductTable[g].stock <= 0 THEN "sem_estoque" ELSE AbcClass(sold, g)]
  OBVIOUS
<1>6. DOMAIN c = E /\ c = [g \in E |-> c[g]]
  BY <1>5
<1>7. DOMAIN i.mix = KeysOf(c, E)
  BY <1>1, <1>5 DEF product_insights, KeysOf
<1>8. ASSUME NEW k \in DOMAIN i.mix PROVE i.mix[k] = Cardinality(ClassOf(c, E, k))
  <2>1. {g \in E : (IF ProductTable[g].stock <= 0 THEN "sem_estoque" ELSE AbcClass(sold, g)) = k}
          = ClassOf(c, E, k)
    BY <1>5 DEF ClassOf
  <2> QED
    BY <1>1, <2>1 DEF product_insights
<1> QED
  BY <1>1, <1>2, <1>3, <1>4, <1>6, <1>7, <1>8 DEF InsightsAre

(* The ranking and the pairs.                                              *)
LEMMA RankedProductsDoAgree ==
  ASSUME BookFits, NEW f
  PROVE  RankedProductsAgree(f, ProductAggregate(f), RankingProducts(f), associations(f))
<1>1. PICK S : S = Sales(f) /\ S \in SUBSET DOMAIN book /\ S = SalesIn(f, date_bounds(f))
  BY SalesAreFound DEF Sales
<1>2. PICK sold : sold = ProductAggregate(f)
  OBVIOUS
<1>3. PICK P : P = ProductLines(S, f)
  OBVIOUS
<1>4. ProductsAre(sold, P)
  BY <1>1, <1>2, <1>3, ProductRowsAre
<1>5. PICK L \in SUBSET LinesOf(S) : L = {l \in LinesOf(Sales(f)) : Line(l).good \cap DOMAIN ProductTable # {}}
  BY <1>1
<1>6. PICK ranking : ranking = RankingProducts(f)
  OBVIOUS
<1>7. DOMAIN ranking = GoodsOf(L)
  BY <1>5, <1>6 DEF RankingProducts, GoodsOf
<1>8. ASSUME NEW g \in DOMAIN ranking
      PROVE  /\ ranking[g].revenue = LinesValue(OfGood(L, g))
             /\ ranking[g].orders = Cardinality({l[1] : l \in OfGood(L, g)})
  BY <1>5, <1>6, <1>7 DEF RankingProducts, GoodsOf, OfGood
<1>9. ASSUME ~ProductScoped(f), NEW g \in DOMAIN sold
      PROVE  ranking[g].revenue = sold[g].revenue
  <2>1. P = L
    BY <1>1, <1>3, <1>5, <1>9 DEF ProductLines, ProductScoped, ChosenProduct
  <2> QED
    BY <1>4, <1>7, <1>8, <1>9, <2>1 DEF ProductsAre
<1>10. PICK together : together = associations(f)
  OBVIOUS
<1>11. ASSUME NEW pair \in DOMAIN together, NEW g \in pair \cap DOMAIN ranking
       PROVE  together[pair] <= ranking[g].orders
  <2> DEFINE goods(o) == UNION {Line(l).good : l \in LinesOf({o})}
  <2>1. PICK T \in SUBSET S : T = {o \in S : pair \subseteq goods(o)}
    OBVIOUS
  <2>1a. \E D : together = [p \in D |-> Cardinality({o \in S : p \subseteq goods(o)})]
    <3> DEFINE pairs == UNION {{{a, b} : a, b \in goods(o)} : o \in S}
               D == {p \in pairs : Cardinality(p) = 2}
    <3>1. together = [p \in D |-> Cardinality({o \in S : p \subseteq goods(o)})]
      BY <1>1, <1>10 DEF associations
    <3> HIDE DEF D, goods
    <3> QED
      BY <3>1
  <2>1b. together[pair] = Cardinality({o \in S : pair \subseteq goods(o)})
    <3> HIDE DEF goods
    <3> QED
      BY <1>11, <2>1a
  <2>2. together[pair] = Cardinality(T)
    BY <2>1, <2>1b
  <2>3. PICK U \in SUBSET S : U = {l[1] : l \in OfGood(L, g)}
    BY <1>5, LinesAre DEF IsLineOf, OfGood
  <2>4. g \in DOMAIN ProductTable
    <3>1. PICK l \in L : g \in Line(l).good
      BY <1>7 DEF GoodsOf
    <3>2. Column(Line(l).good) /\ Line(l).good \cap DOMAIN ProductTable # {}
      BY <1>1, <1>5, LineFitsIn DEF LineFits
    <3> QED
      BY <3>1, <3>2 DEF Column
  <2>5. ASSUME NEW o \in T PROVE o \in U
    <3>1. PICK l \in LinesOf({o}) : g \in Line(l).good
      BY <2>1
    <3>2. l \in LinesOf(S) /\ l[1] = o
      BY LinesAre DEF IsLineOf
    <3>3. l \in OfGood(L, g)
      BY <1>1, <1>5, <2>4, <3>1, <3>2 DEF OfGood
    <3> QED
      BY <2>3, <3>2, <3>3
  <2>6. T \in SUBSET U
    BY <2>5
  <2>7. IsFiniteSet(U)
    BY <1>1, OrdersFinite, FS_Subset
  <2>8. Cardinality(T) <= Cardinality(U)
    BY <2>6, <2>7, FewerThan
  <2> QED
    BY <1>8, <2>2, <2>3, <2>8
<1> QED
  BY <1>2, <1>6, <1>9, <1>10, <1>11 DEF RankedProductsAgree

(* Those that reach a share are fewer than those that reach a larger one,  *)
(* and the last one that earned something reaches all of it.               *)
LEMMA FewerAreNeeded ==
  ASSUME BookIsSound, NEW sold, NEW D, RowsFit(sold, D), NEW E, E = {g \in D : sold[g].revenue > 0},
         NEW i, InsightsAre(i, sold, E)
  PROVE  /\ i.needed[80] <= i.needed[95]
         /\ i.products > 0 => i.needed[95] <= i.products
<1>1. PICK R \in Int : R = Revenues(sold) /\ R >= 0
  BY EarningsAre
<1>2. \A g \in D : RevenueUpTo(sold, g) \in Int
  BY EarningsAre
<1>3. IsFiniteSet(E) /\ E \subseteq D
  BY FS_Subset DEF RowsFit
<1>4. PICK A \in SUBSET E : A = {g \in E : 100 * RevenueUpTo(sold, g) < 80 * Revenues(sold)}
  OBVIOUS
<1>5. PICK B \in SUBSET E : B = {g \in E : 100 * RevenueUpTo(sold, g) < 95 * Revenues(sold)}
  OBVIOUS
<1>6. /\ i.products = Cardinality(E)
      /\ i.needed[80] = Cardinality(A) + 1 /\ i.needed[95] = Cardinality(B) + 1
  BY <1>4, <1>5 DEF InsightsAre
<1>7. IsFiniteSet(B) /\ Cardinality(B) \in Nat
  BY <1>3, FewerThan
<1>8. A \in SUBSET B
  <2>1. ASSUME NEW g \in A PROVE g \in B
    <3>1. PICK u \in Int : u = RevenueUpTo(sold, g)
      BY <1>2, <1>3
    <3>2. 100 * u < 80 * R
      BY <1>1, <1>4, <3>1
    <3>3. 100 * u < 95 * R
      BY <1>1, <3>2
    <3> QED
      BY <1>1, <1>5, <3>1, <3>3
  <2> QED
    BY <2>1
<1>9. Cardinality(A) <= Cardinality(B) /\ Cardinality(A) \in Nat
  BY <1>7, <1>8, FewerThan
<1>10. ASSUME i.products > 0 PROVE Cardinality(B) + 1 <= Cardinality(E)
  <2>1. E # {}
    <3>1. IsFiniteSet({}) /\ Cardinality({}) = 0
      BY FS_EmptySet
    <3>2. Cardinality(E) > 0
      BY <1>6, <1>10
    <3>3. ASSUME E = {} PROVE FALSE
      <4>1. Cardinality(E) = 0
        BY <3>1, <3>3
      <4> QED
        BY <3>2, <4>1
    <3> QED
      BY <3>3
  <2>2. PICK g \in E : RevenueUpTo(sold, g) = Revenues(sold)
    BY <2>1, EarningsAre
  <2>3. ~(100 * R < 95 * R)
    BY <1>1
  <2>4. g \notin B
    BY <1>1, <1>5, <2>2, <2>3
  <2>5. PICK F : F = E \ {g}
    OBVIOUS
  <2>6. IsFiniteSet(F) /\ Cardinality(F) = Cardinality(E) - 1
    BY <1>3, <2>5, FS_RemoveElement
  <2>7. B \in SUBSET F
    BY <2>4, <2>5
  <2>8. Cardinality(B) <= Cardinality(F)
    BY <2>6, <2>7, FewerThan
  <2>9. Cardinality(E) \in Nat
    BY <1>3, FS_CardinalityType
  <2> QED
    BY <1>7, <2>6, <2>8, <2>9
<1> QED
  BY <1>6, <1>7, <1>9, <1>10

(* What is in stock and what is not is the whole page.                     *)
LEMMA StockAddsUp ==
  ASSUME NEW f, NEW D, D = ListedProducts(f, DOMAIN ProductAggregate(f))
  PROVE  inventory_page(f).positive + inventory_page(f).empty = Cardinality(D)
<1>1. D \subseteq DOMAIN ProductTable /\ IsFiniteSet(D)
  BY CatalogueTyped, FS_Subset DEF ListedProducts
<1>2. PICK A \in SUBSET D : A = {g \in D : ProductTable[g].stock > 0}
  OBVIOUS
<1>3. D \ A = {g \in D : ProductTable[g].stock <= 0}
  <2>1. \A g \in D : ProductTable[g].stock \in Int
    BY <1>1, CatalogueTyped
  <2>2. \A g \in D : ~(ProductTable[g].stock > 0) <=> ProductTable[g].stock <= 0
    BY <2>1
  <2> QED
    BY <1>2, <2>2
<1>4. inventory_page(f).positive = Cardinality(A) /\ inventory_page(f).empty = Cardinality(D \ A)
  BY <1>2, <1>3 DEF inventory_page
<1>5. D \cap A = A
  OBVIOUS
<1>6. Cardinality(D \ A) = Cardinality(D) - Cardinality(A)
  <2>1. IsFiniteSet(D)
    BY <1>1
  <2>2. Cardinality(D \ A) = Cardinality(D) - Cardinality(D \cap A)
    BY <2>1, FS_Difference
  <2> QED
    BY <1>5, <2>2
<1>7. Cardinality(D) \in Nat /\ Cardinality(A) \in Nat
  BY <1>1, FewerThan, FS_CardinalityType
<1> QED
  BY <1>4, <1>6, <1>7

(* Page, insights, classes and stock of the products agree.                *)
LEMMA ProductsDoAddUp ==
  ASSUME BookFits, BookIsSound, NEW f
  PROVE  ProductsAddUp(f, ProductAggregate(f), products_page(f),
                       product_insights(ProductAggregate(f)), breakdowns(f).productAbc)
<1>1. PICK sold : sold = ProductAggregate(f)
  OBVIOUS
<1>2. PICK D : D = DOMAIN sold
  OBVIOUS
<1>3. RowsFit(sold, D) /\ \A g \in D : ChosenProduct(g, f)
  BY <1>1, <1>2, ProductRowsFit
<1>4. PICK page : page = products_page(f) /\ page = ProductRows(f, sold)
  BY <1>1 DEF products_page
<1>5. PICK E \in SUBSET D : E = {g \in D : sold[g].revenue > 0}
  OBVIOUS
<1>6. PICK i : i = product_insights(sold) /\ InsightsAre(i, sold, E)
  BY <1>2, <1>5, InsightsFound
<1>7. PICK abc : abc = breakdowns(f).productAbc /\ abc = AbcBreakdown(sold)
  BY <1>1 DEF breakdowns
<1>8. /\ Field(abc, LAMBDA k : k.revenue) = Revenues(sold)
      /\ Field(abc, LAMBDA k : k.entities) = Cardinality(D)
  BY <1>3, <1>7, ClassesAddUp
<1>9. i.revenue = Revenues(sold)
  <2>1. SumFunction([g \in E |-> sold[g].revenue]) = Revenues(sold)
    BY <1>3, <1>5, EarningsAre
  <2> QED
    BY <1>6, <2>1 DEF InsightsAre
<1>10. ASSUME NEW k \in DOMAIN i.abc, ~f.activeOnly
       PROVE  i.abc[k] = Cardinality({g \in {x \in DOMAIN page : page[x].revenue > 0} : page[g].abc = k})
  <2>1. /\ {g \in DOMAIN page : page[g].revenue > 0} = E
        /\ \A g \in D : g \in DOMAIN page /\ page[g].abc = AbcClass(sold, g)
    BY <1>3, <1>4, <1>5, <1>10, PageIs
  <2>2. {g \in {x \in DOMAIN page : page[x].revenue > 0} : page[g].abc = k}
          = {g \in E : AbcClass(sold, g) = k}
    BY <2>1
  <2> QED
    BY <1>6, <1>10, <2>2 DEF InsightsAre
<1>11. i.needed[80] <= i.needed[95] /\ (i.products > 0 => i.needed[95] <= i.products)
  BY <1>3, <1>5, <1>6, FewerAreNeeded
<1>12. Field(i.mix, LAMBDA n : n) = i.products
  <2>1. PICK c : /\ DOMAIN c = E /\ c = [g \in E |-> c[g]] /\ DOMAIN i.mix = KeysOf(c, E)
                 /\ \A k \in DOMAIN i.mix : i.mix[k] = Cardinality(ClassOf(c, E, k))
    BY <1>6 DEF InsightsAre
  <2>2. PICK g : g = [k \in DOMAIN i.mix |-> i.mix[k]]
    OBVIOUS
  <2>3. g = [k \in KeysOf(c, E) |-> g[k]] /\ \A k \in KeysOf(c, E) : g[k] = Cardinality(ClassOf(c, E, k))
    BY <2>1, <2>2
  <2>4. IsFiniteSet(E)
    BY <1>3, FS_Subset DEF RowsFit
  <2>5. DOMAIN c = E /\ c = [x \in E |-> c[x]]
    BY <2>1
  <2>6. SumFunction(g) = Cardinality(E)
    BY <2>3, <2>4, <2>5, CountByGroups
  <2>7. i.products = Cardinality(E)
    BY <1>6 DEF InsightsAre
  <2> QED
    BY <2>2, <2>6, <2>7 DEF Field, SumOver
<1>13. inventory_page(f).positive + inventory_page(f).empty = Cardinality(DOMAIN page)
  <2>1. DOMAIN page = ListedProducts(f, DOMAIN ProductAggregate(f))
    BY <1>1, <1>4 DEF ProductRows
  <2> QED
    BY <2>1, StockAddsUp
<1>14. RankedProductsAgree(f, sold, RankingProducts(f), associations(f))
  BY <1>1, RankedProductsDoAgree
<1>15. ProductsAddUp(f, sold, page, i, abc)
  BY <1>2, <1>8, <1>9, <1>10, <1>11, <1>12, <1>13, <1>14 DEF ProductsAddUp
<1> QED
  BY <1>1, <1>4, <1>6, <1>7, <1>15

(* A filter for one more thing leaves the others as they are.              *)
SameProducts(f, h) == h.productIds = f.productIds /\ h.categoryIds = f.categoryIds
SameDates(f, h) == date_bounds(h) = date_bounds(f)

WorthOfLines(L) ==
  LET priced == {l \in L : Line(l).list # {}}
  IN [current |-> LinesValue(L),
      gross |-> IF priced = {} THEN LinesValue(L)
                ELSE SumOver(priced, LAMBDA l : Line(l).quantity * The(Line(l).list)),
      discount |-> LinesDiscount(L), items |-> LinesQuantity(L),
      skus |-> Cardinality(UNION {Line(l).good : l \in L})]

(* An order's value is what its chosen lines add up to.                    *)
LEMMA ValuesByLines ==
  ASSUME NEW f, NEW orders
  PROVE  CurrentOrderValues(orders, f)
           = [o \in {x \in orders : LinesUnder(x, f) # {}} |-> WorthOfLines(LinesUnder(o, f))]
BY DEF CurrentOrderValues, WorthOfLines, LinesUnder, Counting

(* Filters for the same products give the same values.                     *)
LEMMA ValuesOfSame ==
  ASSUME NEW f, NEW h, SameProducts(f, h)
  PROVE  /\ ProductScoped(h) = ProductScoped(f)
         /\ \A orders : ProductLines(orders, h) = ProductLines(orders, f)
         /\ \A orders : AnalyticOrderValues(orders, h) = AnalyticOrderValues(orders, f)
<1>1. h.productIds = f.productIds /\ h.categoryIds = f.categoryIds
  BY DEF SameProducts
<1>2. ProductScoped(h) = ProductScoped(f)
  BY <1>1 DEF ProductScoped
<1>3. \A good : ChosenProduct(good, h) = ChosenProduct(good, f)
  BY <1>1 DEF ChosenProduct
<1>4. ASSUME NEW orders PROVE ProductLines(orders, h) = ProductLines(orders, f)
  BY <1>3 DEF ProductLines
<1>5. ASSUME NEW orders PROVE CurrentOrderValues(orders, h) = CurrentOrderValues(orders, f)
  <2>1. \A o : LinesUnder(o, h) = LinesUnder(o, f)
    BY <1>2, <1>4 DEF LinesUnder, Counting
  <2>2. {x \in orders : LinesUnder(x, h) # {}} = {x \in orders : LinesUnder(x, f) # {}}
    BY <2>1
  <2>3. [o \in {x \in orders : LinesUnder(x, h) # {}} |-> WorthOfLines(LinesUnder(o, h))]
          = [o \in {x \in orders : LinesUnder(x, f) # {}} |-> WorthOfLines(LinesUnder(o, f))]
    BY <2>1, <2>2
  <2> QED
    BY <2>3, ValuesByLines
<1>6. ASSUME NEW orders PROVE AnalyticOrderValues(orders, h) = AnalyticOrderValues(orders, f)
  BY <1>2, <1>5 DEF AnalyticOrderValues
<1> QED
  BY <1>2, <1>4, <1>6

(* A filter for one seller finds his orders among those found.             *)
LEMMA SellerNarrows ==
  ASSUME NEW f, FilterFields \subseteq DOMAIN f, f.sellerIds = {}, NEW s,
         NEW h, h = [f EXCEPT !.sellerIds = {s}], NEW bounds
  PROVE  /\ Matching(h, bounds) = OfSeller(Matching(f, bounds), s)
         /\ SameProducts(f, h) /\ SameDates(f, h) /\ h.activeOnly = f.activeOnly
         /\ h.sellerIds = {s}
<1>1. /\ h.dateFrom = f.dateFrom /\ h.dateTo = f.dateTo /\ h.period = f.period
      /\ h.statuses = f.statuses /\ h.customerIds = f.customerIds
      /\ h.excludedCustomerIds = f.excludedCustomerIds /\ h.orderTypeIds = f.orderTypeIds
      /\ h.minValue = f.minValue /\ h.maxValue = f.maxValue /\ h.states = f.states
      /\ h.activeOnly = f.activeOnly /\ h.productIds = f.productIds
      /\ h.categoryIds = f.categoryIds /\ h.sellerIds = {s}
  BY DEF FilterFields
<1>2. SameProducts(f, h) /\ SameDates(f, h)
  BY <1>1 DEF SameProducts, SameDates, date_bounds
<1>3. /\ ProductScoped(h) = ProductScoped(f)
      /\ \A good : ChosenProduct(good, h) = ChosenProduct(good, f)
      /\ \A buyer : CustomerPredicates(buyer, h) = CustomerPredicates(buyer, f)
  BY <1>1 DEF ProductScoped, ChosenProduct, CustomerPredicates
<1>4. ASSUME NEW row
      PROVE  order_conditions(row, h, bounds) <=> order_conditions(row, f, bounds) /\ s \in row.seller
  BY <1>1, <1>3 DEF order_conditions, Among
<1> QED
  BY <1>1, <1>2, <1>4 DEF Matching, OfSeller

OfCustomer(orders, c) == {o \in orders : c \in book[o].buyer}

(* A filter for one customer finds his orders among those found.           *)
LEMMA CustomerNarrows ==
  ASSUME NEW f, FilterFields \subseteq DOMAIN f, f.customerIds = {}, NEW c,
         NEW h, h = [f EXCEPT !.customerIds = {c}], NEW bounds
  PROVE  /\ Matching(h, bounds) = OfCustomer(Matching(f, bounds), c)
         /\ SameProducts(f, h) /\ SameDates(f, h)
<1>1. /\ h.dateFrom = f.dateFrom /\ h.dateTo = f.dateTo /\ h.period = f.period
      /\ h.statuses = f.statuses /\ h.sellerIds = f.sellerIds
      /\ h.excludedCustomerIds = f.excludedCustomerIds /\ h.orderTypeIds = f.orderTypeIds
      /\ h.minValue = f.minValue /\ h.maxValue = f.maxValue /\ h.states = f.states
      /\ h.activeOnly = f.activeOnly /\ h.productIds = f.productIds
      /\ h.categoryIds = f.categoryIds /\ h.customerIds = {c}
  BY DEF FilterFields
<1>2. SameProducts(f, h) /\ SameDates(f, h)
  BY <1>1 DEF SameProducts, SameDates, date_bounds
<1>3. /\ ProductScoped(h) = ProductScoped(f)
      /\ \A good : ChosenProduct(good, h) = ChosenProduct(good, f)
      /\ \A buyer : CustomerPredicates(buyer, h) = CustomerPredicates(buyer, f)
  BY <1>1 DEF ProductScoped, ChosenProduct, CustomerPredicates
<1>4. ASSUME NEW row
      PROVE  order_conditions(row, h, bounds) <=> order_conditions(row, f, bounds) /\ c \in row.buyer
  BY <1>1, <1>3 DEF order_conditions, Among
<1> QED
  BY <1>2, <1>4 DEF Matching, OfCustomer

(* A filter for one product finds the orders with a chosen line of it.     *)
WithGood(S, g, f) ==
  {o \in S : \E i \in DOMAIN book[o].items :
     ~book[o].items[i].excluded /\ g \in book[o].items[i].good /\ ChosenProduct(g, f)}

(* A filter for one product finds the orders with it among those found.    *)
LEMMA ProductNarrows ==
  ASSUME NEW f, FilterFields \subseteq DOMAIN f, f.productIds = {}, NEW g,
         NEW h, h = [f EXCEPT !.productIds = {g}], NEW bounds
  PROVE  /\ Matching(h, bounds) = WithGood(Matching(f, bounds), g, f)
         /\ SameDates(f, h) /\ ProductScoped(h)
         /\ \A good : ChosenProduct(good, h) <=> good = g /\ ChosenProduct(g, f)
<1>1. /\ h.dateFrom = f.dateFrom /\ h.dateTo = f.dateTo /\ h.period = f.period
      /\ h.statuses = f.statuses /\ h.sellerIds = f.sellerIds
      /\ h.excludedCustomerIds = f.excludedCustomerIds /\ h.orderTypeIds = f.orderTypeIds
      /\ h.minValue = f.minValue /\ h.maxValue = f.maxValue /\ h.states = f.states
      /\ h.activeOnly = f.activeOnly /\ h.productIds = {g}
      /\ h.categoryIds = f.categoryIds /\ h.customerIds = f.customerIds
  BY DEF FilterFields
<1>2. SameDates(f, h)
  BY <1>1 DEF SameDates, date_bounds
<1>3. /\ ProductScoped(h)
      /\ \A good : ChosenProduct(good, h) <=> good = g /\ ChosenProduct(g, f)
      /\ \A buyer : CustomerPredicates(buyer, h) = CustomerPredicates(buyer, f)
  BY <1>1 DEF ProductScoped, ChosenProduct, CustomerPredicates
<1>4. ASSUME NEW row
      PROVE  order_conditions(row, h, bounds)
               <=> /\ order_conditions(row, f, bounds)
                   /\ \E i \in DOMAIN row.items :
                        ~row.items[i].excluded /\ g \in row.items[i].good /\ ChosenProduct(g, f)
  <2>1. (\E i \in DOMAIN row.items :
           ~row.items[i].excluded /\ \E good \in row.items[i].good : ChosenProduct(good, h))
          <=> (\E i \in DOMAIN row.items :
                 ~row.items[i].excluded /\ g \in row.items[i].good /\ ChosenProduct(g, f))
    BY <1>3
  <2>2. (\E i \in DOMAIN row.items :
           ~row.items[i].excluded /\ g \in row.items[i].good /\ ChosenProduct(g, f))
          => (\E i \in DOMAIN row.items :
                ~row.items[i].excluded /\ \E good \in row.items[i].good : ChosenProduct(good, f))
    OBVIOUS
  <2> QED
    BY <1>1, <1>3, <2>1, <2>2 DEF order_conditions
<1> QED
  BY <1>2, <1>3, <1>4 DEF Matching, WithGood

(* The row of a seller, from the values of the sales and the orders.       *)
SellerWorth(V, mine) ==
  [orders |-> Cardinality(mine), customers |-> Cardinality(BuyersOf(mine)),
   revenue |-> SumFunction([o \in mine |-> V[o].current]),
   discount |-> SumFunction([o \in mine |-> V[o].discount])]

SellerRow(V, S, C, s) ==
  Joined(IF OfSeller(S, s) # {} THEN SellerWorth(V, OfSeller(S, s)) ELSE NoSales,
         [newCustomers |-> Cardinality(NewCustomers(OfSeller(S, s))),
          cancellations |-> Cardinality(OfSeller(C, s))])

SoldIn(f, V, S, C) ==
  /\ S = Sales(f) /\ C = Cancelled(f, date_bounds(f))
  /\ V = AnalyticOrderValues(S, f) /\ DOMAIN V = S

(* What the page of the sellers shows of one of them.                      *)
LEMMA SellerRowIs ==
  ASSUME NEW f, NEW S, NEW C, NEW V, SoldIn(f, V, S, C), NEW s \in DOMAIN sellers_page(f)
  PROVE  sellers_page(f)[s] = SellerRow(V, S, C, s)
<1>0. /\ S = Sales(f) /\ C = Cancelled(f, date_bounds(f))
      /\ V = AnalyticOrderValues(S, f) /\ DOMAIN V = S
  BY DEF SoldIn
<1>1. PICK sold : sold = SellerAggregate(f) /\ sold = BySeller(V)
  BY <1>0 DEF SellerAggregate
<1>2. DOMAIN sold = UNION {book[o].seller : o \in S}
  BY <1>0, <1>1 DEF BySeller
<1>3. s \in DOMAIN sold <=> OfSeller(S, s) # {}
  BY <1>2 DEF OfSeller
<1>4. s \in DOMAIN sold => sold[s] = SellerWorth(V, OfSeller(S, s))
  BY <1>0, <1>1, <1>2 DEF BySeller, SellerWorth, OfSeller, SumOver
<1>5. sellers_page(f)[s]
        = Joined(IF s \in DOMAIN sold THEN sold[s] ELSE NoSales,
                 [newCustomers |-> Cardinality(NewCustomers(OfSeller(S, s))),
                  cancellations |-> Cardinality(OfSeller(C, s))])
  BY <1>0, <1>1 DEF sellers_page, SellerRows, OfSeller
<1> QED
  BY <1>3, <1>4, <1>5 DEF SellerRow

(* The page of one seller shows what the list does.                        *)
LEMMA SellerDetailAgrees ==
  ASSUME BookFits, NEW f, FilterFields \subseteq DOMAIN f, f.sellerIds = {},
         NEW s \in DOMAIN sellers_page(f), NEW detail \in seller_detail(s, f)
  PROVE  /\ detail.row = sellers_page(f)[s]
         /\ detail.orders.orderValue = detail.row.revenue
         /\ detail.row.newCustomers <= detail.row.customers
<1>1. PICK h : h = [f EXCEPT !.sellerIds = {s}]
  OBVIOUS
<1>2. PICK bounds : bounds = date_bounds(f)
  OBVIOUS
<1>3. /\ Matching(h, bounds) = OfSeller(Matching(f, bounds), s)
      /\ SameProducts(f, h) /\ SameDates(f, h)
  BY <1>1, SellerNarrows
<1>4. date_bounds(h) = bounds
  BY <1>2, <1>3 DEF SameDates
<1>5. PICK S : S = Sales(f) /\ S = SalesIn(f, bounds)
  BY <1>2 DEF Sales
<1>6. PICK C : C = Cancelled(f, bounds)
  OBVIOUS
<1>7. PICK T : T = Sales(h) /\ T = OfSeller(S, s) /\ T \in SUBSET S
  <2>1. Sales(h) = OfStatus(OfSeller(Matching(f, bounds), s), VALID_SALE_STATUSES)
    BY <1>3, <1>4 DEF Sales, SalesIn
  <2>2. S = OfStatus(Matching(f, bounds), VALID_SALE_STATUSES)
    BY <1>5 DEF SalesIn
  <2>3. Sales(h) = OfSeller(S, s) /\ OfSeller(S, s) \in SUBSET S
    BY <2>1, <2>2 DEF OfStatus, OfSeller
  <2> QED
    BY <2>3
<1>8. PICK D : D = Cancelled(h, bounds) /\ D = OfSeller(C, s)
  BY <1>3, <1>6 DEF Cancelled, OfStatus, OfSeller
<1>9. PICK V : V = AnalyticOrderValues(S, f)
  OBVIOUS
<1>10. PICK W : W = AnalyticOrderValues(T, h) /\ W = AnalyticOrderValues(T, f)
  BY <1>3, ValuesOfSame
<1>11. S \in SUBSET Matching(f, bounds) /\ T \in SUBSET Matching(f, bounds)
  BY <1>5, <1>7, SalesAreFound
<1>12. ValuesOn(V, S, f)
  BY <1>9, <1>11, ValuesFit
<1>13. ValuesOn(W, T, f)
  BY <1>10, <1>11, ValuesFit
<1>14. DOMAIN V = S /\ DOMAIN W = T /\ T \in SUBSET DOMAIN book /\ \A o \in T : W[o] = V[o]
  BY <1>7, <1>12, <1>13 DEF ValuesOn
<1>15. OfSeller(T, s) = T /\ OfSeller(D, s) = D
  BY <1>7, <1>8 DEF OfSeller
<1>16. SellerWorth(W, T) = SellerWorth(V, T)
  <2>1. [o \in T |-> W[o].current] = [o \in T |-> V[o].current]
    BY <1>14
  <2>2. [o \in T |-> W[o].discount] = [o \in T |-> V[o].discount]
    BY <1>14
  <2> QED
    BY <2>1, <2>2 DEF SellerWorth
<1>17. SellerRow(W, T, D, s) = SellerRow(V, S, C, s)
  BY <1>7, <1>8, <1>15, <1>16 DEF SellerRow
<1>18. sellers_page(f)[s] = SellerRow(V, S, C, s)
  <2>1. SoldIn(f, V, S, C)
    BY <1>2, <1>5, <1>6, <1>9, <1>14 DEF SoldIn
  <2> QED
    BY <2>1, SellerRowIs
<1>19. /\ s \in DOMAIN sellers_page(h)
       /\ detail.row = sellers_page(h)[s] /\ detail.orders = OrdersSummary(h)
  BY <1>1 DEF seller_detail, Detail, Joined
<1>20. sellers_page(h)[s] = SellerRow(W, T, D, s)
  <2>1. SoldIn(h, W, T, D)
    BY <1>4, <1>7, <1>8, <1>10, <1>14 DEF SoldIn
  <2> QED
    BY <1>19, <2>1, SellerRowIs
<1>21. OrdersSummary(h).orderValue = SumFunction([o \in T |-> W[o].current])
  <2>1. SalesIn(h, date_bounds(h)) = T
    BY <1>7 DEF Sales
  <2> QED
    BY <1>10, <1>14, <2>1 DEF OrdersSummary, SummaryOf, NetOf, SumOver
<1>22. PICK row : row = SellerRow(W, T, D, s)
  OBVIOUS
<1>23. row.revenue = SumFunction([o \in T |-> W[o].current])
  <2>1. CASE T # {}
    BY <1>15, <1>22, <2>1 DEF SellerRow, SellerWorth, Joined
  <2>2. CASE T = {}
    <3>1. row.revenue = 0
      BY <1>15, <1>22, <2>2 DEF SellerRow, NoSales, Joined
    <3>2. SumFunction([o \in T |-> W[o].current]) = 0
      BY <2>2, SumOfNone
    <3> QED
      BY <3>1, <3>2
  <2> QED
    BY <2>1, <2>2
<1>24. row.newCustomers <= row.customers
  <2>1. row.newCustomers = Cardinality(NewCustomers(T))
    BY <1>15, <1>22 DEF SellerRow, SellerWorth, NoSales, Joined
  <2>2. NewCustomers(T) \in SUBSET BuyersOf(T)
    BY DEF NewCustomers
  <2>3. IsFiniteSet(BuyersOf(T))
    BY <1>14, BuyersFinite
  <2>4. Cardinality(NewCustomers(T)) <= Cardinality(BuyersOf(T))
    BY <2>2, <2>3, FewerThan
  <2>5. row.customers = Cardinality(BuyersOf(T))
    <3>1. CASE T # {}
      BY <1>15, <1>22, <3>1 DEF SellerRow, SellerWorth, Joined
    <3>2. CASE T = {}
      <4>1. row.customers = 0
        BY <1>15, <1>22, <3>2 DEF SellerRow, NoSales, Joined
      <4>2. BuyersOf(T) = {}
        BY <3>2 DEF BuyersOf
      <4> QED
        BY <4>1, <4>2, FS_EmptySet
    <3> QED
      BY <3>1, <3>2
  <2> QED
    BY <2>1, <2>4, <2>5
<1> QED
  BY <1>17, <1>18, <1>19, <1>20, <1>21, <1>22, <1>23, <1>24

-----------------------------------------------------------------------------
(* What the page of the customers shows of one of them.                    *)
LEMMA CustomerRowIs ==
  ASSUME BookFits, NEW f, NEW c \in DOMAIN customers_page(f), NEW S, S = Sales(f),
         NEW V, V = AnalyticOrderValues(S, f), ValuesOn(V, S, f)
  PROVE  /\ customers_page(f)[c].revenue = Worth(V, OfBuyer(S, {c}))
         /\ customers_page(f)[c].orders = Cardinality(OfBuyer(S, {c}))
<1>1. PICK bought : bought = CustomerAggregate(f) /\ CustomersAre(bought, V)
  BY CustomerRowsAre DEF CustomerAggregate
<1>2. IsFiniteSet(S) /\ DOMAIN V = S /\ \A o \in S : V[o].current \in Int
  BY DEF ValuesOn, AmountsFit
<1>3. PICK row : row = customers_page(f)[c]
  OBVIOUS
<1>4. PICK M \in SUBSET S : M = OfBuyer(S, {c})
  BY DEF OfBuyer
<1>5. CASE {c} \in DOMAIN bought
  <2>1. PICK r : r = bought[{c}]
    OBVIOUS
  <2>2. /\ row.revenue = SumFunction([x \in {r} |-> x.revenue])
        /\ row.orders = SumFunction([x \in {r} |-> x.orders])
    BY <1>1, <1>3, <1>5, <2>1 DEF customers_page, CustomerRows, SumOver
  <2>3. r.revenue = Worth(V, M) /\ r.orders = Cardinality(M)
    BY <1>1, <1>2, <1>4, <1>5, <2>1 DEF CustomersAre
  <2>4. IsFiniteSet(M)
    BY <1>2, FS_Subset
  <2>5. r.orders \in Int
    BY <2>3, <2>4, FS_CardinalityType
  <2>6. PICK e \in [M -> Int] : e = [o \in M |-> V[o].current]
    BY <1>2
  <2>7. r.revenue \in Int
    BY <2>3, <2>4, <2>6, SumTyped DEF Worth
  <2>8. SumFunction([x \in {r} |-> r.revenue]) = r.revenue
    BY <2>7, SumOfARow
  <2>9. SumFunction([x \in {r} |-> r.orders]) = r.orders
    BY <2>5, SumOfARow
  <2>10. /\ [x \in {r} |-> r.revenue] = [x \in {r} |-> x.revenue]
         /\ [x \in {r} |-> r.orders] = [x \in {r} |-> x.orders]
    OBVIOUS
  <2> QED
    BY <1>3, <1>4, <2>2, <2>3, <2>8, <2>9, <2>10
<1>6. CASE {c} \notin DOMAIN bought
  <2>1. /\ row.revenue = SumFunction([x \in {} |-> x.revenue])
        /\ row.orders = SumFunction([x \in {} |-> x.orders])
    BY <1>1, <1>3, <1>6 DEF customers_page, CustomerRows, SumOver
  <2>2. row.revenue = 0 /\ row.orders = 0
    BY <2>1, SumOfNone
  <2>3. M = {}
    BY <1>1, <1>2, <1>4, <1>6 DEF CustomersAre, OfBuyer
  <2>4. Worth(V, M) = 0
    BY <2>3, SumOfNone DEF Worth
  <2>5. Cardinality(M) = 0
    BY <2>3, FS_EmptySet
  <2> QED
    BY <1>3, <1>4, <2>2, <2>4, <2>5
<1> QED
  BY <1>5, <1>6

(* The page of one customer shows what the list does.                      *)
LEMMA CustomerDetailAgrees ==
  ASSUME BookFits, NEW f, FilterFields \subseteq DOMAIN f, f.customerIds = {},
         NEW c \in DOMAIN customers_page(f), NEW detail \in customer_detail(c, f)
  PROVE  /\ detail.row.revenue = customers_page(f)[c].revenue
         /\ detail.orders.validOrders = detail.row.orders
<1>1. PICK h : h = [f EXCEPT !.customerIds = {c}]
  OBVIOUS
<1>2. PICK bounds : bounds = date_bounds(f)
  OBVIOUS
<1>3. /\ Matching(h, bounds) = OfCustomer(Matching(f, bounds), c)
      /\ SameProducts(f, h) /\ SameDates(f, h)
  BY <1>1, CustomerNarrows
<1>4. date_bounds(h) = bounds
  BY <1>2, <1>3 DEF SameDates
<1>5. PICK S : S = Sales(f) /\ S = SalesIn(f, bounds)
  BY <1>2 DEF Sales
<1>6. PICK T : T = Sales(h) /\ T = OfCustomer(S, c) /\ T \in SUBSET S
  <2>1. Sales(h) = OfStatus(OfCustomer(Matching(f, bounds), c), VALID_SALE_STATUSES)
    BY <1>3, <1>4 DEF Sales, SalesIn
  <2>2. S = OfStatus(Matching(f, bounds), VALID_SALE_STATUSES)
    BY <1>5 DEF SalesIn
  <2>3. Sales(h) = OfCustomer(S, c) /\ OfCustomer(S, c) \in SUBSET S
    BY <2>1, <2>2 DEF OfStatus, OfCustomer
  <2> QED
    BY <2>3
<1>7. PICK V : V = AnalyticOrderValues(S, f)
  OBVIOUS
<1>8. PICK W : W = AnalyticOrderValues(T, h) /\ W = AnalyticOrderValues(T, f)
  BY <1>3, ValuesOfSame
<1>9. S \in SUBSET Matching(f, bounds) /\ T \in SUBSET Matching(f, bounds)
  BY <1>5, <1>6, SalesAreFound
<1>10. ValuesOn(V, S, f)
  BY <1>7, <1>9, ValuesFit
<1>11. ValuesOn(W, T, f)
  BY <1>8, <1>9, ValuesFit
<1>11a. ValuesOn(W, T, h)
  <2>1. T \in SUBSET Matching(h, bounds)
    BY <1>4, <1>6, SalesAreFound DEF Sales
  <2> QED
    BY <1>8, <2>1, ValuesFit
<1>12. DOMAIN V = S /\ DOMAIN W = T /\ T \in SUBSET DOMAIN book /\ \A o \in T : W[o] = V[o]
  BY <1>6, <1>10, <1>11 DEF ValuesOn
<1>13. OfBuyer(S, {c}) = T /\ OfBuyer(T, {c}) = T
  <2>1. \A o \in S : Column(book[o].buyer)
    BY <1>10 DEF BookFits, RowFits, ValuesOn
  <2>2. \A o \in S : c \in book[o].buyer <=> book[o].buyer = {c}
    BY <2>1 DEF Column
  <2> QED
    BY <1>6, <2>2 DEF OfBuyer, OfCustomer
<1>14. customers_page(f)[c].revenue = Worth(V, T)
  BY <1>5, <1>7, <1>10, <1>13, CustomerRowIs
<1>15. /\ c \in DOMAIN customers_page(h)
       /\ detail.row = customers_page(h)[c] /\ detail.orders = OrdersSummary(h)
  BY <1>1 DEF customer_detail, Detail, Joined
<1>16. /\ customers_page(h)[c].revenue = Worth(W, T)
       /\ customers_page(h)[c].orders = Cardinality(T)
  <2>1. T = Sales(h) /\ W = AnalyticOrderValues(T, h)
    BY <1>6, <1>8
  <2>2. /\ customers_page(h)[c].revenue = Worth(W, OfBuyer(T, {c}))
        /\ customers_page(h)[c].orders = Cardinality(OfBuyer(T, {c}))
    BY <1>11a, <1>15, <2>1, CustomerRowIs
  <2> QED
    BY <1>13, <2>2
<1>17. Worth(W, T) = Worth(V, T)
  <2>1. [o \in T |-> W[o].current] = [o \in T |-> V[o].current]
    BY <1>12
  <2> QED
    BY <2>1 DEF Worth
<1>18. OrdersSummary(h).validOrders = Cardinality(T)
  BY <1>6 DEF OrdersSummary, SummaryOf, Sales
<1> QED
  BY <1>14, <1>15, <1>16, <1>17, <1>18

(* What the page of the products shows of one of them.                     *)
LEMMA ProductRowIs ==
  ASSUME BookFits, NEW f, NEW g \in DOMAIN products_page(f), NEW P, P = ProductLines(Sales(f), f)
  PROVE  products_page(f)[g].revenue = LinesValue(OfGood(P, g))
<1>1. PICK sold : sold = ProductAggregate(f)
  OBVIOUS
<1>2. ProductsAre(sold, P) /\ P \in SUBSET LinesOf(Sales(f)) /\ Sales(f) \in SUBSET DOMAIN book
  BY <1>1, ProductRowsAre
<1>3. PICK M \in SUBSET P : M = OfGood(P, g)
  BY DEF OfGood
<1>4. LinesValue(M) \in Int
  <2>1. M \in SUBSET LinesOf(Sales(f))
    BY <1>2
  <2> QED
    BY <1>2, <2>1, LinesSums
<1>5. PICK row : row = products_page(f)[g]
  OBVIOUS
<1>6. CASE g \in DOMAIN sold
  <2>1. PICK r : r = sold[g]
    OBVIOUS
  <2>2. row.revenue = SumFunction([x \in {r} |-> x.revenue])
    BY <1>1, <1>5, <1>6, <2>1 DEF products_page, ProductRows, SumOver
  <2>3. r.revenue = LinesValue(M)
    BY <1>2, <1>3, <1>6, <2>1 DEF ProductsAre
  <2>4. [x \in {r} |-> x.revenue] = [x \in {r} |-> LinesValue(M)]
    BY <2>3
  <2>5. SumFunction([x \in {r} |-> LinesValue(M)]) = LinesValue(M)
    BY <1>4, SumOfARow
  <2> QED
    BY <1>3, <1>5, <2>2, <2>4, <2>5
<1>7. CASE g \notin DOMAIN sold
  <2>1. row.revenue = SumFunction([x \in {} |-> x.revenue])
    BY <1>1, <1>5, <1>7 DEF products_page, ProductRows, SumOver
  <2>2. M = {}
    BY <1>2, <1>3, <1>7 DEF ProductsAre, GoodsOf, OfGood
  <2>3. LinesValue(M) = 0
    BY <2>2, SumOfNone DEF LinesValue, SumOver
  <2> QED
    BY <1>3, <1>5, <2>1, <2>3, SumOfNone
<1> QED
  BY <1>6, <1>7

(* The lines of some orders with a chosen product.                         *)
ChosenLines(S, g, f) == {l \in LinesOf(S) : g \in Line(l).good /\ ChosenProduct(g, f)}

(* Orders without a product have no lines of it.                           *)
LEMMA ChosenLinesStay ==
  ASSUME NEW S, NEW g, NEW f
  PROVE  ChosenLines(WithGood(S, g, f), g, f) = ChosenLines(S, g, f)
<1>1. ASSUME NEW l \in ChosenLines(S, g, f) PROVE l \in ChosenLines(WithGood(S, g, f), g, f)
  <2>1. IsLineOf(l, S) /\ g \in Line(l).good /\ ChosenProduct(g, f)
    BY LinesAre DEF ChosenLines
  <2>2. l[1] \in WithGood(S, g, f)
    BY <2>1 DEF WithGood, IsLineOf, Line
  <2>3. IsLineOf(l, WithGood(S, g, f))
    BY <2>1, <2>2 DEF IsLineOf
  <2> QED
    BY <2>1, <2>3, LinesAre DEF ChosenLines
<1>2. ASSUME NEW l \in ChosenLines(WithGood(S, g, f), g, f) PROVE l \in ChosenLines(S, g, f)
  <2>1. IsLineOf(l, WithGood(S, g, f)) /\ g \in Line(l).good /\ ChosenProduct(g, f)
    BY LinesAre DEF ChosenLines
  <2>2. IsLineOf(l, S)
    BY <2>1 DEF IsLineOf, WithGood
  <2> QED
    BY <2>1, <2>2, LinesAre DEF ChosenLines
<1> QED
  BY <1>1, <1>2

(* The page of one product shows what the list does.                       *)
LEMMA ProductDetailAgrees ==
  ASSUME BookFits, NEW f, FilterFields \subseteq DOMAIN f, f.productIds = {},
         NEW g \in DOMAIN products_page(f), NEW detail \in product_detail(g, f)
  PROVE  /\ detail.row.revenue = products_page(f)[g].revenue
         /\ detail.orders.orderValue = detail.row.revenue
<1>1. PICK h : h = [f EXCEPT !.productIds = {g}]
  OBVIOUS
<1>2. PICK bounds : bounds = date_bounds(f)
  OBVIOUS
<1>3. /\ Matching(h, bounds) = WithGood(Matching(f, bounds), g, f)
      /\ SameDates(f, h) /\ ProductScoped(h)
      /\ \A good : ChosenProduct(good, h) <=> good = g /\ ChosenProduct(g, f)
  BY <1>1, ProductNarrows
<1>4. date_bounds(h) = bounds
  BY <1>2, <1>3 DEF SameDates
<1>5. PICK S : S = Sales(f) /\ S = SalesIn(f, bounds)
  BY <1>2 DEF Sales
<1>6. PICK T : T = Sales(h) /\ T = WithGood(S, g, f) /\ T = SalesIn(h, bounds)
  <2>1. Sales(h) = OfStatus(WithGood(Matching(f, bounds), g, f), VALID_SALE_STATUSES)
    BY <1>3, <1>4 DEF Sales, SalesIn
  <2>2. S = OfStatus(Matching(f, bounds), VALID_SALE_STATUSES)
    BY <1>5 DEF SalesIn
  <2>3. Sales(h) = WithGood(S, g, f)
    BY <2>1, <2>2 DEF OfStatus, WithGood
  <2> QED
    BY <1>4, <2>3 DEF Sales
<1>7. PICK P : P = ProductLines(S, f)
  OBVIOUS
<1>8. PICK Q : Q = ProductLines(T, h)
  OBVIOUS
<1>9. Q = ChosenLines(T, g, f)
  BY <1>3, <1>8 DEF ProductLines, ChosenLines
<1>10. OfGood(Q, g) = Q
  BY <1>9 DEF ChosenLines, OfGood
<1>11. OfGood(P, g) = ChosenLines(S, g, f)
  <2>1. \A l \in P : \A x \in Line(l).good : Line(l).good = {x}
    <3>1. P = ProductLines(Sales(f), f)
      BY <1>5, <1>7
    <3> QED
      BY <3>1, ProductRowsAre
  <2>2. \A l \in P : \E good \in Line(l).good : ChosenProduct(good, f)
    BY <1>7 DEF ProductLines
  <2>3. \A l \in OfGood(P, g) : ChosenProduct(g, f)
    BY <2>1, <2>2 DEF OfGood
  <2>4. OfGood(P, g) \subseteq ChosenLines(S, g, f)
    BY <1>7, <2>3 DEF OfGood, ChosenLines, ProductLines
  <2>5. ChosenLines(S, g, f) \subseteq OfGood(P, g)
    BY <1>7 DEF OfGood, ChosenLines, ProductLines
  <2> QED
    BY <2>4, <2>5
<1>12. OfGood(P, g) = OfGood(Q, g)
  BY <1>6, <1>9, <1>10, <1>11, ChosenLinesStay
<1>13. products_page(f)[g].revenue = LinesValue(OfGood(P, g))
  BY <1>5, <1>7, ProductRowIs
<1>14. /\ g \in DOMAIN products_page(h)
       /\ detail.row = products_page(h)[g] /\ detail.orders = OrdersSummary(h)
  BY <1>1 DEF product_detail, Detail, Joined
<1>15. products_page(h)[g].revenue = LinesValue(Q)
  <2>1. Q = ProductLines(Sales(h), h)
    BY <1>6, <1>8
  <2> QED
    BY <1>10, <1>14, <2>1, ProductRowIs
<1>16. PICK W : W = AnalyticOrderValues(T, h)
  OBVIOUS
<1>17. ValuesOn(W, T, h)
  BY <1>6, <1>16, SalesAreFound, ValuesFit
<1>18. DOMAIN W = T /\ T \in SUBSET DOMAIN book
       /\ \A o \in T : W[o].current = LinesValue(ProductLines({o}, h))
  BY <1>3, <1>17 DEF ValuesOn, Earned
<1>19. OrdersSummary(h).orderValue = SumFunction([o \in T |-> W[o].current])
  BY <1>4, <1>6, <1>16, <1>18 DEF OrdersSummary, SummaryOf, NetOf, SumOver
<1>20. SumFunction([o \in T |-> W[o].current]) = LinesValue(Q)
  <2>1. [o \in T |-> W[o].current] = [o \in T |-> LinesValue(ProductLines({o}, h))]
    BY <1>18
  <2>2. SumFunction([o \in T |-> LinesValue(Counting({o}, h, TRUE))]) = LinesValue(Counting(T, h, TRUE))
    BY <1>18, LinesByOrder
  <2>3. SumFunction([o \in T |-> LinesValue(ProductLines({o}, h))]) = LinesValue(ProductLines(T, h))
    BY <2>2 DEF Counting
  <2> QED
    BY <1>8, <2>1, <2>3
<1> QED
  BY <1>10, <1>12, <1>13, <1>14, <1>15, <1>19, <1>20

(* The page of one shows the row of the list.                              *)
LEMMA DrillDownDoesAgree ==
  ASSUME BookFits, NEW f, FilterFields \subseteq DOMAIN f
  PROVE  DrillDownAgrees(f, products_page(f), customers_page(f), sellers_page(f))
<1>1. ASSUME f.sellerIds = {}, NEW s \in DOMAIN sellers_page(f), NEW detail \in seller_detail(s, f)
      PROVE  /\ detail.row = sellers_page(f)[s]
             /\ detail.orders.orderValue = detail.row.revenue
             /\ detail.row.newCustomers <= detail.row.customers
  BY <1>1, SellerDetailAgrees
<1>2. ASSUME f.customerIds = {}, NEW c \in DOMAIN customers_page(f), NEW detail \in customer_detail(c, f)
      PROVE  /\ detail.row.revenue = customers_page(f)[c].revenue
             /\ detail.orders.validOrders = detail.row.orders
  BY <1>2, CustomerDetailAgrees
<1>3. ASSUME f.productIds = {}, NEW g \in DOMAIN products_page(f), NEW detail \in product_detail(g, f)
      PROVE  /\ detail.row.revenue = products_page(f)[g].revenue
             /\ detail.orders.orderValue = detail.row.revenue
  BY <1>3, ProductDetailAgrees
<1> QED
  BY <1>1, <1>2, <1>3 DEF DrillDownAgrees

(* The customers of the sales by the months they bought in, the first of   *)
(* which is their cohort; who bought so many months later, and what for.   *)
Customers(V) == BuyersOf(DOMAIN V)
CohortBy(V) == [c \in Customers(V) |-> Min(MonthsOf(c, V))]
LastMonth(V) == Max(UNION {MonthsOf(c, V) : c \in Customers(V)})
Returned(V, k, n) == {c \in ClassOf(CohortBy(V), Customers(V), k) : k + n \in MonthsOf(c, V)}
BoughtIn(V, c, m) == {o \in DOMAIN V : c \in book[o].buyer /\ MonthOf(book[o].day) = m}

CohortsAre(rows, V) ==
  /\ DOMAIN rows = KeysOf(CohortBy(V), Customers(V))
  /\ \A k \in DOMAIN rows :
       /\ rows[k].size = Cardinality(ClassOf(CohortBy(V), Customers(V), k))
       /\ DOMAIN rows[k].retention = 0..LastMonth(V) - k
       /\ \A n \in 0..LastMonth(V) - k :
            /\ rows[k].retention[n].customers = Cardinality(Returned(V, k, n))
            /\ rows[k].retention[n].revenue
                 = SumFunction([c \in Returned(V, k, n) |-> Worth(V, BoughtIn(V, c, k + n))])

(* A row of the cohorts is about the customers that began in its month.    *)
LEMMA CohortRowsAre ==
  ASSUME NEW V
  PROVE  CohortsAre(cohorts(V), V)
<1>1. PICK rows : rows = cohorts(V)
  OBVIOUS
<1> DEFINE months == [c \in BuyersOf(DOMAIN V) |-> MonthsOf(c, V)]
           latest == Max(UNION {months[c] : c \in BuyersOf(DOMAIN V)})
           cohortOf == [c \in BuyersOf(DOMAIN V) |-> Min(months[c])]
           mine(k) == {c \in BuyersOf(DOMAIN V) : cohortOf[c] = k}
           earned(c, m) == SumOver({o \in DOMAIN V : c \in book[o].buyer /\ MonthOf(book[o].day) = m},
                                   LAMBDA o : V[o].current)
<1>2. latest = LastMonth(V)
  <2>1. {months[c] : c \in BuyersOf(DOMAIN V)} = {MonthsOf(c, V) : c \in BuyersOf(DOMAIN V)}
    OBVIOUS
  <2> QED
    BY <2>1 DEF LastMonth, Customers
<1>3. cohortOf = CohortBy(V)
  BY DEF CohortBy, Customers
<1>4. \A k : mine(k) = ClassOf(CohortBy(V), Customers(V), k)
  BY <1>3 DEF ClassOf, Customers
<1>5. \A c, m : earned(c, m) = Worth(V, BoughtIn(V, c, m))
  BY DEF SumOver, Worth, BoughtIn
<1>6. rows = [k \in {cohortOf[c] : c \in BuyersOf(DOMAIN V)} |->
       [size |-> Cardinality(mine(k)),
        repeat |-> Cardinality({c \in mine(k) : Cardinality(months[c]) > 1}),
        retention |-> [n \in 0..latest - k |->
          [customers |-> Cardinality({c \in mine(k) : k + n \in months[c]}),
           revenue |-> SumOver({c \in mine(k) : k + n \in months[c]}, LAMBDA c : earned(c, k + n))]]]]
  BY <1>1 DEF cohorts
<1>7. \A k, n : {c \in mine(k) : k + n \in months[c]} = Returned(V, k, n)
  <2>1. \A k : \A c \in mine(k) : months[c] = MonthsOf(c, V)
    OBVIOUS
  <2> QED
    BY <1>4, <2>1 DEF Returned
<1>8. DOMAIN rows = KeysOf(CohortBy(V), Customers(V))
  BY <1>3, <1>6 DEF KeysOf, Customers
<1>9. ASSUME NEW k \in DOMAIN rows
      PROVE  /\ rows[k].size = Cardinality(mine(k))
             /\ DOMAIN rows[k].retention = 0..latest - k
             /\ \A n \in 0..latest - k :
                  rows[k].retention[n]
                    = [customers |-> Cardinality({c \in mine(k) : k + n \in months[c]}),
                       revenue |-> SumOver({c \in mine(k) : k + n \in months[c]},
                                           LAMBDA c : earned(c, k + n))]
  <2> HIDE DEF months, latest, cohortOf, mine, earned
  <2> QED
    BY <1>6
<1>10. ASSUME NEW k, NEW n
       PROVE  SumOver({c \in mine(k) : k + n \in months[c]}, LAMBDA c : earned(c, k + n))
                = SumFunction([c \in Returned(V, k, n) |-> Worth(V, BoughtIn(V, c, k + n))])
  <2>1. SumOver({c \in mine(k) : k + n \in months[c]}, LAMBDA c : earned(c, k + n))
          = SumFunction([c \in {c \in mine(k) : k + n \in months[c]} |-> earned(c, k + n)])
    BY DEF SumOver
  <2>2. {c \in mine(k) : k + n \in months[c]} = Returned(V, k, n)
    BY <1>7
  <2> HIDE DEF months, latest, cohortOf, mine, earned
  <2>3. [c \in {c \in mine(k) : k + n \in months[c]} |-> earned(c, k + n)]
          = [c \in Returned(V, k, n) |-> Worth(V, BoughtIn(V, c, k + n))]
    BY <1>5, <2>2
  <2> QED
    BY <2>1, <2>3
<1>11. ASSUME NEW k \in DOMAIN rows
       PROVE  /\ rows[k].size = Cardinality(ClassOf(CohortBy(V), Customers(V), k))
              /\ DOMAIN rows[k].retention = 0..LastMonth(V) - k
              /\ \A n \in 0..LastMonth(V) - k :
                   /\ rows[k].retention[n].customers = Cardinality(Returned(V, k, n))
                   /\ rows[k].retention[n].revenue
                        = SumFunction([c \in Returned(V, k, n) |-> Worth(V, BoughtIn(V, c, k + n))])
  <2> HIDE DEF months, latest, cohortOf, mine, earned
  <2>1. rows[k].size = Cardinality(ClassOf(CohortBy(V), Customers(V), k))
    BY <1>4, <1>9
  <2>2. DOMAIN rows[k].retention = 0..LastMonth(V) - k
    BY <1>2, <1>9
  <2>3. ASSUME NEW n \in 0..LastMonth(V) - k
        PROVE  /\ rows[k].retention[n].customers = Cardinality(Returned(V, k, n))
               /\ rows[k].retention[n].revenue
                    = SumFunction([c \in Returned(V, k, n) |-> Worth(V, BoughtIn(V, c, k + n))])
    <3>1. rows[k].retention[n]
            = [customers |-> Cardinality({c \in mine(k) : k + n \in months[c]}),
               revenue |-> SumOver({c \in mine(k) : k + n \in months[c]}, LAMBDA c : earned(c, k + n))]
      BY <1>2, <1>9
    <3>2. rows[k].retention[n].customers = Cardinality(Returned(V, k, n))
      <4>1. rows[k].retention[n].customers = Cardinality({c \in mine(k) : k + n \in months[c]})
        BY <3>1
      <4> QED
        BY <1>7, <4>1
    <3>3. rows[k].retention[n].revenue
            = SumOver({c \in mine(k) : k + n \in months[c]}, LAMBDA c : earned(c, k + n))
      BY <3>1
    <3> QED
      BY <1>10, <3>2, <3>3
  <2> QED
    BY <2>1, <2>2, <2>3
<1> QED
  BY <1>1, <1>8, <1>11 DEF CohortsAre

-----------------------------------------------------------------------------
(* Sales whose amounts are numbers.                                        *)
SalesFit(V, S) ==
  /\ S = DOMAIN V /\ S \in SUBSET DOMAIN book /\ IsFiniteSet(S)
  /\ \A o \in S : V[o].current \in Int /\ Column(book[o].buyer) /\ book[o].day \in Int

(* The months of a customer: the first is his cohort, none is after the    *)
(* last of all.                                                            *)
MonthsFit(V) ==
  /\ IsFiniteSet(Customers(V))
  /\ \A c \in Customers(V) :
       /\ MonthsOf(c, V) \subseteq Int /\ CohortBy(V)[c] \in MonthsOf(c, V)
       /\ \A m \in MonthsOf(c, V) : CohortBy(V)[c] <= m /\ m <= LastMonth(V)
       /\ LastMonth(V) \in Int

(* The months of the customers of some sales are numbers in order.         *)
LEMMA MonthsDoFit ==
  ASSUME BookFits, NEW V, NEW S, SalesFit(V, S)
  PROVE  MonthsFit(V)
<1>0. /\ S = DOMAIN V /\ S \in SUBSET DOMAIN book /\ IsFiniteSet(S)
      /\ \A o \in S : book[o].day \in Int
  BY DEF SalesFit
<1>1. IsFiniteSet(Customers(V))
  BY <1>0, BuyersFinite DEF Customers
<1>2. ASSUME NEW c \in Customers(V)
      PROVE  /\ IsFiniteSet(MonthsOf(c, V)) /\ MonthsOf(c, V) # {} /\ MonthsOf(c, V) \subseteq Int
  <2>1. PICK T \in SUBSET S : T = {x \in DOMAIN V : c \in book[x].buyer}
    BY <1>0
  <2>2. T # {}
    BY <1>0, <2>1 DEF Customers, BuyersOf
  <2>3. PICK k : k = [o \in T |-> MonthOf(book[o].day)]
    OBVIOUS
  <2>4. MonthsOf(c, V) = KeysOf(k, T)
    BY <2>1, <2>3 DEF MonthsOf, KeysOf
  <2>5. IsFiniteSet(T)
    BY <1>0, FS_Subset
  <2>6. DOMAIN k = T /\ k = [o \in T |-> k[o]]
    BY <2>3
  <2>7. IsFiniteSet(KeysOf(k, T))
    BY <2>5, <2>6, KeysFinite
  <2>8. \A o \in T : k[o] \in Int
    BY <1>0, <2>3, MonthBegins
  <2> QED
    BY <2>2, <2>4, <2>7, <2>8 DEF KeysOf
<1>3. PICK A : A = {MonthsOf(c, V) : c \in Customers(V)}
  OBVIOUS
<1>4. IsFiniteSet(A)
  <2>1. PICK k : k = [c \in Customers(V) |-> MonthsOf(c, V)]
    OBVIOUS
  <2>2. DOMAIN k = Customers(V) /\ k = [c \in Customers(V) |-> k[c]]
    BY <2>1
  <2>3. IsFiniteSet(KeysOf(k, Customers(V)))
    BY <1>1, <2>2, KeysFinite
  <2> QED
    BY <1>3, <2>1, <2>3 DEF KeysOf
<1>5. PICK U : U = UNION A
  OBVIOUS
<1>6. IsFiniteSet(U) /\ U \in SUBSET Int
  BY <1>2, <1>3, <1>4, <1>5, FS_UNION
<1>7. ASSUME NEW c \in Customers(V)
      PROVE  /\ MonthsOf(c, V) \subseteq Int /\ CohortBy(V)[c] \in MonthsOf(c, V)
             /\ \A m \in MonthsOf(c, V) : CohortBy(V)[c] <= m /\ m <= LastMonth(V)
             /\ LastMonth(V) \in Int
  <2>1. PICK M \in SUBSET Int : M = MonthsOf(c, V) /\ IsFiniteSet(M) /\ M # {}
    BY <1>2
  <2>2. Min(M) \in M /\ \A y \in M : Min(M) <= y
    BY <2>1, ExtremesExist
  <2>3. M \subseteq U /\ U # {}
    BY <1>3, <1>5, <2>1
  <2>4. Max(U) \in U /\ \A y \in U : Max(U) >= y
    BY <1>6, <2>3, ExtremesExist
  <2>5. Max(U) = LastMonth(V)
    BY <1>3, <1>5 DEF LastMonth
  <2>6. CohortBy(V)[c] = Min(M)
    BY <2>1 DEF CohortBy
  <2>7. Max(U) \in Int /\ \A y \in M : y \in Int /\ y <= Max(U)
    BY <1>6, <2>1, <2>3, <2>4
  <2> QED
    BY <2>1, <2>2, <2>5, <2>6, <2>7
<1> QED
  BY <1>1, <1>7 DEF MonthsFit

(* The values of the classes, the empty ones included, are the value.      *)
LEMMA WorthInClasses ==
  ASSUME NEW C, IsFiniteSet(C), NEW T, IsFiniteSet(T), NEW V, \A o \in T : V[o].current \in Int,
         NEW k \in [T -> C], NEW g, g = [c \in C |-> g[c]],
         \A c \in C : g[c] = Worth(V, ClassOf(k, T, c))
  PROVE  SumFunction(g) = Worth(V, T)
<1>1. PICK e \in [T -> Int] : e = [o \in T |-> V[o].current]
  OBVIOUS
<1>2. ASSUME NEW c \in C PROVE g[c] = SumFunction(Part(e, ClassOf(k, T, c)))
  <2>1. PICK U \in SUBSET T : U = ClassOf(k, T, c)
    BY DEF ClassOf
  <2>2. Part(e, U) = [o \in U |-> V[o].current]
    BY <1>1 DEF Part
  <2> QED
    BY <2>1, <2>2 DEF Worth
<1>3. g = [c \in C |-> SumFunction(Part(e, ClassOf(k, T, c)))]
  BY <1>2
<1>4. SumFunction([c \in C |-> SumFunction(Part(e, ClassOf(k, T, c)))]) = SumFunction(e)
  BY SumInClasses
<1> QED
  BY <1>1, <1>3, <1>4 DEF Worth

(* The sales of a cohort, and those so many months later.                  *)
OfCohort(V, k) == {o \in DOMAIN V : \E c \in book[o].buyer : CohortBy(V)[c] = k}
OfCohortIn(V, k, n) == {o \in OfCohort(V, k) : MonthOf(book[o].day) = k + n}

(* Of a sale with a customer: the customer, his cohort and the month.      *)
LEMMA BuyerIs ==
  ASSUME NEW V, NEW S, SalesFit(V, S), MonthsFit(V), NEW o \in S, book[o].buyer # {}
  PROVE  \E c \in Customers(V) :
           /\ book[o].buyer = {c} /\ The(book[o].buyer) = c
           /\ MonthOf(book[o].day) \in MonthsOf(c, V)
           /\ CohortBy(V)[c] \in KeysOf(CohortBy(V), Customers(V))
           /\ CohortBy(V)[c] \in Int /\ LastMonth(V) \in Int /\ MonthOf(book[o].day) \in Int
           /\ CohortBy(V)[c] <= MonthOf(book[o].day) /\ MonthOf(book[o].day) <= LastMonth(V)
<1>1. S = DOMAIN V /\ Column(book[o].buyer)
  BY DEF SalesFit
<1>2. PICK c : book[o].buyer = {c}
  BY <1>1 DEF Column
<1>3. c \in Customers(V)
  BY <1>1, <1>2 DEF Customers, BuyersOf
<1>4. MonthOf(book[o].day) \in MonthsOf(c, V)
  BY <1>1, <1>2 DEF MonthsOf
<1>5. CohortBy(V)[c] \in KeysOf(CohortBy(V), Customers(V))
  BY <1>3 DEF KeysOf
<1>6. /\ MonthsOf(c, V) \subseteq Int /\ CohortBy(V)[c] \in MonthsOf(c, V) /\ LastMonth(V) \in Int
      /\ \A m \in MonthsOf(c, V) : CohortBy(V)[c] <= m /\ m <= LastMonth(V)
  BY <1>3 DEF MonthsFit
<1>7. The(book[o].buyer) = c
  BY <1>2 DEF The
<1> QED
  BY <1>2, <1>3, <1>4, <1>5, <1>6, <1>7

(* A cell of a cohort is the value of the sales it stands for.             *)
LEMMA CellAddsUp ==
  ASSUME NEW V, NEW S, SalesFit(V, S), MonthsFit(V), NEW k, NEW n
  PROVE  SumFunction([c \in Returned(V, k, n) |-> Worth(V, BoughtIn(V, c, k + n))])
           = Worth(V, OfCohortIn(V, k, n))
<1>0. S = DOMAIN V /\ IsFiniteSet(S) /\ \A o \in S : V[o].current \in Int /\ Column(book[o].buyer)
  BY DEF SalesFit
<1>1. PICK C : C = Returned(V, k, n)
  OBVIOUS
<1>2. PICK T \in SUBSET S : T = OfCohortIn(V, k, n)
  BY <1>0 DEF OfCohortIn, OfCohort
<1>3. IsFiniteSet(C)
  <2>1. C \subseteq Customers(V)
    BY <1>1 DEF Returned, ClassOf
  <2> QED
    BY <2>1, FS_Subset DEF MonthsFit
<1>4. IsFiniteSet(T) /\ \A o \in T : V[o].current \in Int
  BY <1>0, FS_Subset
<1>5. PICK b : b = [o \in T |-> The(book[o].buyer)]
  OBVIOUS
<1>6. ASSUME NEW o \in T
      PROVE  b[o] \in C /\ book[o].buyer = {b[o]} /\ MonthOf(book[o].day) = k + n
  <2>1. PICK x \in book[o].buyer : CohortBy(V)[x] = k
    BY <1>2 DEF OfCohortIn, OfCohort
  <2>2. MonthOf(book[o].day) = k + n
    BY <1>2 DEF OfCohortIn
  <2>3. PICK c \in Customers(V) : /\ book[o].buyer = {c} /\ The(book[o].buyer) = c
                                  /\ MonthOf(book[o].day) \in MonthsOf(c, V)
    BY <2>1, BuyerIs
  <2>4. c = x /\ b[o] = c
    BY <1>5, <2>1, <2>3
  <2>5. c \in C
    BY <1>1, <2>1, <2>2, <2>3, <2>4 DEF Returned, ClassOf
  <2> QED
    BY <2>2, <2>3, <2>4, <2>5
<1>7. b \in [T -> C]
  BY <1>5, <1>6
<1>8. ASSUME NEW c \in C PROVE ClassOf(b, T, c) = BoughtIn(V, c, k + n)
  <2>1. c \in Customers(V) /\ CohortBy(V)[c] = k
    BY <1>1 DEF Returned, ClassOf
  <2>2. ASSUME NEW o \in BoughtIn(V, c, k + n) PROVE o \in ClassOf(b, T, c)
    <3>1. o \in T
      BY <1>2, <2>1 DEF BoughtIn, OfCohortIn, OfCohort
    <3>2. c \in book[o].buyer
      BY DEF BoughtIn
    <3> QED
      BY <1>6, <3>1, <3>2 DEF ClassOf
  <2>3. ASSUME NEW o \in ClassOf(b, T, c) PROVE o \in BoughtIn(V, c, k + n)
    BY <1>0, <1>6 DEF ClassOf, BoughtIn
  <2> QED
    BY <2>2, <2>3
<1>9. PICK g : g = [c \in C |-> Worth(V, BoughtIn(V, c, k + n))]
  OBVIOUS
<1>10. g = [c \in C |-> g[c]] /\ \A c \in C : g[c] = Worth(V, ClassOf(b, T, c))
  BY <1>8, <1>9
<1>11. SumFunction(g) = Worth(V, T)
  BY <1>3, <1>4, <1>7, <1>10, WorthInClasses
<1> QED
  BY <1>1, <1>2, <1>9, <1>11

(* The cells of a cohort are all its sales.                                *)
LEMMA CohortAddsUp ==
  ASSUME NEW V, NEW S, SalesFit(V, S), MonthsFit(V), NEW k \in KeysOf(CohortBy(V), Customers(V))
  PROVE  SumFunction([n \in 0..LastMonth(V) - k |-> Worth(V, OfCohortIn(V, k, n))])
           = Worth(V, OfCohort(V, k))
<1>0. S = DOMAIN V /\ IsFiniteSet(S) /\ \A o \in S : V[o].current \in Int /\ Column(book[o].buyer)
  BY DEF SalesFit
<1>1. k \in Int /\ LastMonth(V) \in Int
  BY DEF KeysOf, MonthsFit
<1>2. PICK C : C = 0..LastMonth(V) - k
  OBVIOUS
<1>3. IsFiniteSet(C)
  <2>1. 0 \in Int /\ LastMonth(V) - k \in Int
    BY <1>1
  <2> QED
    BY <1>2, <2>1, FS_Interval
<1>4. PICK T \in SUBSET S : T = OfCohort(V, k)
  BY <1>0 DEF OfCohort
<1>5. IsFiniteSet(T) /\ \A o \in T : V[o].current \in Int
  BY <1>0, FS_Subset
<1>6. PICK b : b = [o \in T |-> MonthOf(book[o].day) - k]
  OBVIOUS
<1>7. ASSUME NEW o \in T PROVE MonthOf(book[o].day) \in Int /\ b[o] \in C
  <2>1. PICK x \in book[o].buyer : CohortBy(V)[x] = k
    BY <1>4 DEF OfCohort
  <2>2. PICK c \in Customers(V) :
          /\ book[o].buyer = {c}
          /\ LastMonth(V) \in Int /\ MonthOf(book[o].day) \in Int
          /\ CohortBy(V)[c] <= MonthOf(book[o].day) /\ MonthOf(book[o].day) <= LastMonth(V)
    BY <2>1, BuyerIs
  <2>3. k <= MonthOf(book[o].day)
    BY <2>1, <2>2
  <2>4. PICK m \in Int : m = MonthOf(book[o].day)
    BY <2>2
  <2>5. m - k \in C
    BY <1>1, <1>2, <2>2, <2>3, <2>4
  <2> QED
    BY <1>6, <2>4, <2>5
<1>8. b \in [T -> C]
  BY <1>6, <1>7
<1>9. ASSUME NEW n \in C PROVE ClassOf(b, T, n) = OfCohortIn(V, k, n)
  <2>1. n \in Int
    BY <1>1, <1>2
  <2>2. \A o \in T : b[o] = n <=> MonthOf(book[o].day) = k + n
    BY <1>1, <1>6, <1>7, <2>1
  <2> QED
    BY <1>4, <2>2 DEF ClassOf, OfCohortIn
<1>10. PICK g : g = [n \in C |-> Worth(V, OfCohortIn(V, k, n))]
  OBVIOUS
<1>11. g = [n \in C |-> g[n]] /\ \A n \in C : g[n] = Worth(V, ClassOf(b, T, n))
  BY <1>9, <1>10
<1>12. SumFunction(g) = Worth(V, T)
  BY <1>3, <1>5, <1>8, <1>11, WorthInClasses
<1> QED
  BY <1>2, <1>4, <1>10, <1>12

(* The cohorts are all sales with a customer.                              *)
LEMMA AllCohortsAddUp ==
  ASSUME NEW V, NEW S, SalesFit(V, S), MonthsFit(V)
  PROVE  SumFunction([k \in KeysOf(CohortBy(V), Customers(V)) |-> Worth(V, OfCohort(V, k))])
           = Worth(V, {o \in S : book[o].buyer # {}})
<1>0. S = DOMAIN V /\ IsFiniteSet(S) /\ \A o \in S : V[o].current \in Int /\ Column(book[o].buyer)
  BY DEF SalesFit
<1>1. PICK C : C = KeysOf(CohortBy(V), Customers(V))
  OBVIOUS
<1>2. IsFiniteSet(C)
  <2>1. IsFiniteSet(Customers(V))
    BY DEF MonthsFit
  <2>2. PICK k : k = CohortBy(V)
    OBVIOUS
  <2>3. DOMAIN k = Customers(V) /\ k = [c \in Customers(V) |-> k[c]]
    BY <2>2 DEF CohortBy
  <2> QED
    BY <1>1, <2>1, <2>2, <2>3, KeysFinite
<1>3. PICK T \in SUBSET S : T = {o \in S : book[o].buyer # {}}
  OBVIOUS
<1>4. IsFiniteSet(T) /\ \A o \in T : V[o].current \in Int
  BY <1>0, FS_Subset
<1>5. PICK b : b = [o \in T |-> CohortBy(V)[The(book[o].buyer)]]
  OBVIOUS
<1>6. ASSUME NEW o \in T
      PROVE  b[o] \in C /\ \A x \in book[o].buyer : CohortBy(V)[x] = b[o]
  <2>1. PICK c \in Customers(V) :
          /\ book[o].buyer = {c} /\ The(book[o].buyer) = c
          /\ CohortBy(V)[c] \in KeysOf(CohortBy(V), Customers(V))
    BY <1>3, BuyerIs
  <2> QED
    BY <1>1, <1>5, <2>1
<1>7. b \in [T -> C]
  BY <1>5, <1>6
<1>8. ASSUME NEW k \in C PROVE ClassOf(b, T, k) = OfCohort(V, k)
  <2>1. \A o \in T : b[o] = k <=> \E c \in book[o].buyer : CohortBy(V)[c] = k
    BY <1>3, <1>6
  <2> QED
    BY <1>0, <1>3, <2>1 DEF ClassOf, OfCohort
<1>9. PICK g : g = [k \in C |-> Worth(V, OfCohort(V, k))]
  OBVIOUS
<1>10. g = [k \in C |-> g[k]] /\ \A k \in C : g[k] = Worth(V, ClassOf(b, T, k))
  BY <1>8, <1>9
<1>11. SumFunction(g) = Worth(V, T)
  BY <1>2, <1>4, <1>7, <1>10, WorthInClasses
<1> QED
  BY <1>1, <1>3, <1>9, <1>11

(* Who came back was of the cohort, and a cohort old enough for some month *)
(* is for an earlier one.                                                  *)
LEMMA CurveDoesAddUp ==
  ASSUME NEW V, NEW S, SalesFit(V, S), MonthsFit(V), NEW rows, CohortsAre(rows, V),
         NEW n \in DOMAIN RetentionCurve(rows)
  PROVE  /\ RetentionCurve(rows)[n].active <= RetentionCurve(rows)[n].eligible
         /\ \A m \in 0..n : RetentionCurve(rows)[m].eligible >= RetentionCurve(rows)[n].eligible
<1>1. PICK K : K = DOMAIN rows
  OBVIOUS
<1>2. PICK L \in Int : K # {} => L = LastMonth(V)
  <2>1. K # {} => LastMonth(V) \in Int
    BY <1>1 DEF CohortsAre, KeysOf, MonthsFit
  <2> QED
    BY <2>1
<1>3. IsFiniteSet(K) /\ K \subseteq Int
  <2>1. IsFiniteSet(Customers(V))
    BY DEF MonthsFit
  <2>2. PICK k : k = CohortBy(V)
    OBVIOUS
  <2>3. DOMAIN k = Customers(V) /\ k = [c \in Customers(V) |-> k[c]]
    BY <2>2 DEF CohortBy
  <2>4. IsFiniteSet(KeysOf(k, Customers(V)))
    BY <2>1, <2>3, KeysFinite
  <2>5. K = KeysOf(CohortBy(V), Customers(V))
    BY <1>1 DEF CohortsAre
  <2> QED
    BY <2>2, <2>4, <2>5 DEF KeysOf, MonthsFit
<1>4. ASSUME NEW k \in K
      PROVE  /\ DOMAIN rows[k].retention = 0..L - k
             /\ rows[k].size \in Nat
             /\ \A i \in 0..L - k : /\ rows[k].retention[i].customers <= rows[k].size
                                    /\ rows[k].retention[i].customers \in Int
  <2>1. L = LastMonth(V)
    BY <1>2
  <2>2. PICK C : C = ClassOf(CohortBy(V), Customers(V), k)
    OBVIOUS
  <2>3. IsFiniteSet(C)
    BY <2>2, FS_Subset DEF MonthsFit, ClassOf
  <2>4. rows[k].size = Cardinality(C) /\ DOMAIN rows[k].retention = 0..L - k
    BY <1>1, <2>1, <2>2 DEF CohortsAre
  <2>5. Cardinality(C) \in Nat
    BY <2>3, FS_CardinalityType
  <2>6. ASSUME NEW i \in 0..L - k
        PROVE  /\ rows[k].retention[i].customers <= rows[k].size
               /\ rows[k].retention[i].customers \in Int
    <3>1. rows[k].retention[i].customers = Cardinality(Returned(V, k, i))
      BY <1>1, <2>1 DEF CohortsAre
    <3>2. Returned(V, k, i) \in SUBSET C
      BY <2>2 DEF Returned
    <3>3. Cardinality(Returned(V, k, i)) <= Cardinality(C) /\ Cardinality(Returned(V, k, i)) \in Nat
      BY <2>3, <3>2, FewerThan
    <3> QED
      BY <2>4, <3>1, <3>3
  <2> QED
    BY <2>4, <2>5, <2>6
<1> DEFINE old(i) == {k \in DOMAIN rows : i \in DOMAIN rows[k].retention}
<1>5. PICK curve : curve = RetentionCurve(rows)
  OBVIOUS
<1>6. DOMAIN curve = UNION {DOMAIN rows[k].retention : k \in DOMAIN rows}
  BY <1>5 DEF RetentionCurve
<1>7. ASSUME NEW i \in DOMAIN curve
      PROVE  /\ curve[i].eligible = SumFunction([k \in old(i) |-> rows[k].size])
             /\ curve[i].active = SumFunction([k \in old(i) |-> rows[k].retention[i].customers])
  BY <1>5, <1>6 DEF RetentionCurve, SumOver
<1>8. \A i : old(i) \in SUBSET K
  BY <1>1
<1>9. \A i : \A k \in old(i) : i \in 0..L - k
  BY <1>1, <1>4
<1>10. n \in DOMAIN curve
  BY <1>5
<1>11. curve[n].active <= curve[n].eligible
  <2>1. PICK O \in SUBSET K : O = old(n)
    BY <1>8
  <2>2. IsFiniteSet(O)
    BY <1>3, FS_Subset
  <2>3. \A k \in O : /\ rows[k].size \in Int /\ rows[k].retention[n].customers \in Int
                     /\ rows[k].retention[n].customers <= rows[k].size
    BY <1>4, <1>9, <2>1
  <2>4. PICK a \in [O -> Int] : a = [k \in O |-> rows[k].retention[n].customers]
    BY <2>3
  <2>5. PICK b \in [O -> Int] : b = [k \in O |-> rows[k].size]
    BY <2>3
  <2>6. \A k \in O : a[k] <= b[k]
    BY <2>3, <2>4, <2>5
  <2>7. SumFunction(a) <= SumFunction(b)
    BY <2>2, <2>6, SumOfLess
  <2> QED
    BY <1>7, <1>10, <2>1, <2>4, <2>5, <2>7
<1>12. ASSUME NEW m \in 0..n PROVE curve[m].eligible >= curve[n].eligible
  <2>1. PICK O \in SUBSET K : O = old(m)
    BY <1>8
  <2>2. PICK P : P = old(n)
    OBVIOUS
  <2>3. ASSUME NEW k \in P PROVE k \in O /\ m \in DOMAIN rows[k].retention
    <3>1. k \in K /\ k \in Int
      BY <1>3, <1>8, <2>2
    <3>2. n \in 0..L - k
      BY <1>9, <2>2
    <3>3. m \in 0..L - k
      BY <3>1, <3>2
    <3>4. m \in DOMAIN rows[k].retention
      BY <1>4, <3>1, <3>3
    <3> QED
      BY <1>1, <2>1, <3>1, <3>4
  <2>4. P \in SUBSET O
    BY <2>3
  <2>5. m \in DOMAIN curve
    <3>1. PICK k \in P : TRUE
      BY <1>6, <1>10, <2>2
    <3> QED
      BY <1>1, <1>6, <1>8, <2>2, <2>3, <3>1
  <2>6. IsFiniteSet(O)
    BY <1>3, FS_Subset
  <2>7. \A k \in O : rows[k].size \in Int /\ rows[k].size >= 0
    BY <1>4
  <2>8. PICK b \in [O -> Int] : b = [k \in O |-> rows[k].size]
    BY <2>7
  <2>9. \A k \in O \ P : b[k] >= 0
    BY <2>7, <2>8
  <2>10. SumFunction(Part(b, P)) <= SumFunction(b)
    BY <2>4, <2>6, <2>9, SumOfFewer
  <2>11. Part(b, P) = [k \in P |-> rows[k].size]
    BY <2>4, <2>8 DEF Part
  <2>12. curve[m].eligible = SumFunction(b)
    BY <1>7, <2>1, <2>5, <2>8
  <2>13. curve[n].eligible = SumFunction(Part(b, P))
    BY <1>7, <1>10, <2>2, <2>11
  <2>14. IsFiniteSet(P) /\ Part(b, P) \in [P -> Int]
    BY <2>4, <2>6, FS_Subset DEF Part
  <2>15. SumFunction(b) \in Int /\ SumFunction(Part(b, P)) \in Int
    BY <2>6, <2>14, SumTyped
  <2> QED
    BY <2>10, <2>12, <2>13, <2>15
<1> QED
  BY <1>5, <1>11, <1>12

(* The cohorts add up to the sales of the filter.                          *)
LEMMA CohortsDoAddUp ==
  ASSUME BookFits, NEW f
  PROVE  CohortsOfAddUp(CurrentOrderValues(Sales(f), f))
<1>1. PICK V : V = CurrentOrderValues(Sales(f), f)
  OBVIOUS
<1>2. PICK S : S = DOMAIN V
  OBVIOUS
<1>3. SalesFit(V, S)
  <2>1. Sales(f) \in SUBSET DOMAIN book
    BY SalesAreFound DEF Sales
  <2>2. CurrentIs(V, Sales(f), f)
    BY <1>1, <2>1, CurrentValuesFit
  <2>3. S \in SUBSET DOMAIN book /\ \A o \in S : V[o].current \in Int
    BY <1>2, <2>1, <2>2 DEF CurrentIs, AmountsFit
  <2>4. IsFiniteSet(S)
    BY <2>3, OrdersFinite
  <2>5. \A o \in S : Column(book[o].buyer) /\ book[o].day \in Int
    BY <2>3 DEF BookFits, RowFits
  <2> QED
    BY <1>2, <2>3, <2>4, <2>5 DEF SalesFit
<1>4. MonthsFit(V)
  BY <1>3, MonthsDoFit
<1>5. PICK rows : rows = cohorts(V) /\ CohortsAre(rows, V)
  BY CohortRowsAre
<1>6. PICK M \in SUBSET S : M = {o \in DOMAIN V : book[o].buyer # {}}
  BY <1>2
<1>7. BuyersOf(M) = Customers(V)
  BY <1>2, <1>6 DEF BuyersOf, Customers
<1>8. PICK C : C = Customers(V)
  OBVIOUS
<1>9. PICK k : k = CohortBy(V)
  OBVIOUS
<1>10. DOMAIN k = C /\ k = [c \in C |-> k[c]] /\ IsFiniteSet(C)
  BY <1>4, <1>8, <1>9 DEF CohortBy, MonthsFit
<1>11. DOMAIN rows = KeysOf(k, C)
  BY <1>5, <1>8, <1>9 DEF CohortsAre
<1>12. Field(rows, LAMBDA r : r.size) = Cardinality(BuyersOf(M))
  <2>1. PICK g : g = [x \in KeysOf(k, C) |-> rows[x].size]
    OBVIOUS
  <2>2. g = [x \in KeysOf(k, C) |-> g[x]] /\ \A x \in KeysOf(k, C) : g[x] = Cardinality(ClassOf(k, C, x))
    BY <1>5, <1>8, <1>9, <1>11, <2>1 DEF CohortsAre
  <2>3. SumFunction(g) = Cardinality(C)
    BY <1>10, <2>2, CountByGroups
  <2> QED
    BY <1>7, <1>8, <1>11, <2>1, <2>3 DEF Field, SumOver
<1>13. ASSUME NEW x \in DOMAIN rows PROVE rows[x].retention[0].customers = rows[x].size
  <2>1. PICK c \in C : k[c] = x
    BY <1>11 DEF KeysOf
  <2>2. x \in Int /\ LastMonth(V) \in Int /\ x <= LastMonth(V)
    BY <1>4, <1>8, <1>9, <2>1 DEF MonthsFit
  <2>3. 0 \in 0..LastMonth(V) - x
    BY <2>2
  <2>4. rows[x].retention[0].customers = Cardinality(Returned(V, x, 0))
    BY <1>5, <2>3 DEF CohortsAre
  <2>5. \A d \in ClassOf(k, C, x) : x + 0 \in MonthsOf(d, V)
    BY <1>4, <1>8, <1>9, <2>2 DEF ClassOf, MonthsFit
  <2>6. Returned(V, x, 0) = ClassOf(k, C, x)
    BY <1>8, <1>9, <2>5 DEF Returned
  <2>7. rows[x].size = Cardinality(ClassOf(k, C, x))
    BY <1>5, <1>8, <1>9 DEF CohortsAre
  <2> QED
    BY <2>4, <2>6, <2>7
<1>14. Field(rows, LAMBDA r : Field(r.retention, LAMBDA cell : cell.revenue))
         = SumOver(M, LAMBDA o : V[o].current)
  <2>1. ASSUME NEW x \in DOMAIN rows
        PROVE  Field(rows[x].retention, LAMBDA cell : cell.revenue) = Worth(V, OfCohort(V, x))
    <3>1. PICK N : N = 0..LastMonth(V) - x
      OBVIOUS
    <3>2. DOMAIN rows[x].retention = N
      BY <1>5, <3>1 DEF CohortsAre
    <3>3. ASSUME NEW n \in N PROVE rows[x].retention[n].revenue = Worth(V, OfCohortIn(V, x, n))
      <4>1. rows[x].retention[n].revenue
              = SumFunction([c \in Returned(V, x, n) |-> Worth(V, BoughtIn(V, c, x + n))])
        BY <1>5, <3>1 DEF CohortsAre
      <4>2. SumFunction([c \in Returned(V, x, n) |-> Worth(V, BoughtIn(V, c, x + n))])
              = Worth(V, OfCohortIn(V, x, n))
        BY <1>3, <1>4, CellAddsUp
      <4> QED
        BY <4>1, <4>2
    <3>4. [n \in N |-> rows[x].retention[n].revenue] = [n \in N |-> Worth(V, OfCohortIn(V, x, n))]
      BY <3>3
    <3>5. x \in KeysOf(CohortBy(V), Customers(V))
      BY <1>8, <1>9, <1>11
    <3>6. SumFunction([n \in N |-> Worth(V, OfCohortIn(V, x, n))]) = Worth(V, OfCohort(V, x))
      BY <1>3, <1>4, <3>1, <3>5, CohortAddsUp
    <3> QED
      BY <3>2, <3>4, <3>6 DEF Field, SumOver
  <2>2. Field(rows, LAMBDA r : Field(r.retention, LAMBDA cell : cell.revenue))
          = SumFunction([x \in DOMAIN rows |-> Field(rows[x].retention, LAMBDA cell : cell.revenue)])
    BY DEF Field, SumOver
  <2>3. [x \in DOMAIN rows |-> Field(rows[x].retention, LAMBDA cell : cell.revenue)]
          = [x \in DOMAIN rows |-> Worth(V, OfCohort(V, x))]
    BY <2>1
  <2>4. SumFunction([x \in DOMAIN rows |-> Worth(V, OfCohort(V, x))])
          = Worth(V, {o \in S : book[o].buyer # {}})
    BY <1>3, <1>4, <1>8, <1>9, <1>11, AllCohortsAddUp
  <2>5. SumOver(M, LAMBDA o : V[o].current) = Worth(V, M)
    BY DEF SumOver, Worth
  <2> QED
    BY <1>2, <1>6, <2>2, <2>3, <2>4, <2>5
<1>15. ASSUME NEW n \in DOMAIN RetentionCurve(rows)
       PROVE  /\ RetentionCurve(rows)[n].active <= RetentionCurve(rows)[n].eligible
              /\ \A m \in 0..n : RetentionCurve(rows)[m].eligible >= RetentionCurve(rows)[n].eligible
  BY <1>3, <1>4, <1>5, CurveDoesAddUp
<1>16. CohortsAddUp(V, rows, RetentionCurve(rows))
  BY <1>6, <1>12, <1>13, <1>14, <1>15 DEF CohortsAddUp
<1> QED
  BY <1>1, <1>5, <1>16 DEF CohortsOfAddUp, CurveAddsUp

(* The groups of some orders, by a key.                                    *)
Grouped(k, orders) == [v \in KeysOf(k, orders) |-> Counted(ClassOf(k, orders, v))]
AllRevenue(rows) == SumFunction([x \in DOMAIN rows |-> rows[x].revenue])
TotalsOf(orders) == [o \in orders |-> book[o].total]

(* The totals of some orders add up, part by part.                         *)
LEMMA TotalsAreNumbers ==
  ASSUME BookFits, NEW orders \in SUBSET DOMAIN book
  PROVE  /\ IsFiniteSet(orders) /\ TotalsOf(orders) \in [orders -> Int]
         /\ TotalOf(orders) = SumFunction(TotalsOf(orders)) /\ TotalOf(orders) \in Int
         /\ \A T \in SUBSET orders : TotalOf(T) = SumFunction(Part(TotalsOf(orders), T))
<1>1. IsFiniteSet(orders)
  BY OrdersFinite
<1>2. \A o \in orders : book[o].total \in Int
  BY DEF BookFits, RowFits
<1>3. TotalsOf(orders) \in [orders -> Int]
  BY <1>2 DEF TotalsOf
<1>4. TotalOf(orders) = SumFunction(TotalsOf(orders))
  BY DEF TotalOf, SumOver, TotalsOf
<1>5. SumFunction(TotalsOf(orders)) \in Int
  BY <1>1, <1>3, SumTyped
<1>6. ASSUME NEW T \in SUBSET orders
      PROVE  TotalOf(T) = SumFunction(Part(TotalsOf(orders), T))
  <2>1. Part(TotalsOf(orders), T) = [o \in T |-> book[o].total]
    BY DEF Part, TotalsOf
  <2> QED
    BY <2>1 DEF TotalOf, SumOver
<1> QED
  BY <1>1, <1>3, <1>4, <1>5, <1>6

(* The groups of some orders by a key are the orders.                      *)
LEMMA GroupedAddUp ==
  ASSUME BookFits, NEW orders \in SUBSET DOMAIN book,
         NEW k, DOMAIN k = orders, k = [o \in orders |-> k[o]]
  PROVE  AllRevenue(Grouped(k, orders)) = TotalOf(orders)
<1>1. /\ IsFiniteSet(orders) /\ TotalOf(orders) = SumFunction(TotalsOf(orders))
      /\ \A T \in SUBSET orders : TotalOf(T) = SumFunction(Part(TotalsOf(orders), T))
  BY TotalsAreNumbers
<1>2. PICK f \in [orders -> Int] : f = TotalsOf(orders)
  BY TotalsAreNumbers
<1>3. PICK g : g = [v \in KeysOf(k, orders) |-> Grouped(k, orders)[v].revenue]
  OBVIOUS
<1>4. ASSUME NEW v \in KeysOf(k, orders) PROVE g[v] = SumFunction(Part(f, ClassOf(k, orders, v)))
  <2>1. ClassOf(k, orders, v) \in SUBSET orders
    BY DEF ClassOf
  <2>2. g[v] = TotalOf(ClassOf(k, orders, v))
    BY <1>3 DEF Grouped, Counted
  <2> QED
    BY <1>1, <1>2, <2>1, <2>2
<1>5. g = [v \in KeysOf(k, orders) |-> g[v]]
  BY <1>3
<1>6. SumFunction(g) = SumFunction(f)
  BY <1>1, <1>4, <1>5, SumByGroups
<1>7. DOMAIN Grouped(k, orders) = KeysOf(k, orders)
  BY DEF Grouped
<1> QED
  BY <1>1, <1>2, <1>3, <1>6, <1>7 DEF AllRevenue

(* Fewer orders earn less.                                                 *)
LEMMA FewerEarnLess ==
  ASSUME BookFits, BookIsSound, NEW orders \in SUBSET DOMAIN book, NEW some \in SUBSET orders
  PROVE  TotalOf(some) <= TotalOf(orders)
<1>1. /\ IsFiniteSet(orders) /\ TotalOf(orders) = SumFunction(TotalsOf(orders))
      /\ TotalOf(some) = SumFunction(Part(TotalsOf(orders), some))
  BY TotalsAreNumbers
<1>2. PICK f \in [orders -> Int] : f = TotalsOf(orders)
  BY TotalsAreNumbers
<1>3. \A o \in orders \ some : f[o] >= 0
  BY <1>2 DEF TotalsOf, BookIsSound, RowIsSound
<1>4. SumFunction(Part(f, some)) <= SumFunction(f)
  BY <1>1, <1>3, SumOfFewer
<1> QED
  BY <1>1, <1>2, <1>4

-----------------------------------------------------------------------------
(* The orders a dashboard counts.                                          *)
LEMMA SoldAre ==
  ASSUME BookFits, NEW start
  PROVE  /\ SoldSince(start) \in SUBSET DOMAIN book /\ Sane(SoldSince(start)) \in SUBSET SoldSince(start)
         /\ SoldSince(start) \in SUBSET SoldSince({})
         /\ \A bounds : ValidIn(bounds) \in SUBSET DOMAIN book
BY DEF SoldSince, Sane, OfStatus, Since, ValidIn

(* No order was issued after today.                                        *)
LEMMA InsightIsValid ==
  ASSUME BookFits, BookIsSound, NEW days \in Int
  PROVE  Sane(SoldSince(period_start(days))) = ValidIn(Window(days))
<1>1. PICK t \in Int : t = today
  BY MirrorConstants DEF BookFits
<1>2. \A o \in DOMAIN book : book[o].day \in Int /\ book[o].day <= t
  BY <1>1 DEF BookFits, RowFits, BookIsSound, RowIsSound
<1>3. Now = t + 1
  BY <1>1 DEF Now
<1>4. PICK start : start = period_start(days)
  OBVIOUS
<1>5. PICK end : end = IF days <= 0 THEN {} ELSE {Now}
  OBVIOUS
<1>6. PICK W : W = Window(days) /\ W = <<start, end>>
  BY <1>4, <1>5 DEF Window
<1>7. W[1] = start /\ W[2] = end
  BY <1>6
<1>8. ASSUME NEW o \in DOMAIN book
      PROVE  Within(book[o].day, W) <=> \A s \in start : book[o].day >= s
  <2>1. \A e \in end : book[o].day < e
    BY <1>2, <1>3, <1>5
  <2> QED
    BY <1>7, <2>1 DEF Within
<1>9. {o \in SoldSince({}) : Within(book[o].day, W)} = SoldSince(start)
  BY <1>8 DEF SoldSince, OfStatus, Since
<1> QED
  BY <1>4, <1>6, <1>9 DEF ValidIn

(* What a dashboard lists of the valid orders of its window.               *)
KnownOf(orders) == {o \in orders : book[o].buyer \cap DOMAIN CustomerTable # {}}
SoldBy(orders) == {o \in orders : book[o].seller \cap DOMAIN SellerTable # {}}

(* The lists of the dashboard add up to its figures.                       *)
LEMMA DashboardRevenues ==
  ASSUME BookFits, BookIsSound, NEW days \in Int
  PROVE  LET d == dashboard(days)
             listed(rows) == Field(rows, LAMBDA r : r.revenue)
         IN /\ listed(d.evolution) = d.kpis.revenue /\ listed(d.weekdays) = d.kpis.revenue
            /\ orders_insight(days).kpis = [orders |-> d.kpis.orders, revenue |-> d.kpis.revenue]
            /\ listed(d.regions) = listed(d.customers) /\ listed(d.sellers) <= d.kpis.revenue
<1>1. PICK d : d = dashboard(days)
  OBVIOUS
<1>2. PICK valid \in SUBSET DOMAIN book : valid = ValidIn(Window(days))
  BY SoldAre
<1>3. PICK known \in SUBSET DOMAIN book : known = KnownOf(valid)
  BY DEF KnownOf
<1>4. PICK named \in SUBSET valid : named = SoldBy(valid)
  BY DEF SoldBy
<1>5. PICK unit : unit = IF days <= 0 \/ days > 365 THEN "month" ELSE "day"
  OBVIOUS
<1>6. PICK k1 : k1 = [o \in valid |-> FloorBucket(book[o].day, unit)]
  OBVIOUS
<1>7. PICK k2 : k2 = [o \in valid |-> book[o].day % 7]
  OBVIOUS
<1>8. PICK k3 : k3 = [o \in known |-> StateOf(o)]
  OBVIOUS
<1>9. PICK k4 : k4 = [o \in known |-> book[o].buyer]
  OBVIOUS
<1>10. PICK k5 : k5 = [o \in named |-> book[o].seller]
  OBVIOUS
<1>11. d.evolution = Grouped(k1, valid)
  BY <1>1, <1>2, <1>5, <1>6 DEF dashboard, GroupBy, Grouped, KeysOf, ClassOf
<1>12. d.weekdays = Grouped(k2, valid)
  BY <1>1, <1>2, <1>7 DEF dashboard, GroupBy, Grouped, KeysOf, ClassOf
<1>13. d.regions = Grouped(k3, known)
  BY <1>1, <1>2, <1>3, <1>8 DEF dashboard, GroupBy, Grouped, KeysOf, ClassOf, KnownOf
<1>14. d.customers = Grouped(k4, known)
  BY <1>1, <1>2, <1>3, <1>9 DEF dashboard, GroupBy, Grouped, KeysOf, ClassOf, KnownOf
<1>15. d.sellers = Grouped(k5, named)
  BY <1>1, <1>2, <1>4, <1>10 DEF dashboard, GroupBy, Grouped, KeysOf, ClassOf, SoldBy
<1>16. d.kpis.revenue = TotalOf(valid) /\ d.kpis.orders = Cardinality(valid)
  BY <1>1, <1>2 DEF dashboard, PeriodStats, Counted, Joined
<1>17. orders_insight(days).kpis = [orders |-> Cardinality(valid), revenue |-> TotalOf(valid)]
  BY <1>2, InsightIsValid DEF orders_insight, Counted
<1>18. AllRevenue(Grouped(k1, valid)) = TotalOf(valid) /\ AllRevenue(Grouped(k2, valid)) = TotalOf(valid)
  BY <1>6, <1>7, GroupedAddUp
<1>19. AllRevenue(Grouped(k3, known)) = TotalOf(known) /\ AllRevenue(Grouped(k4, known)) = TotalOf(known)
  BY <1>8, <1>9, GroupedAddUp
<1>20. AllRevenue(Grouped(k5, named)) = TotalOf(named)
  BY <1>10, GroupedAddUp
<1>21. TotalOf(named) <= TotalOf(valid)
  BY FewerEarnLess
<1> QED
  BY <1>1, <1>11, <1>12, <1>13, <1>14, <1>15, <1>16, <1>17, <1>18, <1>19, <1>20, <1>21
     DEF Field, SumOver, AllRevenue

(* Today is in every window.                                               *)
LEMMA TodayIsInIt ==
  ASSUME BookFits, BookIsSound, NEW days \in Int
  PROVE  dashboard(days).today.revenue <= dashboard(days).kpis.revenue
<1>1. PICK t \in Int : t = today
  BY MirrorConstants DEF BookFits
<1>2. \A o \in DOMAIN book : book[o].day \in Int /\ book[o].day <= t
  BY <1>1 DEF BookFits, RowFits, BookIsSound, RowIsSound
<1>3. Now = t + 1
  BY <1>1 DEF Now
<1>4. PICK start : start = period_start(days)
  OBVIOUS
<1>5. PICK end : end = IF days <= 0 THEN {} ELSE {Now}
  OBVIOUS
<1>6. PICK W : W = Window(days) /\ W = <<start, end>>
  BY <1>4, <1>5 DEF Window
<1>7. W[1] = start /\ W[2] = end
  BY <1>6
<1>8. PICK T : T = <<{t}, {}>>
  OBVIOUS
<1>8a. T[1] = {t} /\ T[2] = {}
  BY <1>8
<1>9. ASSUME NEW o \in DOMAIN book, Within(book[o].day, T) PROVE Within(book[o].day, W)
  <2>1. book[o].day = t
    BY <1>2, <1>8a, <1>9 DEF Within
  <2>2. \A e \in end : t < e
    BY <1>3, <1>5
  <2>3. \A s \in start : t >= s
    BY <1>3, <1>4 DEF period_start
  <2> QED
    BY <1>7, <2>1, <2>2, <2>3 DEF Within
<1>10. PICK all \in SUBSET DOMAIN book : all = ValidIn(W)
  BY SoldAre
<1>11. PICK some : some = ValidIn(T)
  OBVIOUS
<1>12. some \in SUBSET all
  BY <1>9, <1>10, <1>11 DEF ValidIn, Sane, SoldSince, OfStatus, Since
<1>13. TotalOf(some) <= TotalOf(all)
  BY <1>12, FewerEarnLess
<1>14. dashboard(days).kpis.revenue = TotalOf(all)
  BY <1>6, <1>10 DEF dashboard, PeriodStats, Counted, Joined
<1>15. dashboard(days).today.revenue = TotalOf(some)
  BY <1>1, <1>8, <1>11 DEF dashboard, PeriodStats, Counted, Joined
<1> QED
  BY <1>13, <1>14, <1>15

(* The rankings count what the dashboard does, and more.                   *)
LEMMA RankingsCountMore ==
  ASSUME BookFits, BookIsSound, NEW days \in Int, NEW c \in DOMAIN dashboard(days).customers
  PROVE  rankings(days).customers[c].revenue >= dashboard(days).customers[c].revenue
<1>1. PICK valid \in SUBSET DOMAIN book : valid = ValidIn(Window(days))
  BY SoldAre
<1>2. PICK sold \in SUBSET DOMAIN book : sold = SoldSince(period_start(days))
  BY SoldAre
<1>3. valid \in SUBSET sold
  BY <1>1, <1>2, InsightIsValid, SoldAre
<1>4. PICK d : d = dashboard(days)
  OBVIOUS
<1>5. PICK r : r = rankings(days)
  OBVIOUS
<1>6. PICK k : k = [o \in KnownOf(valid) |-> book[o].buyer]
  OBVIOUS
<1>7. PICK m : m = [o \in KnownOf(sold) |-> book[o].buyer]
  OBVIOUS
<1>8. d.customers = Grouped(k, KnownOf(valid))
  BY <1>1, <1>4, <1>6 DEF dashboard, GroupBy, Grouped, KeysOf, ClassOf, KnownOf
<1>9. r.customers = Grouped(m, KnownOf(sold))
  BY <1>2, <1>5, <1>7 DEF rankings, GroupBy, Grouped, KeysOf, ClassOf, KnownOf
<1>10. c \in KeysOf(k, KnownOf(valid))
  BY <1>4, <1>8 DEF Grouped
<1>11. c \in KeysOf(m, KnownOf(sold))
  BY <1>3, <1>6, <1>7, <1>10 DEF KeysOf, KnownOf
<1>12. PICK A : A = ClassOf(k, KnownOf(valid), c)
  OBVIOUS
<1>13. PICK B : B = ClassOf(m, KnownOf(sold), c)
  OBVIOUS
<1>14. A \in SUBSET B /\ B \in SUBSET DOMAIN book
  BY <1>2, <1>3, <1>6, <1>7, <1>12, <1>13 DEF ClassOf, KnownOf
<1>15. TotalOf(A) <= TotalOf(B)
  BY <1>14, FewerEarnLess
<1>16. A \in SUBSET DOMAIN book
  BY <1>14
<1>17. TotalOf(A) \in Int /\ TotalOf(B) \in Int
  BY <1>14, <1>16, TotalsAreNumbers
<1>18. d.customers[c].revenue = TotalOf(A) /\ r.customers[c].revenue = TotalOf(B)
  BY <1>8, <1>9, <1>10, <1>11, <1>12, <1>13 DEF Grouped, Counted
<1> QED
  BY <1>4, <1>5, <1>15, <1>17, <1>18

Segments == {"ativo", "em_risco", "recuperar", "lead_novo"}

(* The segments are finitely many.                                         *)
LEMMA SegmentsFinite == IsFiniteSet(Segments)
<1>1. IsFiniteSet({"ativo"})
  BY FS_Singleton
<1>2. IsFiniteSet({"ativo"} \cup {"em_risco"})
  BY <1>1, FS_AddElement
<1>3. IsFiniteSet(({"ativo"} \cup {"em_risco"}) \cup {"recuperar"})
  BY <1>2, FS_AddElement
<1>4. IsFiniteSet((({"ativo"} \cup {"em_risco"}) \cup {"recuperar"}) \cup {"lead_novo"})
  BY <1>3, FS_AddElement
<1>5. (({"ativo"} \cup {"em_risco"}) \cup {"recuperar"}) \cup {"lead_novo"} = Segments
  BY DEF Segments
<1> QED
  BY <1>4, <1>5

(* Every customer is in one segment, and the leads to recover are two of   *)
(* them.                                                                   *)
LEMMA SegmentsArePartition ==
  ASSUME NEW days
  PROVE  /\ Field(SegmentSummary(days), LAMBDA n : n) = Cardinality(DOMAIN CustomerTable)
         /\ Cardinality(leads_to_recover(days))
              = SegmentSummary(days)["em_risco"] + SegmentSummary(days)["recuperar"]
<1>1. PICK C : C = DOMAIN CustomerTable /\ IsFiniteSet(C)
  BY CatalogueTyped
<1>2. PICK k : k = [c \in C |-> SegmentOf(c, days)]
  OBVIOUS
<1>3. \A c : SegmentOf(c, days) \in Segments
  BY DEF SegmentOf, classify_customer, Segments
<1>4. k \in [C -> Segments]
  BY <1>2, <1>3
<1>5. PICK s : s = SegmentSummary(days)
  OBVIOUS
<1>6. s = [x \in Segments |-> Cardinality(ClassOf(k, C, x))]
  <2>1. \A x : ClassOf(k, C, x) = {c \in C : SegmentOf(c, days) = x}
    BY <1>2 DEF ClassOf
  <2> QED
    BY <1>1, <1>5, <2>1 DEF SegmentSummary, Segments
<1>7. SumFunction([x \in Segments |-> Cardinality(ClassOf(k, C, x))]) = Cardinality(C)
  BY <1>1, <1>4, SegmentsFinite, CountInClasses
<1>8. Field(s, LAMBDA n : n) = SumFunction(s)
  <2>1. [x \in DOMAIN s |-> s[x]] = s
    BY <1>6
  <2> QED
    BY <2>1 DEF Field, SumOver
<1>9. PICK A \in SUBSET C : A = ClassOf(k, C, "em_risco")
  BY DEF ClassOf
<1>10. PICK B \in SUBSET C : B = ClassOf(k, C, "recuperar")
  BY DEF ClassOf
<1>11. leads_to_recover(days) = A \cup B
  <2>2. Listed("todos", days) = C
    BY <1>1, <1>3 DEF Listed, Segments
  <2> QED
    BY <1>2, <1>9, <1>10, <2>2 DEF leads_to_recover, ClassOf
<1>12. IsFiniteSet(A) /\ IsFiniteSet(B) /\ A \cap B = {}
  BY <1>1, <1>9, <1>10, FS_Subset DEF ClassOf
<1>13. Cardinality(A \cup B) = Cardinality(A) + Cardinality(B) - Cardinality(A \cap B)
  BY <1>12, FS_Union
<1>14. Cardinality(A \cap B) = 0 /\ Cardinality(A) \in Nat /\ Cardinality(B) \in Nat
  BY <1>12, FS_EmptySet, FS_CardinalityType
<1>15. s["em_risco"] = Cardinality(A) /\ s["recuperar"] = Cardinality(B)
  BY <1>6, <1>9, <1>10 DEF Segments
<1> QED
  BY <1>1, <1>5, <1>6, <1>7, <1>8, <1>11, <1>13, <1>14, <1>15

-----------------------------------------------------------------------------
(* What does not sell, and what was sold.                                  *)
LEMMA GoodsInFewer ==
  ASSUME NEW orders, NEW some \in SUBSET orders
  PROVE  GoodsIn(some) \subseteq GoodsIn(orders)
<1>1. LinesOf(some) \subseteq LinesOf(orders)
  BY LinesAre DEF IsLineOf
<1> QED
  BY <1>1 DEF GoodsIn

(* What counts as dead stock was not sold in the window.                   *)
LEMMA DeadStockIsUnsold ==
  ASSUME BookFits, NEW days \in Int, NEW g \in DOMAIN dead_stock(days)
  PROVE  /\ {g} \notin DOMAIN product_movers(days)
         /\ \A last \in dead_stock(days)[g].lastSale : days > 0 /\ today - last >= days
<1>1. PICK sold \in SUBSET DOMAIN book : sold = SoldSince(period_start(days))
  BY SoldAre
<1>2. PICK ever \in SUBSET DOMAIN book : ever = SoldSince({})
  BY SoldAre
<1>3. g \notin GoodsIn(sold)
  BY <1>1 DEF dead_stock
<1>4. DOMAIN product_movers(days) = {Line(l).good : l \in LinesOf(sold)}
  BY <1>1 DEF product_movers, rankings
<1>5. {g} \notin DOMAIN product_movers(days)
  BY <1>3, <1>4 DEF GoodsIn
<1>6. PICK mine \in SUBSET ever : mine = {o \in ever : g \in GoodsIn({o})}
  OBVIOUS
<1>7. dead_stock(days)[g].lastSale = IF mine = {} THEN {} ELSE {Max({book[o].day : o \in mine})}
  BY <1>2, <1>6 DEF dead_stock
<1>8. ASSUME NEW last \in dead_stock(days)[g].lastSale
      PROVE  days > 0 /\ today - last >= days
  <2>1. mine # {} /\ last = Max({book[o].day : o \in mine})
    BY <1>7, <1>8
  <2>2. PICK D : D = {book[o].day : o \in mine}
    OBVIOUS
  <2>3. IsFiniteSet(mine)
    <3>1. mine \in SUBSET DOMAIN book
      BY <1>6
    <3> QED
      BY <3>1, OrdersFinite
  <2>4. IsFiniteSet(D) /\ D \subseteq Int /\ D # {}
    <3>1. PICK k : k = [o \in mine |-> book[o].day]
      OBVIOUS
    <3>2. D = KeysOf(k, mine)
      BY <2>2, <3>1 DEF KeysOf
    <3>3. DOMAIN k = mine /\ k = [o \in mine |-> k[o]]
      BY <3>1
    <3>4. IsFiniteSet(D)
      BY <2>3, <3>2, <3>3, KeysFinite
    <3> QED
      BY <1>6, <2>1, <2>2, <3>4 DEF BookFits, RowFits
  <2>5. Max(D) \in D
    BY <2>4, ExtremesExist
  <2>6. PICK o \in mine : book[o].day = last
    BY <2>1, <2>2, <2>5
  <2>7. o \in ever /\ g \in GoodsIn({o})
    BY <1>6
  <2>8. o \notin sold
    BY <1>3, <2>7, GoodsInFewer
  <2>9. \E s \in period_start(days) : ~(book[o].day >= s)
    BY <1>1, <1>2, <2>7, <2>8 DEF SoldSince, OfStatus, Since
  <2>10. days > 0 /\ ~(last >= Now - days)
    BY <2>6, <2>9 DEF period_start
  <2>11. last \in Int /\ today \in Int
    BY <2>1, <2>2, <2>4, <2>5, MirrorConstants DEF BookFits
  <2> QED
    BY <2>10, <2>11 DEF Now
<1> QED
  BY <1>5, <1>8

(* What is in stock is dead stock or was sold.                             *)
LEMMA StockSellsOrNot ==
  ASSUME BookFits, NEW days \in Int, NEW g \in DOMAIN ProductTable,
         ProductTable[g].stock > 0, ProductTable[g].active, g \notin DOMAIN dead_stock(days)
  PROVE  {g} \in DOMAIN product_movers(days)
<1>1. PICK sold \in SUBSET DOMAIN book : sold = SoldSince(period_start(days))
  BY SoldAre
<1>2. g \in GoodsIn(sold)
  BY <1>1 DEF dead_stock
<1>3. PICK l \in LinesOf(sold) : g \in Line(l).good
  BY <1>2 DEF GoodsIn
<1>4. Column(Line(l).good)
  BY <1>3, LineFitsIn DEF LineFits
<1>5. Line(l).good = {g}
  BY <1>3, <1>4 DEF Column
<1> QED
  BY <1>1, <1>3, <1>5 DEF product_movers, rankings

(* The dashboard, the rankings, the segments and the stock agree.          *)
LEMMA DashboardDoesAgree ==
  ASSUME BookFits, BookIsSound, NEW days \in Int
  PROVE  DashboardAgrees(days)
<1>1. LET d == dashboard(days)
             listed(rows) == Field(rows, LAMBDA r : r.revenue)
         IN /\ listed(d.evolution) = d.kpis.revenue /\ listed(d.weekdays) = d.kpis.revenue
            /\ orders_insight(days).kpis = [orders |-> d.kpis.orders, revenue |-> d.kpis.revenue]
            /\ listed(d.regions) = listed(d.customers) /\ listed(d.sellers) <= d.kpis.revenue
  BY DashboardRevenues
<1>2. dashboard(days).today.revenue <= dashboard(days).kpis.revenue
  BY TodayIsInIt
<1>3. \A c \in DOMAIN dashboard(days).customers :
        rankings(days).customers[c].revenue >= dashboard(days).customers[c].revenue
  BY RankingsCountMore
<1>4. /\ Field(SegmentSummary(days), LAMBDA n : n) = Cardinality(DOMAIN CustomerTable)
      /\ Cardinality(leads_to_recover(days))
           = SegmentSummary(days)["em_risco"] + SegmentSummary(days)["recuperar"]
  BY SegmentsArePartition
<1>5. \A g \in DOMAIN dead_stock(days) :
        /\ {g} \notin DOMAIN product_movers(days)
        /\ \A last \in dead_stock(days)[g].lastSale : days > 0 /\ today - last >= days
  BY DeadStockIsUnsold
<1>6. \A g \in {x \in DOMAIN ProductTable : ProductTable[x].stock > 0 /\ ProductTable[x].active}
               \ DOMAIN dead_stock(days) : {g} \in DOMAIN product_movers(days)
  BY StockSellsOrNot
<1> QED
  BY <1>1, <1>2, <1>3, <1>4, <1>5, <1>6 DEF DashboardAgrees

(* The lines of the baskets, whatever they are, and what is saved on them. *)
LinesAreSound(L) ==
  /\ IsFiniteSet(L)
  /\ \A l \in L : l.savings \in Int /\ l.after \in Int /\ (~l.known => l.savings = 0)
SavedIn(k, L) == [v \in KeysOf(k, L) |-> Saved(ClassOf(k, L, v))]
SavingsAre(L) == SumFunction([l \in L |-> l.savings])
AfterAre(L) == SumFunction([l \in L |-> l.after])
AllSaved(rows) == SumFunction([x \in DOMAIN rows |-> rows[x].savings])

(* What is saved on some lines is before less after.                       *)
LEMMA SavedAre ==
  ASSUME NEW L, LinesAreSound(L)
  PROVE  /\ Saved(L).savings = SavingsAre(L) /\ Saved(L).after = AfterAre(L)
         /\ Saved(L).before = AfterAre(L) + SavingsAre(L)
         /\ SavingsAre(L) \in Int /\ AfterAre(L) \in Int
<1>1. IsFiniteSet(L) /\ \A l \in L : l.savings \in Int /\ l.after \in Int
  BY DEF LinesAreSound
<1>2. PICK s \in [L -> Int] : s = [l \in L |-> l.savings]
  BY <1>1
<1>3. PICK a \in [L -> Int] : a = [l \in L |-> l.after]
  BY <1>1
<1>4. \A l \in L : l.after + l.savings \in Int
  BY <1>1
<1>5. PICK b \in [L -> Int] : b = [l \in L |-> l.after + l.savings]
  BY <1>4
<1>6. \A l \in L : b[l] = a[l] + s[l]
  BY <1>2, <1>3, <1>5
<1>7. SumFunction(b) = SumFunction(a) + SumFunction(s)
  BY <1>1, <1>6, SumPlus
<1>8. SumFunction(s) \in Int /\ SumFunction(a) \in Int
  BY <1>1, SumTyped
<1>9. /\ Saved(L).savings = SumFunction(s) /\ Saved(L).after = SumFunction(a)
      /\ Saved(L).before = SumFunction(b)
  BY <1>2, <1>3, <1>5 DEF Saved, SumOver
<1> QED
  BY <1>2, <1>3, <1>7, <1>8, <1>9 DEF SavingsAre, AfterAre

(* The savings by a key are the savings.                                   *)
LEMMA SavedByKey ==
  ASSUME NEW L, LinesAreSound(L), NEW k, DOMAIN k = L, k = [l \in L |-> k[l]]
  PROVE  /\ AllSaved(SavedIn(k, L)) = SavingsAre(L)
         /\ IsFiniteSet(DOMAIN SavedIn(k, L))
         /\ \A v \in DOMAIN SavedIn(k, L) : SavedIn(k, L)[v].savings \in Int
<1>1. IsFiniteSet(L) /\ \A l \in L : l.savings \in Int /\ l.after \in Int
  BY DEF LinesAreSound
<1>2. PICK s \in [L -> Int] : s = [l \in L |-> l.savings]
  BY <1>1
<1>3. PICK rows : rows = SavedIn(k, L)
  OBVIOUS
<1>4. DOMAIN rows = KeysOf(k, L) /\ \A v \in KeysOf(k, L) : rows[v] = Saved(ClassOf(k, L, v))
  BY <1>3 DEF SavedIn
<1>5. ASSUME NEW v \in KeysOf(k, L)
      PROVE  rows[v].savings = SumFunction(Part(s, ClassOf(k, L, v))) /\ rows[v].savings \in Int
  <2>1. PICK T \in SUBSET L : T = ClassOf(k, L, v)
    BY DEF ClassOf
  <2>2. LinesAreSound(T)
    BY FS_Subset DEF LinesAreSound
  <2>3. Saved(T).savings = SavingsAre(T) /\ SavingsAre(T) \in Int
    BY <2>2, SavedAre
  <2>4. Part(s, T) = [l \in T |-> l.savings]
    BY <1>2 DEF Part
  <2> QED
    BY <1>4, <2>1, <2>3, <2>4 DEF SavingsAre
<1>6. PICK g : g = [v \in KeysOf(k, L) |-> rows[v].savings]
  OBVIOUS
<1>7. g = [v \in KeysOf(k, L) |-> g[v]] /\ \A v \in KeysOf(k, L) : g[v] = SumFunction(Part(s, ClassOf(k, L, v)))
  BY <1>5, <1>6
<1>8. SumFunction(g) = SumFunction(s)
  BY <1>1, <1>7, SumByGroups
<1>9. IsFiniteSet(KeysOf(k, L))
  BY <1>1, KeysFinite
<1>10. AllSaved(rows) = SumFunction(g)
  BY <1>4, <1>6 DEF AllSaved
<1>11. SavingsAre(L) = SumFunction(s)
  BY <1>2 DEF SavingsAre
<1>12. IsFiniteSet(DOMAIN rows) /\ \A v \in DOMAIN rows : rows[v].savings \in Int
  BY <1>4, <1>5, <1>9
<1> QED
  BY <1>3, <1>8, <1>10, <1>11, <1>12

(* The sizes of the drops.                                                 *)
LEMMA BucketsAddUp ==
  ASSUME NEW rows, IsFiniteSet(DOMAIN rows), \A x \in DOMAIN rows : rows[x].savings \in Int,
         NEW k, DOMAIN k = DOMAIN rows, k = [x \in DOMAIN rows |-> k[x]],
         NEW buckets, DOMAIN buckets = KeysOf(k, DOMAIN rows),
         buckets = [b \in KeysOf(k, DOMAIN rows) |-> buckets[b]],
         \A b \in KeysOf(k, DOMAIN rows) :
           buckets[b] = SumFunction([x \in ClassOf(k, DOMAIN rows, b) |-> rows[x].savings])
  PROVE  SumFunction(buckets) = AllSaved(rows)
<1>1. PICK S : S = DOMAIN rows
  OBVIOUS
<1>2. PICK e \in [S -> Int] : e = [x \in S |-> rows[x].savings]
  BY <1>1
<1>3. ASSUME NEW b \in KeysOf(k, S) PROVE buckets[b] = SumFunction(Part(e, ClassOf(k, S, b)))
  <2>1. ClassOf(k, S, b) \subseteq S
    BY DEF ClassOf
  <2>2. Part(e, ClassOf(k, S, b)) = [x \in ClassOf(k, S, b) |-> rows[x].savings]
    BY <1>2, <2>1 DEF Part
  <2> QED
    BY <1>1, <2>2
<1>4. /\ IsFiniteSet(S) /\ DOMAIN k = S /\ k = [x \in S |-> k[x]]
      /\ buckets = [b \in KeysOf(k, S) |-> buckets[b]]
  BY <1>1
<1>5. SumFunction(buckets) = SumFunction(e)
  BY <1>3, <1>4, SumByGroups
<1> QED
  BY <1>1, <1>2, <1>5 DEF AllSaved

(* Four runs that meet are the list, one by one.                           *)
LEMMA FourParts ==
  ASSUME NEW n, NEW e, IsList(e, n), NEW x, NEW y, NEW z, Ascend(x, y, z),
         NEW x1, NEW y1, NEW z1, Follows(x1, x), Follows(y1, y), Follows(z1, z),
         NEW g, g = [i \in 1..4 |-> g[i]],
         g[1] = RunOf(e, 1, x), g[2] = RunOf(e, x1, y), g[3] = RunOf(e, y1, z), g[4] = RunOf(e, z1, n)
  PROVE  g[1] + g[2] + g[3] + g[4] = RunOf(e, 1, n)
<1>1. /\ RunOf(e, 1, n) = RunOf(e, 1, x) + RunOf(e, x1, y) + RunOf(e, y1, z) + RunOf(e, z1, n)
      /\ RunOf(e, 1, x) \in Int /\ RunOf(e, x1, y) \in Int
      /\ RunOf(e, y1, z) \in Int /\ RunOf(e, z1, n) \in Int
  BY FourRuns
<1> QED
  BY <1>1

(* The tiers of the savings are runs of their ranking.                     *)
LEMMA SavingsTiersAddUp ==
  ASSUME NEW rows, IsFiniteSet(DOMAIN rows), \A x \in DOMAIN rows : rows[x].savings \in Int,
         NEW tiers, tiers = SavingsTiers(rows)
  PROVE  tiers[1] + tiers[2] + tiers[3] + tiers[4] = AllSaved(rows)
<1>1. PICK S : S = DOMAIN rows /\ IsFiniteSet(S)
  OBVIOUS
<1>2. PICK n \in Nat : n = Cardinality(S)
  BY <1>1, FS_CardinalityType
<1>3. PICK first \in [S -> Int] : first = [x \in S |-> rows[x].savings]
  BY <1>1
<1>4. IsFiniteSet(1..n) /\ Cardinality(1..n) = n
  BY FS_Interval
<1> DEFINE sorts(s) == \A i, j \in DOMAIN s : i < j =>
                         s[i] # s[j] /\ rows[s[i]].savings >= rows[s[j]].savings
<1>5. \E s \in [1..n -> S] : sorts(s)
  <2>1. PICK s \in [1..n -> S] : InRanks(s, first, first)
    BY <1>1, <1>2, RankingExists
  <2>2. ASSUME NEW i \in DOMAIN s, NEW j \in DOMAIN s, i < j
        PROVE  s[i] # s[j] /\ Outranks(first, first, s[i], s[j])
    BY <2>1, <2>2 DEF InRanks
  <2>3. \A i \in DOMAIN s : s[i] \in S
    OBVIOUS
  <2>3a. \A i \in DOMAIN s : first[s[i]] = rows[s[i]].savings /\ first[s[i]] \in Int
    BY <1>3, <2>3
  <2>3b. ASSUME NEW i \in DOMAIN s, NEW j \in DOMAIN s, i < j
         PROVE  s[i] # s[j] /\ rows[s[i]].savings >= rows[s[j]].savings
    <3>1. s[i] # s[j] /\ first[s[i]] >= first[s[j]]
      BY <2>2, <2>3a, <2>3b DEF Outranks
    <3> QED
      BY <2>3a, <3>1
  <2>4. sorts(s)
    BY <2>3b
  <2> HIDE DEF sorts
  <2> QED
    BY <2>4
<1>6. PICK s : s = CHOOSE x \in [1..Cardinality(S) -> S] : sorts(x)
  OBVIOUS
<1>7. tiers = SavingsTiersOf(rows, s)
  BY <1>1, <1>6 DEF SavingsTiers, Sorted
<1>8. s \in [1..n -> S] /\ \A i, j \in DOMAIN s : i < j => s[i] # s[j]
  <2> HIDE DEF sorts
  <2>1. s \in [1..n -> S] /\ sorts(s)
    BY <1>2, <1>5, <1>6
  <2> USE DEF sorts
  <2> QED
    BY <2>1
<1> HIDE DEF sorts
<1>9. s \in Bijection(1..n, S)
  BY <1>1, <1>2, <1>8, RankingIsAll
<1>10. PICK e \in [1..n -> Int] : e = [i \in 1..n |-> rows[s[i]].savings]
  BY <1>1, <1>8
<1>11. IsList(e, n)
  BY DEF IsList
<1>12. ReadsAlong(e, first, s, 1..n)
  BY <1>3, <1>8, <1>10 DEF ReadsAlong
<1>13. SumFunction(e) = SumFunction(first)
  BY <1>4, <1>9, <1>12, SumAlong
<1>14. RunOf(e, 1, n) = SumFunction(e)
  <2>1. {i \in DOMAIN e : 1 <= i /\ i <= n} = 1..n /\ Part(e, 1..n) = e
    BY DEF Part
  <2> QED
    BY <2>1 DEF RunOf
<1>15. Len(s) = n
  BY <1>8
<1>16. PICK x \in Nat : x = Tiers[1]
  BY TiersGrow
<1>17. PICK y \in Nat : y = Tiers[2]
  BY TiersGrow
<1>18. PICK z \in Nat : z = Tiers[3]
  BY TiersGrow
<1>19. Ascend(x, y, z)
  BY <1>16, <1>17, <1>18, TiersGrow DEF Ascend
<1>20. PICK x1 \in Nat : x1 = x + 1 /\ Follows(x1, x)
  BY DEF Follows
<1>21. PICK y1 \in Nat : y1 = y + 1 /\ Follows(y1, y)
  BY DEF Follows
<1>22. PICK z1 \in Nat : z1 = z + 1 /\ Follows(z1, z)
  BY DEF Follows
<1>23. ASSUME NEW from \in Nat, NEW to \in Nat
       PROVE  SumOver(from + 1..(IF to < Len(s) THEN to ELSE Len(s)), LAMBDA i : rows[s[i]].savings)
                = RunOf(e, from + 1, to)
  <2>1. PICK T : T = from + 1..(IF to < Len(s) THEN to ELSE Len(s))
    OBVIOUS
  <2>2. T = {i \in DOMAIN e : from + 1 <= i /\ i <= to}
    BY <1>15, <2>1
  <2>3. [i \in T |-> rows[s[i]].savings] = Part(e, T)
    BY <1>10, <2>2 DEF Part
  <2> QED
    BY <2>1, <2>2, <2>3 DEF SumOver, RunOf
<1>24. tiers[1] = RunOf(e, 1, x)
  <2>1. SumOver(0 + 1..(IF x < Len(s) THEN x ELSE Len(s)), LAMBDA i : rows[s[i]].savings)
          = RunOf(e, 0 + 1, x)
    BY <1>23
  <2>2. 0 + 1 = 1
    OBVIOUS
  <2> QED
    BY <1>7, <1>16, <2>1, <2>2 DEF SavingsTiersOf
<1>25. tiers[2] = RunOf(e, x1, y)
  <2>1. SumOver(x + 1..(IF y < Len(s) THEN y ELSE Len(s)), LAMBDA i : rows[s[i]].savings)
          = RunOf(e, x + 1, y)
    BY <1>23
  <2>2. tiers[2] = SumOver(x + 1..(IF y < Len(s) THEN y ELSE Len(s)),
                           LAMBDA i : rows[s[i]].savings)
    BY <1>7, <1>15, <1>16, <1>17, <1>18 DEF SavingsTiersOf
  <2> QED
    BY <1>20, <1>21, <1>22, <2>1, <2>2
<1>26. tiers[3] = RunOf(e, y1, z)
  <2>1. SumOver(y + 1..(IF z < Len(s) THEN z ELSE Len(s)), LAMBDA i : rows[s[i]].savings)
          = RunOf(e, y + 1, z)
    BY <1>23
  <2>2. tiers[3] = SumOver(y + 1..(IF z < Len(s) THEN z ELSE Len(s)),
                           LAMBDA i : rows[s[i]].savings)
    BY <1>7, <1>15, <1>16, <1>17, <1>18 DEF SavingsTiersOf
  <2> QED
    BY <1>20, <1>21, <1>22, <2>1, <2>2
<1>27. tiers[4] = RunOf(e, z1, n)
  <2>1. SumOver(z + 1..(IF n < Len(s) THEN n ELSE Len(s)), LAMBDA i : rows[s[i]].savings)
          = RunOf(e, z + 1, n)
    BY <1>23
  <2>2. tiers[4] = SumOver(z + 1..(IF n < Len(s) THEN n ELSE Len(s)),
                           LAMBDA i : rows[s[i]].savings)
    BY <1>7, <1>15, <1>16, <1>17, <1>18 DEF SavingsTiersOf
  <2> QED
    BY <1>20, <1>21, <1>22, <2>1, <2>2
<1>28. PICK g : g = [i \in 1..4 |-> tiers[i]]
  OBVIOUS
<1>29. g = [i \in 1..4 |-> g[i]]
  BY <1>28
<1>30. g[1] = tiers[1] /\ g[2] = tiers[2] /\ g[3] = tiers[3] /\ g[4] = tiers[4]
  BY <1>28
<1>31. IsList(e, n) /\ Ascend(x, y, z) /\ Follows(x1, x) /\ Follows(y1, y) /\ Follows(z1, z)
  BY <1>11, <1>19, <1>20, <1>21, <1>22
<1>32. /\ g[1] = RunOf(e, 1, x) /\ g[2] = RunOf(e, x1, y)
       /\ g[3] = RunOf(e, y1, z) /\ g[4] = RunOf(e, z1, n)
  BY <1>24, <1>25, <1>26, <1>27, <1>30
<1>33. g[1] + g[2] + g[3] + g[4] = RunOf(e, 1, n)
  BY <1>29, <1>31, <1>32, FourParts
<1>34. AllSaved(rows) = SumFunction(first)
  BY <1>1, <1>3 DEF AllSaved
<1> QED
  BY <1>13, <1>14, <1>30, <1>33, <1>34

(* The lists of the savings of some lines agree.                           *)
LEMMA SavingsDoAddUp ==
  ASSUME NEW L, LinesAreSound(L)
  PROVE  SavingsAgree(SavingsOfLines(L))
<1>1. PICK D : D = {l \in L : l.savings > 0}
  OBVIOUS
<1>2. LinesAreSound(D) /\ D \in SUBSET L
  BY <1>1, FS_Subset DEF LinesAreSound
<1>3. PICK k1 : k1 = [l \in D |-> l.good]
  OBVIOUS
<1>4. PICK k2 : k2 = [l \in D |-> WhoSaved(l)]
  OBVIOUS
<1>5. PICK k3 : k3 = [l \in D |-> FloorBucket(book[l.order].day, "week")]
  OBVIOUS
<1>6. PICK products : products = SavedIn(k1, D)
  OBVIOUS
<1>7. products = SavedBy(D, LAMBDA l : l.good)
  BY <1>3, <1>6 DEF SavedBy, SavedIn, KeysOf, ClassOf
<1>8. SavedBy(D, WhoSaved) = SavedIn(k2, D)
  BY <1>4 DEF SavedBy, SavedIn, KeysOf, ClassOf
<1>9. SavedBy(D, LAMBDA l : FloorBucket(book[l.order].day, "week")) = SavedIn(k3, D)
  BY <1>5 DEF SavedBy, SavedIn, KeysOf, ClassOf
<1>10. PICK same : same = {l \in L \ D : l.known}
  OBVIOUS
<1>11. PICK new : new = {l \in L : ~l.known}
  OBVIOUS
<1>12. PICK s : s = SavingsOf(L, D, products)
  OBVIOUS
<1>13. SavingsOfLines(L) = s
  BY <1>1, <1>7, <1>12 DEF SavingsOfLines
<1>14. /\ s.club = Saved(D) /\ s.lines = L /\ s.products = products
       /\ s.customers = SavedIn(k2, D) /\ s.weekly = SavedIn(k3, D)
       /\ s.unchanged = Saved(same) /\ s.new = Saved(new)
  BY <1>8, <1>9, <1>10, <1>11, <1>12 DEF SavingsOf
<1>15. s.buckets = [b \in {BandOf(DropPct(products[g]), DROP_LIMITS) : g \in DOMAIN products} |->
         SumOver({g \in DOMAIN products : BandOf(DropPct(products[g]), DROP_LIMITS) = b},
                 LAMBDA g : products[g].savings)]
  BY <1>12 DEF SavingsOf
<1>16. /\ Saved(D).savings = SavingsAre(D) /\ Saved(D).after = AfterAre(D)
       /\ Saved(D).before = AfterAre(D) + SavingsAre(D)
       /\ SavingsAre(D) \in Int /\ AfterAre(D) \in Int
  BY <1>2, SavedAre
<1>17. AllSaved(s.products) = SavingsAre(D)
  BY <1>2, <1>3, <1>6, <1>14, SavedByKey
<1>18. AllSaved(s.customers) = SavingsAre(D)
  BY <1>2, <1>4, <1>14, SavedByKey
<1>19. AllSaved(s.weekly) = SavingsAre(D)
  BY <1>2, <1>5, <1>14, SavedByKey
<1>20. Field(s.buckets, LAMBDA n : n) = SavingsAre(D)
  <2>1. PICK k : k = [g \in DOMAIN products |-> BandOf(DropPct(products[g]), DROP_LIMITS)]
    OBVIOUS
  <2>2. PICK buckets : buckets = s.buckets
    OBVIOUS
  <2>3. DOMAIN buckets = KeysOf(k, DOMAIN products)
    BY <1>15, <2>1, <2>2 DEF KeysOf
  <2>4. ASSUME NEW b \in KeysOf(k, DOMAIN products)
        PROVE  buckets[b] = SumFunction([x \in ClassOf(k, DOMAIN products, b) |-> products[x].savings])
    <3>1. ClassOf(k, DOMAIN products, b)
            = {g \in DOMAIN products : BandOf(DropPct(products[g]), DROP_LIMITS) = b}
      BY <2>1 DEF ClassOf
    <3>2. buckets[b] = SumOver({g \in DOMAIN products : BandOf(DropPct(products[g]), DROP_LIMITS) = b},
                               LAMBDA g : products[g].savings)
      BY <1>15, <2>1, <2>2 DEF KeysOf
    <3> QED
      BY <3>1, <3>2 DEF SumOver
  <2>5. buckets = [b \in KeysOf(k, DOMAIN products) |-> buckets[b]]
    BY <1>15, <2>2, <2>3
  <2>6. IsFiniteSet(DOMAIN products) /\ \A x \in DOMAIN products : products[x].savings \in Int
    BY <1>2, <1>3, <1>6, SavedByKey
  <2>7. DOMAIN k = DOMAIN products /\ k = [x \in DOMAIN products |-> k[x]]
    BY <2>1
  <2>8. SumFunction(buckets) = AllSaved(products)
    BY <2>3, <2>4, <2>5, <2>6, <2>7, BucketsAddUp
  <2>9. Field(buckets, LAMBDA n : n) = SumFunction(buckets)
    <3>1. [b \in DOMAIN buckets |-> buckets[b]] = buckets
      BY <2>3, <2>5
    <3> QED
      BY <3>1 DEF Field, SumOver
  <2> QED
    BY <1>14, <1>17, <2>2, <2>8, <2>9
<1>21. PICK tiers : tiers = SavingsTiers(s.customers)
  OBVIOUS
<1>22. tiers[1] + tiers[2] + tiers[3] + tiers[4] = SavingsAre(D)
  <2>1. PICK rows : rows = SavedIn(k2, D)
    OBVIOUS
  <2>2. IsFiniteSet(DOMAIN rows) /\ \A x \in DOMAIN rows : rows[x].savings \in Int
    BY <1>2, <1>4, <2>1, SavedByKey
  <2>3. tiers = SavingsTiers(rows)
    BY <1>14, <1>21, <2>1
  <2>4. tiers[1] + tiers[2] + tiers[3] + tiers[4] = AllSaved(rows)
    BY <2>2, <2>3, SavingsTiersAddUp
  <2> QED
    BY <1>14, <1>18, <2>1, <2>4
<1>23. s.club.after + s.unchanged.after + s.new.after = Saved(s.lines).after
  <2>1. IsFiniteSet(L) /\ \A l \in L : l.savings \in Int /\ l.after \in Int /\ (~l.known => l.savings = 0)
    BY DEF LinesAreSound
  <2>2. PICK a \in [L -> Int] : a = [l \in L |-> l.after]
    BY <2>1
  <2>3. PICK R \in SUBSET L : R = L \ D
    OBVIOUS
  <2>4. same \in SUBSET R /\ new \in SUBSET L
    BY <1>10, <1>11, <2>3
  <2>5. R \ same = new
    BY <1>1, <1>10, <1>11, <2>1, <2>3
  <2>6. PICK h \in [R -> Int] : h = Part(a, R)
    BY DEF Part
  <2>7. SumFunction(a) = SumFunction(Part(a, D)) + SumFunction(h)
    BY <1>2, <2>1, <2>3, <2>6, SumOfParts
  <2>8. IsFiniteSet(R)
    BY <2>1, FS_Subset
  <2>9. /\ SumFunction(h) = SumFunction(Part(h, same)) + SumFunction(Part(h, R \ same))
        /\ SumFunction(Part(h, same)) \in Int /\ SumFunction(Part(h, R \ same)) \in Int
    BY <2>4, <2>8, SumOfParts
  <2>10. Part(h, same) = [l \in same |-> l.after] /\ Part(h, R \ same) = [l \in new |-> l.after]
    BY <2>2, <2>3, <2>4, <2>5, <2>6 DEF Part
  <2>11. Part(a, D) = [l \in D |-> l.after]
    BY <1>2, <2>2 DEF Part
  <2>12. SumFunction(a) = AfterAre(D) + (AfterAre(same) + AfterAre(new))
    BY <2>7, <2>9, <2>10, <2>11 DEF AfterAre
  <2>13. SumFunction(a) = AfterAre(L)
    BY <2>2 DEF AfterAre
  <2>14. LinesAreSound(same) /\ LinesAreSound(new)
    <3>1. same \in SUBSET L /\ new \in SUBSET L
      BY <2>3, <2>4
    <3> QED
      BY <2>1, <3>1, FS_Subset DEF LinesAreSound
  <2>15. /\ Saved(same).after = AfterAre(same) /\ Saved(new).after = AfterAre(new)
         /\ Saved(L).after = AfterAre(L)
         /\ AfterAre(same) \in Int /\ AfterAre(new) \in Int
    BY <2>14, SavedAre
  <2>16. s.club.after = AfterAre(D) /\ s.unchanged.after = AfterAre(same) /\ s.new.after = AfterAre(new)
    BY <1>14, <1>16, <2>15
  <2> QED
    BY <1>14, <1>16, <2>12, <2>13, <2>15, <2>16
<1>24. s.club.before - s.club.savings = s.club.after
  BY <1>14, <1>16
<1>25. s.club.savings = SavingsAre(D)
  BY <1>14, <1>16
<1>26. /\ Field(s.products, LAMBDA r : r.savings) = AllSaved(s.products)
       /\ Field(s.customers, LAMBDA r : r.savings) = AllSaved(s.customers)
       /\ Field(s.weekly, LAMBDA r : r.savings) = AllSaved(s.weekly)
  BY DEF Field, SumOver, AllSaved
<1>27. SavingsAddUp(s, tiers)
  BY <1>17, <1>18, <1>19, <1>20, <1>22, <1>23, <1>24, <1>25, <1>26 DEF SavingsAddUp
<1> QED
  BY <1>13, <1>21, <1>27 DEF SavingsAgree

(* Positive numbers have a positive sum.                                   *)
LEMMA SumOfPositive ==
  ASSUME NEW S, IsFiniteSet(S), S # {}, NEW f \in [S -> Int], \A x \in S : f[x] > 0
  PROVE  SumFunction(f) \in Int /\ SumFunction(f) > 0
<1>1. f \in [S -> Nat]
  OBVIOUS
<1>2. PICK x \in S : TRUE
  OBVIOUS
<1>3. f[x] <= SumFunction(f) /\ SumFunction(f) \in Nat
  BY <1>1, SumBounds, SumNatural
<1>4. f[x] > 0 /\ f[x] \in Int
  OBVIOUS
<1> QED
  BY <1>3, <1>4

(* A rounded quotient is a number.                                         *)
LEMMA RoundedIsNumber ==
  ASSUME NEW a \in Int, NEW b \in Int, b > 0
  PROVE  Rounded(a, b) \in Int
<1>1. a \div b \in Int
  OBVIOUS
<1> QED
  BY <1>1 DEF Rounded

(* The lines bought of one product.                                        *)
Bought(orders, g) == {l \in Purchases(orders) : g \in Line(l).good}
Paid(lines) == SumOver(lines, LAMBDA l : LineTotal(Line(l)))

(* What was bought of a product is a quantity above zero and an amount.    *)
LEMMA BoughtFits ==
  ASSUME BookFits, NEW orders \in SUBSET DOMAIN book, NEW g, Bought(orders, g) # {}
  PROVE  /\ LinesQuantity(Bought(orders, g)) \in Int /\ LinesQuantity(Bought(orders, g)) > 0
         /\ Paid(Bought(orders, g)) \in Int
<1>1. PICK T : T = Bought(orders, g) /\ T # {}
  OBVIOUS
<1>2. T \in SUBSET LinesOf(orders) /\ \A l \in T : Line(l).quantity > 0
  BY <1>1 DEF Bought, Purchases
<1>3. IsFiniteSet(T)
  BY <1>2, LinesSums
<1>4. ASSUME NEW l \in T
      PROVE  LineTotal(Line(l)) \in Int /\ Line(l).quantity \in Int /\ Line(l).quantity > 0
  <2>1. LineFits(Line(l)) /\ l[1] \in orders
    BY <1>2, LineFitsIn
  <2>2. IsLineOf(l, orders)
    BY <1>2, LinesAre
  <2>3. Line(l).unit \in Int
    <3>1. l[1] \in DOMAIN book /\ l[2] \in DOMAIN book[l[1]].items
      BY <2>2 DEF IsLineOf
    <3> QED
      BY <3>1 DEF BookFits, RowFits, LineFits, Line
  <2>4. Line(l).total \in Int /\ Line(l).quantity \in Int
    BY <2>1 DEF LineFits
  <2> QED
    BY <1>2, <2>3, <2>4 DEF LineTotal
<1>5. PICK q \in [T -> Int] : q = [l \in T |-> Line(l).quantity]
  BY <1>4
<1>6. \A l \in T : q[l] > 0
  BY <1>4, <1>5
<1>7. SumFunction(q) \in Int /\ SumFunction(q) > 0
  BY <1>1, <1>3, <1>6, SumOfPositive
<1>8. PICK p \in [T -> Int] : p = [l \in T |-> LineTotal(Line(l))]
  BY <1>4
<1>9. SumFunction(p) \in Int
  BY <1>3, SumTyped
<1> QED
  BY <1>1, <1>5, <1>7, <1>8, <1>9 DEF LinesQuantity, Paid, SumOver

(* A product in a basket has a quantity above zero and an amount.          *)
LEMMA BasketFits ==
  ASSUME BookFits, NEW o \in DOMAIN book, NEW g \in DOMAIN BasketOf(o)
  PROVE  /\ BasketOf(o)[g].quantity \in Int /\ BasketOf(o)[g].quantity > 0
         /\ BasketOf(o)[g].total \in Int
<1>1. PICK T : T = Bought({o}, g)
  OBVIOUS
<1>2. PICK b : b = BasketOf(o)
  OBVIOUS
<1>3. DOMAIN b = UNION {Line(l).good : l \in Purchases({o})}
  BY <1>2 DEF BasketOf
<1>4. T # {}
  <2>1. PICK l \in Purchases({o}) : g \in Line(l).good
    BY <1>2, <1>3
  <2> QED
    BY <1>1, <2>1 DEF Bought
<1>5. b[g].quantity = LinesQuantity(T) /\ b[g].total = Paid(T)
  BY <1>1, <1>2, <1>3 DEF BasketOf, Bought, Paid
<1>6. LinesQuantity(T) \in Int /\ LinesQuantity(T) > 0 /\ Paid(T) \in Int
  BY <1>1, <1>4, BoughtFits
<1> QED
  BY <1>2, <1>5, <1>6

(* A basket holds finitely many products.                                  *)
LEMMA BasketFinite ==
  ASSUME BookFits, NEW o \in DOMAIN book
  PROVE  IsFiniteSet(DOMAIN BasketOf(o))
<1>1. PICK P \in SUBSET LinesOf({o}) : P = Purchases({o})
  BY DEF Purchases
<1>2. {o} \in SUBSET DOMAIN book
  OBVIOUS
<1>3. IsFiniteSet(P)
  BY <1>2, LinesSums
<1>4. PICK k : k = [l \in P |-> Line(l).good]
  OBVIOUS
<1>5. DOMAIN k = P /\ k = [l \in P |-> k[l]]
  BY <1>4
<1>6. IsFiniteSet(KeysOf(k, P))
  BY <1>3, <1>5, KeysFinite
<1>7. DOMAIN BasketOf(o) = UNION KeysOf(k, P)
  BY <1>1, <1>4 DEF BasketOf, KeysOf
<1>8. ASSUME NEW l \in P PROVE IsFiniteSet(k[l])
  <2>1. Column(k[l])
    BY <1>2, <1>4, LineFitsIn DEF LineFits
  <2>2. k[l] = {} \/ \E x : k[l] = {x}
    BY <2>1 DEF Column
  <2> QED
    BY <2>2, FS_EmptySet, FS_Singleton
<1>9. \A T \in KeysOf(k, P) : IsFiniteSet(T)
  BY <1>8 DEF KeysOf
<1> QED
  BY <1>6, <1>7, <1>9, FS_UNION

(* A previous unit price is a number.                                      *)
LEMMA UnitFits ==
  ASSUME BookFits, NEW g \in DOMAIN PreviousUnit
  PROVE  PreviousUnit[g] \in Int
<1>1. PICK orders \in SUBSET DOMAIN book : orders = PriorSales
  BY SalesAreFound DEF PriorSales
<1>2. PICK T : T = Bought(orders, g)
  OBVIOUS
<1>3. PICK unit : unit = PreviousUnit
  OBVIOUS
<1>4. DOMAIN unit = UNION {Line(l).good : l \in Purchases(orders)}
  BY <1>1, <1>3 DEF PreviousUnit
<1>5. T # {}
  BY <1>2, <1>3, <1>4 DEF Bought
<1>6. unit[g] = Rounded(Paid(T), LinesQuantity(T))
  BY <1>1, <1>2, <1>3, <1>4 DEF PreviousUnit, Bought, Paid
<1>7. LinesQuantity(T) \in Int /\ LinesQuantity(T) > 0 /\ Paid(T) \in Int
  BY <1>2, <1>5, BoughtFits
<1> QED
  BY <1>3, <1>6, <1>7, RoundedIsNumber

(* What is saved on a line is a number.                                    *)
LEMMA LineSavingsFit ==
  ASSUME NEW line, line.quantity \in Int, line.quantity > 0, line.total \in Int, NEW before \in Int
  PROVE  LineSavings(line, before) \in Int
<1>1. PICK net \in Int : net = Rounded(line.total, line.quantity)
  BY RoundedIsNumber
<1>2. line.quantity * (before - net) \in Int
  OBVIOUS
<1> QED
  BY <1>1, <1>2 DEF LineSavings

(* The lines of one basket.                                                *)
BasketLine(o, g, unit) ==
  [order |-> o, good |-> g, quantity |-> BasketOf(o)[g].quantity,
   after |-> BasketOf(o)[g].total, known |-> g \in DOMAIN unit,
   savings |-> IF g \in DOMAIN unit THEN LineSavings(BasketOf(o)[g], unit[g]) ELSE 0]
LinesOfBasket(o, unit) == {BasketLine(o, g, unit) : g \in DOMAIN BasketOf(o)}

(* The lines of the baskets are finitely many, with whole amounts.         *)
LEMMA BasketLinesAreSound ==
  ASSUME BookFits
  PROVE  LinesAreSound(BasketLines)
<1>1. PICK unit : unit = PreviousUnit
  OBVIOUS
<1>2. BasketLines = UNION {LinesOfBasket(o, unit) : o \in Baskets}
  BY <1>1 DEF BasketLines, LinesOfBasket, BasketLine
<1>3. Baskets \in SUBSET DOMAIN book
  BY SalesAreFound DEF Baskets, ClubSales
<1>4. IsFiniteSet(Baskets)
  BY <1>3, OrdersFinite
<1>5. ASSUME NEW o \in Baskets PROVE IsFiniteSet(LinesOfBasket(o, unit))
  <2>1. PICK D : D = DOMAIN BasketOf(o) /\ IsFiniteSet(D)
    BY <1>3, BasketFinite
  <2>2. PICK k : k = [g \in D |-> BasketLine(o, g, unit)]
    OBVIOUS
  <2>3. LinesOfBasket(o, unit) = KeysOf(k, D)
    BY <2>1, <2>2 DEF LinesOfBasket, KeysOf
  <2>4. DOMAIN k = D /\ k = [g \in D |-> k[g]]
    BY <2>2
  <2> QED
    BY <2>1, <2>3, <2>4, KeysFinite
<1>6. IsFiniteSet(BasketLines)
  <2>1. PICK k : k = [o \in Baskets |-> LinesOfBasket(o, unit)]
    OBVIOUS
  <2>2. DOMAIN k = Baskets /\ k = [o \in Baskets |-> k[o]]
    BY <2>1
  <2>3. IsFiniteSet(KeysOf(k, Baskets))
    BY <1>4, <2>2, KeysFinite
  <2>4. BasketLines = UNION KeysOf(k, Baskets)
    BY <1>2, <2>1 DEF KeysOf
  <2>5. \A T \in KeysOf(k, Baskets) : IsFiniteSet(T)
    BY <1>5, <2>1 DEF KeysOf
  <2> QED
    BY <2>3, <2>4, <2>5, FS_UNION
<1>7. ASSUME NEW l \in BasketLines
      PROVE  l.savings \in Int /\ l.after \in Int /\ (~l.known => l.savings = 0)
  <2>1. PICK o \in Baskets : l \in LinesOfBasket(o, unit)
    BY <1>2
  <2>2. PICK g \in DOMAIN BasketOf(o) : l = BasketLine(o, g, unit)
    BY <2>1 DEF LinesOfBasket
  <2>3. PICK line : line = BasketOf(o)[g]
    OBVIOUS
  <2>4. line.quantity \in Int /\ line.quantity > 0 /\ line.total \in Int
    BY <1>3, <2>3, BasketFits
  <2>5. /\ l.after = line.total /\ l.known = (g \in DOMAIN unit)
        /\ l.savings = IF g \in DOMAIN unit THEN LineSavings(line, unit[g]) ELSE 0
    BY <2>2, <2>3 DEF BasketLine
  <2>6. g \in DOMAIN unit => unit[g] \in Int
    BY <1>1, UnitFits
  <2>7. g \in DOMAIN unit => LineSavings(line, unit[g]) \in Int
    BY <2>4, <2>6, LineSavingsFit
  <2>8. l.after \in Int
    BY <2>4, <2>5
  <2>9. l.savings \in Int
    BY <2>5, <2>7
  <2>10. ASSUME ~l.known PROVE l.savings = 0
    <3>1. ~(g \in DOMAIN unit)
      BY <2>5, <2>10
    <3> QED
      BY <2>5, <3>1
  <2> QED
    BY <2>8, <2>9, <2>10
<1> QED
  BY <1>6, <1>7 DEF LinesAreSound

(* The report of the savings agrees with itself.                           *)
LEMMA SavingsDoAgree ==
  ASSUME BookFits
  PROVE  SavingsAgree(price_savings)
BY BasketLinesAreSound, SavingsDoAddUp DEF price_savings

-----------------------------------------------------------------------------
(* The stages of the carts.                                                *)
LEMMA StagesFinite == IsFiniteSet(STAGES)
<1>1. PICK k : k = [i \in 1..6 |-> <<"open", "possible_abandonment", "converted",
                                     "completed_quote", "cancelled", "other">>[i]]
  OBVIOUS
<1>2. STAGES = KeysOf(k, 1..6)
  BY <1>1 DEF STAGES, KeysOf
<1>3. DOMAIN k = 1..6 /\ k = [i \in 1..6 |-> k[i]]
  BY <1>1
<1>4. IsFiniteSet(1..6)
  <2>1. 1 \in Int /\ 6 \in Int
    OBVIOUS
  <2> QED
    BY <2>1, FS_Interval
<1> QED
  BY <1>2, <1>3, <1>4, KeysFinite

(* The stages of the carts are a partition of them.                        *)
LEMMA CartsDoAddUp ==
  ASSUME BookFits, NEW f
  PROVE  CartsAddUp(f)
<1>1. PICK C \in SUBSET DOMAIN book : C = Carts(f)
  BY DEF Carts, Matching
<1>2. PICK k : k = [o \in C |-> CartStage(book[o])]
  OBVIOUS
<1>3. \A row : CartStage(row) \in STAGES
  BY DEF CartStage, STAGES
<1>4. k \in [C -> STAGES]
  BY <1>2, <1>3
<1>5. PICK r : r = cart_report(f)
  OBVIOUS
<1>6. IsFiniteSet(C)
  BY OrdersFinite
<1>7. r.identified = SumFunction([s \in STAGES |-> Cardinality(ClassOf(k, C, s))])
  <2>1. PICK groups : groups = [s \in STAGES |-> {o \in C : CartStage(book[o]) = s}]
    OBVIOUS
  <2>2. \A s \in STAGES : groups[s] = ClassOf(k, C, s)
    BY <1>2, <2>1 DEF ClassOf
  <2>3. r.identified = SumOver(STAGES, LAMBDA s : Cardinality(groups[s]))
    BY <1>1, <1>5, <2>1 DEF cart_report
  <2>4. [s \in STAGES |-> Cardinality(groups[s])] = [s \in STAGES |-> Cardinality(ClassOf(k, C, s))]
    BY <2>2
  <2> QED
    BY <2>3, <2>4 DEF SumOver
<1>8. r.identified = Cardinality(C)
  BY <1>4, <1>6, <1>7, StagesFinite, CountInClasses
<1>9. r.items["all"] = C
  BY <1>1, <1>5 DEF cart_report
<1>10. PICK b \in SUBSET DOMAIN book : b = {o \in DOMAIN book : book[o].b2b # {}}
  OBVIOUS
<1>11. r.b2b = Cardinality(b)
  BY <1>5, <1>10 DEF cart_report
<1>12. C \in SUBSET b
  BY <1>1, <1>10 DEF Carts
<1>13. IsFiniteSet(b)
  BY OrdersFinite
<1>14. Cardinality(C) <= Cardinality(b)
  BY <1>12, <1>13, FewerThan
<1>15. \A o \in Carts(f) : book[o].b2b # {}
  BY DEF Carts
<1> QED
  BY <1>5, <1>8, <1>9, <1>11, <1>14, <1>15 DEF CartsAddUp

(* The reports of one filter agree.                                        *)
LEMMA FiguresDoAgree ==
  ASSUME BookFits, BookIsSound, NEW f \in FilterSet
  PROVE  FiguresAgree(f)
<1>1. FilterFields \subseteq DOMAIN f /\ Amount(f.dateFrom) /\ Amount(f.dateTo)
  BY QuestionsTyped
<1>2. PICK bounds : bounds = date_bounds(f)
  OBVIOUS
<1>3. PICK total : total = summary_for_bounds(f, bounds)
  OBVIOUS
<1>4. PICK mix : mix = buyer_mix(f, bounds)
  OBVIOUS
<1>5. MonthsMeet(f)
  BY <1>1, MonthsDoMeet
<1>6. SeriesAddsUp(timeseries(f), total)
  <2>1. SeriesOf(timeseries(f), f, bounds)
    BY <1>1, <1>2, DenseSeries
  <2>2. PICK series : series = timeseries(f)
    OBVIOUS
  <2>3. series = [b \in DOMAIN series |-> series[b]]
    BY <2>2 DEF timeseries, dense_timeseries, timeseries_items
  <2>4. SeriesOf(series, f, bounds)
    BY <2>1, <2>2
  <2> QED
    BY <1>3, <2>2, <2>3, <2>4, SeriesDoesAddUp
<1>7. MixAddsUp(f, total, mix)
  BY <1>2, <1>3, <1>4, MixDoesAddUp
<1>8. ListAddsUp(f, total, OrdersSummary(f), StatusBreakdown(f), ValueDistribution(f, BandLimits))
  BY <1>2, <1>3, ListDoesAddUp
<1>9. PeopleAddUp(f, total, SellerAggregate(f), CustomerAggregate(f))
  BY <1>2, <1>3, PeopleDoAddUp
<1>10. MapAddsUp(f, total)
  BY <1>2, <1>3, MapDoesAddUp
<1>11. TiersAddUp(CustomerTiers(RankedCustomers(CustomerAggregate(f))))
  BY TiersDoAddUp
<1>12. SalesAgree(f, total, mix)
  BY <1>6, <1>7, <1>8, <1>9, <1>10, <1>11 DEF SalesAgree
<1>13. PICK current : current = overview(f).current
  OBVIOUS
<1>14. current.summary = total /\ current.mix = mix
  BY <1>2, <1>3, <1>4, <1>13 DEF overview
<1>15. FiguresOf(f, current)
  BY <1>12, <1>14 DEF FiguresOf
<1>16. GoodsAgree(f, ProductAggregate(f), products_page(f))
  BY <1>1, ProductsDoAddUp, DrillDownDoesAgree DEF GoodsAgree
<1>17. CohortsOfAddUp(CurrentOrderValues(Sales(f), f))
  BY CohortsDoAddUp
<1> QED
  BY <1>5, <1>13, <1>15, <1>16, <1>17 DEF FiguresAgree

(* The reports agree, for every filter and number of days.                 *)
LEMMA ReportsDoAgree ==
  ASSUME BookFits, BookIsSound
  PROVE  ReportsAgree
<1>1. ASSUME NEW f \in FilterSet PROVE FiguresAgree(f) /\ CartsAddUp(f)
  BY FiguresDoAgree, CartsDoAddUp
<1>2. ASSUME NEW days \in DaySet PROVE DashboardAgrees(days)
  <2>1. days \in Int
    BY QuestionsTyped
  <2> QED
    BY <2>1, DashboardDoesAgree
<1> QED
  BY <1>1, <1>2, SavingsDoAgree, QualityDoesAddUp DEF ReportsAgree

(* What one reader can compare agrees, in every state the synchronisation  *)
(* and the midnights lead to, when what the origin sends of an order is    *)
(* not negative and was not issued after it was changed.                   *)
THEOREM ReadModelsDoAgree == FairBiAppSpec => []ReadModelsAgree
<1> DEFINE Inv == MirrorInv /\ ExportInv /\ BookFits /\ BookIsSound
<1>1. BiAppInit => Inv
  <2>1. BiAppInit => MirrorInv
    BY LeadsStart DEF AppInv
  <2>2. BiAppInit => ExportInv
    BY DEF BiAppInit, ExportInit, ExportInv
  <2> QED
    BY <2>1, <2>2, TablesStart
<1>2. Inv /\ [BiAppNext]_biApp => Inv'
  BY MirrorStays, ExportStays, TablesStay
<1>3. Inv => ReadModelsAgree
  <2>1. MirrorInv => MirrorTypeOK /\ HistoryIsCurrent
    BY DEF MirrorInv
  <2>2. MirrorInv /\ ExportInv => ExportIsExact
    BY DEF ExportInv, ExportIsExact, WrittenInOrder, Asked, NoExport
  <2> QED
    BY <2>1, <2>2, ReportsDoAgree DEF ReadModelsAgree
<1> QED
  BY <1>1, <1>2, <1>3, PTL DEF FairBiAppSpec
=============================================================================
