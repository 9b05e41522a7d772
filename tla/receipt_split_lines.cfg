\* One receipt that lists an item twice.
SPECIFICATION ServicesSpec
CONSTANTS
  s1 = s1
  s2 = s2
  shelf = shelf
  store = store
  noplace = noplace
  o1 = o1
  bolts = bolts
  nuts = nuts
  r1 = r1
  r2 = r2
  l1 = l1
  l2 = l2
  Logins = {l1, l2}
  n1 = n1
  n2 = n2
  n3 = n3
  n4 = n4
  y1 = y1
  y2 = y2
  y3 = y3
  y4 = y4
  a1 = a1
  t1 = t1
  h1 = h1
  v1 = v1
  t2 = t2
  t3 = t3
  f1 = f1
  f2 = f2
  f3 = f3
  x1 = x1
  x2 = x2
  x3 = x3
  Sessions = {s1}
  MaxCommits = 4
  Budget <- MCGoodsBudget
  Places = {shelf, store}
  NoPlace = noplace
  Adjustment <- None
  Transfer <- None
  Reservation <- None
  Titles = {r1, t2, t3}
  Installment <- MCInstallment
  Payment <- MCPayment
  Item <- MCItem
  Receipt <- MCSplitReceipt
  Sale <- MCSale
  FirstContent <- MCFirstContent
  Quote <- MCQuote
  Option <- MCOption
  Draft <- MCDraft
  Percents = {50, 100}
  OrderTitles <- MCOrderTitles
  BilledAtOrigin = {v1}
  Refund <- MCRefund
INVARIANT StockMatchesReceipts
CHECK_DEADLOCK FALSE
