----------------------------- MODULE BiAppProofs -----------------------------
(***************************************************************************)
(* Proofs about BiSync, for any resources, histories of changes, jobs,     *)
(* people and sizes of pages, and about the mirror of the orders and the   *)
(* leads of BiApp, for any history of the books.                           *)
(*                                                                         *)
(* BiSync.  A token that a runner works under is its own (OwnTokens), so   *)
(* whoever finds it in sync_states has held the lease since its claim, and *)
(* nobody else wrote the rows of the resource meanwhile.  HolderIsCurrent  *)
(* follows the holder: its pages and what is stored leave nothing out up   *)
(* to its cursor, and the page in its hand is not older than what is       *)
(* stored.  Of a runner that lost its lease nothing is claimed: its page   *)
(* is refused.                                                             *)
(*                                                                         *)
(* Leads.  A list is a function of its members, and the place of a member  *)
(* counts those before it; places are a bijection with 1..n, so the pages  *)
(* of a list show each member once.  A column of a lead that is filled     *)
(* stays filled, whatever a request or a transition of the Kanban does.    *)
(* Totals are sums over the customers and their orders, regrouped by       *)
(* salesman, by month and by class.                                        *)
(***************************************************************************)
EXTENDS BiApp, SumTheorems

Paging == {"list", "hydrate", "persist"}
InHand == {"hydrate", "persist"}
Working == Paging \cup {"backfill", "repair", "finish"}

StateRows == [cursor : Nat, running : BOOLEAN, token : Tokens \cup {NoToken},
              fresh : BOOLEAN]
AnyRow == [id : UNION {RowsOf(r) : r \in Resources}, version : Nat, items : BOOLEAN]
RunnerRows ==
  [pc : Pcs, plan : Seq(Resources), full : BOOLEAN, token : Tokens \cup {NoToken},
   cursor : Nat, pages : Nat, batches : Nat, rows : SUBSET AnyRow, more : BOOLEAN,
   result : {"none", "running", "success", "partial"} \cup Failures]

TablesTyped ==
  /\ state \in [Resources -> StateRows]
  /\ origin \in [Resources -> Nat]
  /\ DOMAIN stored = Resources
  /\ stored = [r \in Resources |-> stored[r]]
  /\ \A r \in Resources :
       /\ stored[r] \in [RowsOf(r) -> [version : Nat, items : BOOLEAN]]
       /\ origin[r] <= Len(Changes[r])
       /\ state[r].cursor <= origin[r]

(* v is a version of the row that the origin had, or none.                 *)
IsVersion(r, id, v) == v \in 0..origin[r] /\ (v > 0 => Changes[r][v] = id)

StoredIsReal ==
  \A r \in Resources : \A id \in RowsOf(r) :
    /\ IsVersion(r, id, stored[r][id].version)
    /\ (stored[r][id].version > 0 /\ id \notin Bare) => stored[r][id].items

(* What a runner has in hand was at the origin; the backfill only has      *)
(* orders that are listed without their items.                             *)
RowsAreReal(p) ==
  /\ runner[p].pc = "hydrate" => ResourceOf(p) = Orders
  /\ runner[p].pc \in InHand =>
       \A row \in runner[p].rows :
         /\ row.id \in RowsOf(ResourceOf(p))
         /\ row.version > 0 /\ IsVersion(ResourceOf(p), row.id, row.version)
         /\ row.id \notin Bare => row.items
  /\ runner[p].pc = "repair" =>
       \A row \in runner[p].rows :
         row.id \in RowsOf(Orders) \cap Bare /\ IsVersion(Orders, row.id, row.version)

RunnerTyped(p) ==
  /\ runner[p] \in RunnerRows
  /\ runner[p].pc # "idle" => runner[p].plan # <<>>
  /\ runner[p].pc \in Working => runner[p].token # NoToken
  /\ runner[p].pc \in Paging => runner[p].cursor <= origin[ResourceOf(p)]

(* The pages of the holder of a lease, with the one it has in hand, leave  *)
(* nothing out up to its cursor, and the one in hand is not older than     *)
(* what is stored.                                                         *)
ReadOrStored(p, c) ==
  LET r == ResourceOf(p) IN
    \/ stored[r][Changes[r][c]].version = c
    \/ /\ runner[p].pc \in InHand
       /\ \E row \in runner[p].rows : row.id = Changes[r][c] /\ row.version = c

HolderIsCurrent(p) ==
  (runner[p].pc \in Paging /\ HasLease(p)) =>
    LET r == ResourceOf(p) IN
      /\ \A c \in Current(r) :
           (c <= runner[p].cursor /\ Changes[r][c] \notin Bare) => ReadOrStored(p, c)
      /\ runner[p].pc \in InHand =>
           \A row \in runner[p].rows :
             row.id \notin Bare =>
               /\ row.version >= stored[r][row.id].version
               /\ \A other \in runner[p].rows :
                    other.id = row.id => other.version = row.version

LeasesHaveTokens == \A r \in Resources : state[r].running <=> state[r].token # NoToken

OwnTokens ==
  \A p, q \in Runners :
    (runner[p].token = runner[q].token /\ runner[p].token # NoToken) => p = q

BiInv ==
  /\ TablesTyped /\ StoredIsReal
  /\ runner \in [Runners -> RunnerRows]
  /\ \A p \in Runners : RunnerTyped(p) /\ RowsAreReal(p) /\ HolderIsCurrent(p)
  /\ LeasesHaveTokens /\ OwnTokens /\ RunsFollowLeases
  /\ CursorIsBacked
  /\ {busy, cancelled, cancelling, blocked} \subseteq BOOLEAN

-----------------------------------------------------------------------------
(* Numbers and finite sets                                                 *)

LEMMA LeastExists ==
  ASSUME NEW S \in SUBSET Nat, S # {}
  PROVE  \E x \in S : \A y \in S : x <= y
<1>1. PICK x \in S : \A y \in S : ~(<<y, x>> \in OpToRel(<, Nat))
  BY NatLessThanWellFounded, WFMin
<1>2. \A y \in S : ~(y < x)
  BY <1>1 DEF OpToRel
<1> QED
  BY <1>2

LEMMA GreatestExists ==
  ASSUME NEW n \in Nat, NEW S \in SUBSET (0..n), S # {}
  PROVE  \E x \in S : \A y \in S : y <= x
<1> DEFINE T == {n - x : x \in S}
<1>1. T \in SUBSET Nat /\ T # {}
  <2>1. \A x \in S : n - x \in Nat
    OBVIOUS
  <2> QED
    BY <2>1
<1>2. PICK t \in T : \A u \in T : t <= u
  BY <1>1, LeastExists
<1>3. PICK x \in S : t = n - x
  BY <1>2
<1>4. \A y \in S : y <= x
  BY <1>2, <1>3
<1> QED
  BY <1>4

LEMMA ImageIsSmaller ==
  ASSUME NEW S, IsFiniteSet(S), NEW f \in [S -> Nat]
  PROVE  LET T == {f[x] : x \in S} IN
           IsFiniteSet(T) /\ Cardinality(T) \in Nat /\ Cardinality(T) <= Cardinality(S)
<1> DEFINE T == {f[x] : x \in S}
<1>1. f \in Surjection(S, T)
  BY DEF Surjection
<1> QED
  BY <1>1, FS_Surjection, FS_CardinalityType

LEMMA RunnerFields ==
  ASSUME NEW t \in RunnerRows
  PROVE  /\ t.pc \in Pcs /\ t.plan \in Seq(Resources) /\ t.full \in BOOLEAN
         /\ t.token \in Tokens \cup {NoToken} /\ t.cursor \in Nat
         /\ t.rows \subseteq AnyRow
         /\ t.result \in {"none", "running", "success", "partial"} \cup Failures
BY DEF RunnerRows

(* There is a token that nobody has.                                       *)
LEMMA NewTokenIsUnused ==
  BiInv => NewToken \in Tokens /\ NewToken # NoToken
           /\ \A r \in Resources : state[r].token # NewToken
           /\ \A p \in Runners : runner[p].token # NewToken
<1> SUFFICES ASSUME BiInv
    PROVE NewToken \in Unused /\ NewToken # NoToken
  BY DEF Unused
<1>1. Tokens \subseteq Nat \ {0} /\ NoToken = 0
  BY TokensAreNumbers DEF NoToken
<1> DEFINE f == [r \in Resources |-> state[r].token]
           g == [p \in Runners |-> runner[p].token]
           S == {f[r] : r \in Resources}
           T == {g[p] : p \in Runners}
<1>2. f \in [Resources -> Nat] /\ g \in [Runners -> Nat]
  <2>1. \A r \in Resources : state[r].token \in Nat
    BY <1>1 DEF BiInv, TablesTyped, StateRows
  <2>2. \A p \in Runners : runner[p].token \in Nat
    <3>1. \A p \in Runners : runner[p] \in RunnerRows
      BY DEF BiInv
    <3>2. \A p \in Runners : runner[p].token \in Tokens \cup {NoToken}
      BY <3>1, RunnerFields
    <3>3. Tokens \cup {NoToken} \subseteq Nat
      BY <1>1
    <3> QED
      BY <3>2, <3>3
  <2> QED
    BY <2>1, <2>2
<1>3. /\ IsFiniteSet(S) /\ Cardinality(S) \in Nat /\ Cardinality(S) <= Cardinality(Resources)
      /\ IsFiniteSet(T) /\ Cardinality(T) \in Nat /\ Cardinality(T) <= Cardinality(Runners)
  <2> HIDE DEF f, g
  <2> QED
    BY <1>2, TokensAreNumbers, ImageIsSmaller
<1>4. S \cup T \in SUBSET Nat /\ ~(Tokens \subseteq S \cup T)
  <2> HIDE DEF S, T
  <2>1. /\ IsFiniteSet(S \cup T) /\ IsFiniteSet(S \cap T)
        /\ Cardinality(S \cup T) = Cardinality(S) + Cardinality(T) - Cardinality(S \cap T)
        /\ Cardinality(S \cap T) \in Nat
    BY <1>3, FS_Union, FS_Subset, FS_CardinalityType
  <2>2. Cardinality(S \cup T) <= Cardinality(Resources) + Cardinality(Runners)
    <3>1. Cardinality(Resources) \in Nat /\ Cardinality(Runners) \in Nat
      BY TokensAreNumbers, FS_CardinalityType
    <3> QED
      BY <1>3, <2>1, <3>1
  <2>3. ASSUME Tokens \subseteq S \cup T PROVE FALSE
    <3>1. Cardinality(Tokens) <= Cardinality(S \cup T)
      BY <2>1, <2>3, FS_Subset
    <3>2. /\ Cardinality(Tokens) \in Nat /\ Cardinality(Resources) \in Nat
          /\ Cardinality(Runners) \in Nat /\ Cardinality(S \cup T) \in Nat
      BY <2>1, TokensAreNumbers, FS_CardinalityType
    <3> QED
      BY <2>2, <3>1, <3>2, TokensAreNumbers
  <2> QED
    BY <1>2, <2>3 DEF S, T
<1>5. PICK t \in Tokens : t \notin S \cup T
  BY <1>4
<1>6. t \in Unused
  <2>1. /\ \A r \in Resources : state[r].token # t
        /\ \A p \in Runners : runner[p].token # t
    BY <1>5
  <2>2. \A run \in open : run[1] # t
    BY <2>1 DEF BiInv, RunsFollowLeases
  <2> QED
    BY <2>1, <2>2 DEF Unused
<1>7. Unused \in SUBSET Nat /\ \A u \in Unused : u # NoToken
  BY <1>1 DEF Unused
<1>8. \E u \in Unused : \A v \in Unused : u <= v
  BY <1>6, <1>7, LeastExists
<1> QED
  BY <1>7, <1>8 DEF NewToken

-----------------------------------------------------------------------------
(* The changes of the origin                                               *)

LEMMA Occurred ==
  ASSUME TablesTyped, NEW r \in Resources
  PROVE  /\ Current(r) \subseteq 1..origin[r] /\ 1..origin[r] \subseteq DOMAIN Changes[r]
         /\ \A c \in 1..origin[r] : Changes[r][c] \in RowsOf(r)
         /\ \A c \in Current(r), d \in 1..origin[r] : Changes[r][d] = Changes[r][c] => d <= c
<1>1. origin[r] \in Nat /\ origin[r] <= Len(Changes[r]) /\ Changes[r] \in Seq(RowsOf(r))
  BY OriginTyped DEF TablesTyped
<1>2. 1..origin[r] \subseteq DOMAIN Changes[r]
  BY <1>1
<1>3. Current(r) \subseteq 1..origin[r]
  BY DEF Current
<1>4. ASSUME NEW c \in Current(r), NEW d \in 1..origin[r], Changes[r][d] = Changes[r][c]
      PROVE  d <= c
  BY <1>1, <1>4 DEF Current
<1> QED
  BY <1>2, <1>3, <1>4 DEF RowsOf

(* A row that occurred has one current version.                            *)
LEMMA VersionIsCurrent ==
  ASSUME TablesTyped, NEW r \in Resources, NEW d \in 1..origin[r]
  PROVE  LET c == VersionOf(r, Changes[r][d])
         IN c \in 1..origin[r] /\ Changes[r][c] = Changes[r][d]
<1> DEFINE S == {c \in 1..origin[r] : Changes[r][c] = Changes[r][d]}
<1>1. origin[r] \in Nat
  BY DEF TablesTyped
<1>2. S \in SUBSET (0..origin[r]) /\ S # {}
  BY <1>1
<1>3. PICK c \in S : \A y \in S : y <= c
  BY <1>1, <1>2, GreatestExists
<1>4. c \in Current(r)
  BY <1>1, <1>3 DEF Current
<1>5. Current(r) \subseteq 1..origin[r]
  BY DEF Current
<1> QED
  BY <1>3, <1>4, <1>5 DEF VersionOf

(* A page leaves nothing out up to its last change.                        *)
LEMMA PageIsNext ==
  ASSUME TablesTyped, NEW r \in Resources, NEW x \in Nat
  PROVE  LET page == PageAfter(r, x) IN
           /\ page \subseteq Current(r)
           /\ page # {} => /\ LastOf(page) \in page
                           /\ \A c \in Current(r) : c > x /\ c <= LastOf(page) => c \in page
<1> DEFINE after == {c \in Current(r) : c > x}
           Earlier(c) == {d \in after : d < c}
           page == PageAfter(r, x)
<1>1. origin[r] \in Nat /\ Current(r) \subseteq 1..origin[r]
  BY DEF TablesTyped, Current
<1>2. page \subseteq after /\ after \subseteq 1..origin[r] /\ IsFiniteSet(1..origin[r])
  BY <1>1, FS_Interval DEF PageAfter
<1>3. \A c \in after : IsFiniteSet(Earlier(c)) /\ Cardinality(Earlier(c)) \in Nat
  BY <1>2, FS_Subset, FS_CardinalityType
<1>4. ASSUME page # {} PROVE LastOf(page) \in page /\ \A d \in page : d <= LastOf(page)
  <2>1. page \in SUBSET (0..origin[r])
    BY <1>1, <1>2
  <2> QED
    BY <1>1, <1>4, <2>1, GreatestExists DEF LastOf
<1>5. ASSUME NEW m \in page, NEW c \in after, c <= m PROVE c \in page
  <2>1. m \in after /\ Cardinality(Earlier(m)) < PageSize
    BY DEF PageAfter
  <2>2. Earlier(c) \subseteq Earlier(m)
    BY <1>2, <1>5, <2>1
  <2>3. Cardinality(Earlier(c)) <= Cardinality(Earlier(m))
    BY <1>3, <2>1, <2>2, FS_Subset
  <2>4. Cardinality(Earlier(c)) < PageSize
    <3> DEFINE a == Cardinality(Earlier(c))
               b == Cardinality(Earlier(m))
    <3>1. a \in Nat /\ b \in Nat /\ a <= b /\ b < PageSize /\ PageSize \in Nat
      BY <1>3, <2>1, <2>3, BoundsTyped
    <3> HIDE DEF a, b
    <3>2. a < PageSize
      BY <3>1
    <3> QED
      BY <3>2 DEF a
  <2> QED
    BY <2>4 DEF PageAfter
<1>6. page \subseteq Current(r)
  BY <1>2
<1> HIDE DEF page
<1> QED
  BY <1>4, <1>5, <1>6 DEF page

-----------------------------------------------------------------------------
(* What a step leaves alone                                                *)

RunnerIsGood(p) == RunnerTyped(p) /\ RowsAreReal(p) /\ HolderIsCurrent(p)

(* The runner of a listed resource keeps its lease and what its cursor     *)
(* stands for.                                                             *)
KeepsPages(q) ==
  \A r \in Resources :
    (runner[q].pc \in Paging /\ r = ResourceOf(q) /\ state'[r].token = runner[q].token) =>
      /\ state[r].token = runner[q].token
      /\ \A id \in RowsOf(r) \ Bare : stored'[r][id] = stored[r][id]

LEMMA PlanHasHead ==
  ASSUME NEW q \in Runners, RunnerTyped(q), runner[q].pc # "idle"
  PROVE  ResourceOf(q) \in Resources
<1>1. runner[q].plan \in Seq(Resources) /\ runner[q].plan # <<>>
  BY RunnerFields DEF RunnerTyped
<1> QED
  BY <1>1 DEF ResourceOf

LEMMA OtherStays ==
  ASSUME BiInv, NEW q \in Runners, UNCHANGED <<origin, runner[q]>>, KeepsPages(q)
  PROVE  RunnerIsGood(q)'
<1>1. RunnerTyped(q) /\ RowsAreReal(q) /\ HolderIsCurrent(q)
  BY DEF BiInv
<1>2. RunnerTyped(q)' /\ RowsAreReal(q)'
  BY <1>1 DEF RunnerTyped, RowsAreReal, IsVersion, ResourceOf
<1>3. HolderIsCurrent(q)'
  <2> SUFFICES ASSUME runner[q].pc \in Paging, HasLease(q)' PROVE HolderIsCurrent(q)'
    BY DEF HolderIsCurrent
  <2>1. PICK r \in Resources : r = ResourceOf(q)
    BY <1>1, PlanHasHead DEF Paging
  <2>2. ResourceOf(q)' = r
    BY <2>1 DEF ResourceOf
  <2>3. state'[r].token = runner[q].token
    BY <2>2 DEF HasLease
  <2>4. /\ HasLease(q)
        /\ \A id \in RowsOf(r) \ Bare : stored'[r][id] = stored[r][id]
    BY <2>1, <2>3 DEF KeepsPages, HasLease
  <2>5. \A c \in Current(r) : Changes[r][c] \in RowsOf(r)
    BY Occurred DEF BiInv
  <2>6. \A row \in runner[q].rows : runner[q].pc \in InHand => row.id \in RowsOf(r)
    BY <1>1, <2>1 DEF RowsAreReal
  <2>7. Current(r)' = Current(r)
    BY DEF Current
  <2>8. ASSUME NEW c \in Current(r), c <= runner[q].cursor, Changes[r][c] \notin Bare
        PROVE  \/ stored'[r][Changes[r][c]].version = c
               \/ /\ runner[q].pc \in InHand
                  /\ \E row \in runner[q].rows : row.id = Changes[r][c] /\ row.version = c
    BY <1>1, <2>1, <2>4, <2>5, <2>8 DEF HolderIsCurrent, ReadOrStored
  <2>9. ASSUME runner[q].pc \in InHand, NEW row \in runner[q].rows, row.id \notin Bare
        PROVE  /\ row.version >= stored'[r][row.id].version
               /\ \A other \in runner[q].rows :
                    other.id = row.id => other.version = row.version
    BY <1>1, <2>1, <2>4, <2>6, <2>9 DEF HolderIsCurrent
  <2> QED
    BY <2>2, <2>7, <2>8, <2>9 DEF HolderIsCurrent, ReadOrStored
<1> QED
  BY <1>2, <1>3 DEF RunnerIsGood

(* What a runner may become in a step that touches no table.               *)
OffPages(p, t) ==
  /\ t \in RunnerRows
  /\ t.token \in {runner[p].token, NoToken}
  /\ t.pc # "idle" => t.plan # <<>>
  /\ t.pc \in Working => t.token # NoToken
  /\ t.pc \notin Paging
  /\ t.pc = "repair" =>
       \A row \in t.rows :
         row.id \in RowsOf(Orders) \cap Bare /\ IsVersion(Orders, row.id, row.version)

LEMMA TablesAlone ==
  ASSUME BiInv, UNCHANGED <<tables, origin>>
  PROVE  /\ TablesTyped' /\ StoredIsReal' /\ LeasesHaveTokens'
         /\ RunsFollowLeases' /\ CursorIsBacked'
<1>1. UNCHANGED <<state, open, stored, origin>>
  BY DEF tables
<1>2. \A r \in Resources : Current(r)' = Current(r)
  BY <1>1 DEF Current
<1>3. CursorIsBacked'
  BY <1>1, <1>2 DEF BiInv, CursorIsBacked, Shows
<1> QED
  BY <1>1, <1>3 DEF BiInv, TablesTyped, StoredIsReal, IsVersion, LeasesHaveTokens,
                    RunsFollowLeases

LEMMA OffPagesIsGood ==
  ASSUME BiInv, NEW p \in Runners, NEW t, OffPages(p, t), origin' = origin,
         runner' = [runner EXCEPT ![p] = t]
  PROVE  RunnerIsGood(p)'
<1>1. runner'[p] = t
  BY DEF BiInv
<1>2. RunnerTyped(p)'
  BY <1>1 DEF OffPages, RunnerTyped
<1>3. RowsAreReal(p)'
  BY <1>1 DEF OffPages, RowsAreReal, IsVersion, Paging, InHand
<1>4. HolderIsCurrent(p)'
  BY <1>1 DEF OffPages, HolderIsCurrent
<1> QED
  BY <1>2, <1>3, <1>4 DEF RunnerIsGood

LEMMA TokensKept ==
  ASSUME BiInv, NEW p \in Runners, NEW t, OffPages(p, t),
         runner' = [runner EXCEPT ![p] = t]
  PROVE  OwnTokens'
<1>1. \A q \in Runners : runner'[q].token \in {runner[q].token, NoToken}
  BY DEF BiInv, OffPages
<1> QED
  BY <1>1 DEF BiInv, OwnTokens

LEMMA RunnerAlone ==
  ASSUME BiInv, NEW p \in Runners, NEW t, OffPages(p, t), UNCHANGED <<tables, origin>>,
         runner' = [runner EXCEPT ![p] = t],
         {busy', cancelled', cancelling', blocked'} \subseteq BOOLEAN
  PROVE  BiInv'
<1>1. UNCHANGED <<state, stored, origin>>
  BY DEF tables
<1>2. ASSUME NEW q \in Runners PROVE RunnerIsGood(q)'
  <2>1. CASE q = p
    BY <2>1, OffPagesIsGood
  <2>2. CASE q # p
    <3>1. UNCHANGED runner[q] /\ KeepsPages(q)
      BY <1>1, <2>2 DEF KeepsPages, BiInv
    <3> QED
      BY <1>1, <3>1, OtherStays
  <2> QED
    BY <2>1, <2>2
<1>3. runner' \in [Runners -> RunnerRows]
  BY DEF BiInv, OffPages
<1>4. OwnTokens'
  BY TokensKept
<1> QED
  BY <1>2, <1>3, <1>4, TablesAlone DEF BiInv, RunnerIsGood

-----------------------------------------------------------------------------
(* Steps that touch no table                                               *)

FlagsTyped == {busy, cancelled, cancelling, blocked} \subseteq BOOLEAN

LEMMA RestingTyped == Resting \in RunnerRows
BY DEF Resting, RunnerRows, Pcs, NoToken

LEMMA ClaimTyped ==
  ASSUME NEW plan \in Seq(Resources), plan # <<>>, NEW full \in BOOLEAN, NEW p \in Runners
  PROVE  OffPages(p, [Resting EXCEPT !.pc = "claim", !.full = full, !.plan = plan])
<1> DEFINE t == [Resting EXCEPT !.pc = "claim", !.full = full, !.plan = plan]
<1>1. t \in RunnerRows
  BY RestingTyped DEF RunnerRows, Pcs
<1>2. t.pc = "claim" /\ t.plan = plan /\ t.token = NoToken
  BY DEF Resting
<1> HIDE DEF t
<1>3. OffPages(p, t)
  BY <1>1, <1>2 DEF OffPages, Working, Paging
<1> QED
  BY <1>3 DEF t

LEMMA RestsOff ==
  ASSUME NEW p \in Runners
  PROVE  OffPages(p, Resting)
<1>1. Resting.pc = "idle" /\ Resting.token = NoToken
  BY DEF Resting
<1> QED
  BY <1>1, RestingTyped DEF OffPages, Working, Paging

LEMMA TailOfPlan ==
  ASSUME NEW s \in Seq(Resources), s # <<>>, Len(s) # 1
  PROVE  Tail(s) \in Seq(Resources) /\ Tail(s) # <<>>
<1>1. Len(s) \in Nat /\ Len(s) # 0
  OBVIOUS
<1>2. PICK t : t = Tail(s)
  OBVIOUS
<1>3. t \in Seq(Resources) /\ Len(t) = Len(s) - 1
  BY <1>1, <1>2
<1>4. Len(t) # 0
  BY <1>1, <1>3
<1>5. Len(<<>>) = 0
  OBVIOUS
<1> QED
  BY <1>2, <1>3, <1>4, <1>5

(* After a resource a runner takes the next one of its plan or rests.      *)
LEMMA NextResourceOff ==
  ASSUME BiInv, NEW p \in Runners, NEW result, runner[p].pc # "idle",
         Rests(p) \/ NextResource(p, result)
  PROVE  /\ \E t : OffPages(p, t) /\ runner' = [runner EXCEPT ![p] = t]
         /\ FlagsTyped'
<1>1. RunnerTyped(p) /\ {busy, cancelled, cancelling, blocked} \subseteq BOOLEAN
  BY DEF BiInv
<1>2. runner[p].plan \in Seq(Resources) /\ runner[p].plan # <<>> /\ runner[p].full \in BOOLEAN
  BY <1>1, RunnerFields DEF RunnerTyped
<1>3. CASE Rests(p)
  <2>1. FlagsTyped'
    BY <1>1, <1>3 DEF Rests, FlagsTyped
  <2> QED
    BY <1>3, <2>1, RestsOff DEF Rests
<1>4. CASE ~Rests(p)
  <2> DEFINE t == [Resting EXCEPT !.pc = "claim", !.full = runner[p].full,
                                  !.plan = Tail(runner[p].plan)]
  <2>1. /\ Len(runner[p].plan) # 1 /\ UNCHANGED flags
        /\ runner' = [runner EXCEPT ![p] = t]
    BY <1>4 DEF NextResource, Goes
  <2>2. Tail(runner[p].plan) \in Seq(Resources) /\ Tail(runner[p].plan) # <<>>
    BY <1>2, <2>1, TailOfPlan
  <2>3. OffPages(p, t)
    BY <1>2, <2>2, ClaimTyped
  <2>4. FlagsTyped'
    BY <1>1, <2>1 DEF flags, FlagsTyped
  <2> QED
    BY <2>1, <2>3, <2>4
<1> QED
  BY <1>3, <1>4

LEMMA LeavesTyped ==
  ASSUME BiInv, NEW p \in Runners, runner[p].pc \in Working,
         NEW pc \in {"backfill", "finish"}, NEW result \in {"success", "partial"} \cup Failures
  PROVE  OffPages(p, Leaves(p, pc, result))
<1>1. RunnerTyped(p) /\ runner[p] \in RunnerRows
  BY DEF BiInv, RunnerTyped
<1>2. Leaves(p, pc, result) \in RunnerRows
  BY <1>1 DEF Leaves, RunnerRows, Pcs
<1>3. /\ Leaves(p, pc, result).pc = pc
      /\ Leaves(p, pc, result).token = runner[p].token
      /\ Leaves(p, pc, result).plan = runner[p].plan
  BY <1>1 DEF Leaves, RunnerRows
<1>4. runner[p].token # NoToken /\ runner[p].plan # <<>>
  BY <1>1 DEF RunnerTyped, Working, Paging
<1> QED
  BY <1>2, <1>3, <1>4 DEF OffPages, Paging

LEMMA FailsKeeps ==
  ASSUME BiInv, NEW p \in Runners, NEW status \in Failures, runner[p].pc \in Working,
         Fails(p, status)
  PROVE  BiInv'
<1> DEFINE t == [Leaves(p, "finish", status) EXCEPT !.batches = 0]
<1>1. OffPages(p, Leaves(p, "finish", status))
  BY LeavesTyped
<1>2. t \in RunnerRows /\ t.pc = "finish" /\ t.token = Leaves(p, "finish", status).token
      /\ t.plan = Leaves(p, "finish", status).plan
  <2>1. Leaves(p, "finish", status) \in RunnerRows /\ Leaves(p, "finish", status).pc = "finish"
    BY <1>1 DEF OffPages, Leaves, BiInv, RunnerRows
  <2> HIDE DEF Leaves
  <2> QED
    BY <2>1 DEF RunnerRows
<1> HIDE DEF t
<1>3. OffPages(p, t)
  <2>1. Leaves(p, "finish", status).pc = "finish"
    BY DEF Leaves, BiInv, RunnerRows
  <2> QED
    BY <1>1, <1>2, <2>1 DEF OffPages, Working, Paging
<1>4. UNCHANGED <<tables, origin>> /\ runner' = [runner EXCEPT ![p] = t]
      /\ {busy', cancelled', cancelling', blocked'} \subseteq BOOLEAN
  BY DEF Fails, Goes, t, flags, BiInv
<1> QED
  BY <1>3, <1>4, RunnerAlone

LEMMA DetailedRows ==
  ASSUME TablesTyped, NEW rows, NEW some \in SUBSET rows,
         \A y \in some : \E d \in 1..origin[Orders] : Changes[Orders][d] = y.id
  PROVE  \A x \in Detailed(rows, some) \ rows :
           /\ x \in AnyRow /\ x.items = TRUE
           /\ x.version \in 1..origin[Orders] /\ Changes[Orders][x.version] = x.id
           /\ \E y \in some : x.id = y.id
<1> SUFFICES ASSUME NEW x \in Detailed(rows, some) \ rows
    PROVE  /\ x \in AnyRow /\ x.items = TRUE
           /\ x.version \in 1..origin[Orders] /\ Changes[Orders][x.version] = x.id
           /\ \E y \in some : x.id = y.id
  OBVIOUS
<1>1. PICK y \in some : x = Row(y.id, VersionOf(Orders, y.id), TRUE)
  BY DEF Detailed
<1>2. PICK d \in 1..origin[Orders] : Changes[Orders][d] = y.id
  OBVIOUS
<1>3. PICK c : c = VersionOf(Orders, y.id)
  OBVIOUS
<1>4. c \in 1..origin[Orders] /\ Changes[Orders][c] = y.id
  BY <1>2, <1>3, VersionIsCurrent, OrdersIsAResource
<1>5. y.id \in RowsOf(Orders) /\ origin[Orders] \in Nat
  BY <1>2, Occurred, OrdersIsAResource DEF TablesTyped
<1>6. Row(y.id, c, TRUE) \in AnyRow
  BY <1>4, <1>5, OrdersIsAResource DEF AnyRow, Row
<1> QED
  BY <1>1, <1>3, <1>4, <1>6 DEF Row

LEMMA BackfillReadKeeps ==
  ASSUME BiInv, NEW p \in Runners, BackfillRead(p)
  PROVE  BiInv'
<1>0. RunnerTyped(p) /\ runner[p] \in RunnerRows /\ TablesTyped /\ StoredIsReal
  BY DEF BiInv, RunnerTyped
<1>1. UNCHANGED <<tables, origin>> /\ {busy', cancelled', cancelling', blocked'} \subseteq BOOLEAN
  BY DEF BackfillRead, BiInv
<1>2. runner[p].token # NoToken /\ runner[p].plan # <<>> /\ runner[p].pc = "backfill"
  BY <1>0 DEF RunnerTyped, BackfillRead, CanBackfill, At, Working
<1>3. PICK ids \in SUBSET Missing :
        \E some \in SUBSET {Row(id, 0, FALSE) : id \in ids} :
          Goes(p, IF some = {}
                    THEN [runner[p] EXCEPT !.pc = "finish", !.batches = 0]
                    ELSE [runner[p] EXCEPT !.pc = "repair",
                            !.rows = Detailed({Row(id, 0, FALSE) : id \in ids}, some)])
  BY DEF BackfillRead
<1> DEFINE asked == {Row(id, 0, FALSE) : id \in ids}
<1>4. PICK some \in SUBSET asked :
          Goes(p, IF some = {}
                    THEN [runner[p] EXCEPT !.pc = "finish", !.batches = 0]
                    ELSE [runner[p] EXCEPT !.pc = "repair", !.rows = Detailed(asked, some)])
  BY <1>3
<1>5. \A y \in asked : /\ y \in AnyRow /\ y.version = 0
                       /\ y.id \in RowsOf(Orders) \cap Bare
                       /\ \E d \in 1..origin[Orders] : Changes[Orders][d] = y.id
  <2> SUFFICES ASSUME NEW y \in asked, NEW id \in ids, y = Row(id, 0, FALSE)
               PROVE  /\ y \in AnyRow /\ y.version = 0
                      /\ y.id \in RowsOf(Orders) \cap Bare
                      /\ \E d \in 1..origin[Orders] : Changes[Orders][d] = y.id
    OBVIOUS
  <2>1. /\ id \in RowsOf(Orders) /\ stored[Orders][id].version > 0
        /\ ~stored[Orders][id].items
    BY DEF Missing
  <2>2. IsVersion(Orders, id, stored[Orders][id].version) /\ id \in Bare
    BY <1>0, <2>1, OrdersIsAResource DEF StoredIsReal
  <2>3. origin[Orders] \in Nat
    BY <1>0, OrdersIsAResource DEF TablesTyped
  <2>4. \E d \in 1..origin[Orders] : Changes[Orders][d] = id
    BY <2>1, <2>2, <2>3 DEF IsVersion
  <2>5. y \in AnyRow /\ y.version = 0 /\ y.id = id
    BY <2>1, OrdersIsAResource DEF Row, AnyRow
  <2> QED
    BY <2>1, <2>2, <2>4, <2>5
<1>6. \A x \in Detailed(asked, some) :
        x \in AnyRow /\ x.id \in RowsOf(Orders) \cap Bare /\ IsVersion(Orders, x.id, x.version)
  <2> HIDE DEF asked
  <2>1. origin[Orders] \in Nat
    BY <1>0, OrdersIsAResource DEF TablesTyped
  <2>2. \A x \in asked : IsVersion(Orders, x.id, x.version)
    BY <1>5, <2>1 DEF IsVersion
  <2>3. \A x \in Detailed(asked, some) \ asked :
           /\ x \in AnyRow /\ x.items = TRUE
           /\ x.version \in 1..origin[Orders] /\ Changes[Orders][x.version] = x.id
           /\ \E y \in some : x.id = y.id
    <3>1. \A y \in some : \E d \in 1..origin[Orders] : Changes[Orders][d] = y.id
      BY <1>5
    <3> QED
      BY <1>0, <3>1, DetailedRows
  <2> QED
    BY <1>5, <2>1, <2>2, <2>3 DEF IsVersion
<1>7. CASE some = {}
  <2>1. PICK t : t = [runner[p] EXCEPT !.pc = "finish", !.batches = 0]
    OBVIOUS
  <2>2. OffPages(p, t)
    BY <1>0, <1>2, <2>1 DEF OffPages, RunnerRows, Pcs, Working, Paging
  <2> QED
    BY <1>1, <1>4, <1>7, <2>1, <2>2, RunnerAlone DEF Goes
<1>8. CASE some # {}
  <2>1. PICK t : t = [runner[p] EXCEPT !.pc = "repair", !.rows = Detailed(asked, some)]
    OBVIOUS
  <2>2. t \in RunnerRows
    BY <1>0, <1>6, <2>1 DEF RunnerRows, Pcs
  <2>3. t.pc = "repair" /\ t.rows = Detailed(asked, some) /\ t.token = runner[p].token
        /\ t.plan = runner[p].plan
    BY <1>0, <2>1 DEF RunnerRows
  <2>4. OffPages(p, t)
    BY <1>2, <1>6, <2>2, <2>3 DEF OffPages, Working, Paging
  <2> QED
    BY <1>1, <1>4, <1>8, <2>1, <2>4, RunnerAlone DEF Goes
<1> QED
  BY <1>7, <1>8

LEMMA QuietSteps ==
  ASSUME BiInv, NEW p \in Runners,
         \/ \E r \in Resources : Schedule(p, r)
         \/ \E plan \in Plans : RunSync(p, plan)
         \/ ClaimRefused(p) \/ FinishFails(p) \/ BackfillEnds(p)
         \/ PersistFails(p) \/ BackfillFails(p) \/ RequestFails(p)
  PROVE  BiInv'
<1>0. RunnerTyped(p) /\ runner[p] \in RunnerRows /\ FlagsTyped
  BY DEF BiInv, RunnerTyped, FlagsTyped
<1>1. ASSUME NEW r \in Resources, Schedule(p, r) PROVE BiInv'
  <2>1. <<r>> \in Seq(Resources) /\ <<r>> # <<>>
    OBVIOUS
  <2>2. PICK t : t = [Resting EXCEPT !.pc = "claim", !.plan = <<r>>]
    OBVIOUS
  <2>3. OffPages(p, t)
    <3>1. t \in RunnerRows
      BY <2>1, <2>2, RestingTyped DEF RunnerRows, Pcs
    <3>2. t.pc = "claim" /\ t.plan = <<r>> /\ t.token = NoToken
      BY <2>2 DEF Resting
    <3> QED
      BY <2>1, <3>1, <3>2 DEF OffPages, Working, Paging
  <2> QED
    BY <1>0, <1>1, <2>2, <2>3, RunnerAlone DEF Schedule, Goes, flags, FlagsTyped
<1>2. ASSUME NEW plan \in Plans, RunSync(p, plan) PROVE BiInv'
  <2>1. PICK t : t = [Resting EXCEPT !.pc = "claim", !.full = plan.full,
                                     !.plan = plan.resources]
    OBVIOUS
  <2>2. t = [Resting EXCEPT !.pc = "claim", !.plan = plan.resources, !.full = plan.full]
    BY <2>1 DEF Resting
  <2>3. OffPages(p, t)
    BY <2>1, ClaimTyped, PlansTyped
  <2> QED
    BY <1>0, <1>2, <2>2, <2>3, RunnerAlone DEF RunSync, Goes, FlagsTyped
<1>3. ASSUME UNCHANGED <<tables, origin>>, runner[p].pc # "idle",
             Rests(p) \/ \E result : NextResource(p, result)
      PROVE  BiInv'
  <2>1. FlagsTyped' /\ \E t : OffPages(p, t) /\ runner' = [runner EXCEPT ![p] = t]
    BY <1>3, NextResourceOff
  <2> QED
    BY <1>3, <2>1, RunnerAlone DEF FlagsTyped
<1>4. CASE ClaimRefused(p)
  BY <1>3, <1>4 DEF ClaimRefused, At
<1>5. CASE FinishFails(p)
  <2>1. runner[p].pc = "finish" /\ UNCHANGED <<tables, origin>>
    BY <1>5 DEF FinishFails, At
  <2>2. CASE Rests(p)
    BY <1>3, <2>1, <2>2
  <2>3. CASE ~Rests(p)
    <3>1. PICK t : t = [runner[p] EXCEPT !.result = "error"]
      OBVIOUS
    <3>2. OffPages(p, t)
      BY <1>0, <2>1, <3>1 DEF OffPages, RunnerTyped, RunnerRows, Failures, Working, Paging
    <3> QED
      BY <1>0, <1>5, <2>1, <2>3, <3>1, <3>2, RunnerAlone DEF FinishFails, Goes, flags, FlagsTyped
  <2> QED
    BY <2>2, <2>3
<1>6. CASE BackfillEnds(p)
  <2>1. PICK t : t = [runner[p] EXCEPT !.pc = "finish", !.batches = 0]
    OBVIOUS
  <2>2. OffPages(p, t)
    BY <1>0, <1>6, <2>1
       DEF BackfillEnds, At, OffPages, RunnerTyped, RunnerRows, Pcs, Working, Paging
  <2> QED
    BY <1>0, <1>6, <2>1, <2>2, RunnerAlone DEF BackfillEnds, Goes, flags, FlagsTyped
<1>7. CASE PersistFails(p) \/ BackfillFails(p) \/ RequestFails(p)
  <2>1. runner[p].pc \in Working /\ \E status \in Failures : Fails(p, status)
    BY <1>7 DEF PersistFails, BackfillFails, RequestFails, At, CanBackfill, Working, Paging,
                Failures
  <2> QED
    BY <2>1, FailsKeeps
<1> QED
  BY <1>1, <1>2, <1>4, <1>5, <1>6, <1>7

-----------------------------------------------------------------------------
(* The origin moves on, heartbeats age, leases come and go                 *)

LEMMA EditKeeps ==
  ASSUME BiInv, NEW e \in Resources, Edit(e)
  PROVE  BiInv'
<1>0. TablesTyped /\ StoredIsReal
  BY DEF BiInv
<1>1. UNCHANGED <<state, open, stored, runner, flags>>
      /\ origin' = [origin EXCEPT ![e] = origin[e] + 1] /\ origin[e] < Len(Changes[e])
  BY DEF Edit, tables
<1>2. \A r \in Resources : /\ origin[r] \in Nat /\ origin'[r] \in Nat /\ origin'[r] >= origin[r]
                           /\ origin'[r] <= Len(Changes[r])
  BY <1>0, <1>1, OriginTyped DEF TablesTyped
<1>3. ASSUME NEW r \in Resources, NEW c \in Current(r)', c <= origin[r]
      PROVE  c \in Current(r)
  BY <1>2, <1>3 DEF Current
<1>4. TablesTyped'
  <2>1. origin' \in [Resources -> Nat]
    BY <1>0, <1>1 DEF TablesTyped
  <2>2. \A r \in Resources : state[r].cursor \in Nat /\ state[r].cursor <= origin'[r]
    BY <1>0, <1>2 DEF TablesTyped, StateRows
  <2> QED
    BY <1>0, <1>1, <1>2, <2>1, <2>2 DEF TablesTyped
<1>5. \A r \in Resources : \A id, v : IsVersion(r, id, v) => IsVersion(r, id, v)'
  BY <1>2 DEF IsVersion
<1>6. StoredIsReal'
  <2>1. \A r \in Resources : \A id \in RowsOf(r) :
           IsVersion(r, id, stored[r][id].version) => IsVersion(r, id, stored[r][id].version)'
    BY <1>1, <1>2 DEF IsVersion
  <2> QED
    BY <1>0, <1>1, <2>1 DEF StoredIsReal
<1>7. CursorIsBacked'
  <2>1. ASSUME NEW r \in Resources, NEW c \in 1..state[r].cursor, c \in Current(r)'
        PROVE  c \in Current(r)
    <3>1. state[r].cursor \in Nat /\ state[r].cursor <= origin[r]
      BY <1>0 DEF TablesTyped, StateRows
    <3> QED
      BY <1>2, <1>3, <2>1, <3>1
  <2> QED
    BY <1>1, <2>1 DEF BiInv, CursorIsBacked, Shows
<1>8. ASSUME NEW q \in Runners PROVE RunnerIsGood(q)'
  <2>0. RunnerTyped(q) /\ RowsAreReal(q) /\ HolderIsCurrent(q) /\ runner[q] \in RunnerRows
    BY DEF BiInv, RunnerTyped
  <2>1. RunnerTyped(q)'
    <3>1. ASSUME runner[q].pc \in Paging PROVE runner[q].cursor <= origin'[ResourceOf(q)]
      <4>1. PICK r \in Resources : r = ResourceOf(q)
        BY <2>0, <3>1, PlanHasHead DEF Paging
      <4>2. runner[q].cursor \in Nat /\ runner[q].cursor <= origin[r]
        BY <2>0, <3>1, <4>1, RunnerFields DEF RunnerTyped
      <4>3. runner[q].cursor <= origin'[r]
        BY <1>2, <4>2
      <4> QED
        BY <4>1, <4>3
    <3> QED
      BY <1>1, <2>0, <3>1 DEF RunnerTyped, ResourceOf
  <2>2. RowsAreReal(q)'
    <3>1. ASSUME runner[q].pc \in InHand, NEW row \in runner[q].rows
          PROVE  IsVersion(ResourceOf(q), row.id, row.version)'
      <4>1. PICK r \in Resources : r = ResourceOf(q)
        BY <2>0, <3>1, PlanHasHead DEF InHand
      <4>2. IsVersion(r, row.id, row.version)
        BY <2>0, <3>1, <4>1 DEF RowsAreReal
      <4>3. IsVersion(r, row.id, row.version)'
        BY <1>5, <4>2
      <4>4. ResourceOf(q)' = r
        BY <1>1, <4>1 DEF ResourceOf
      <4> QED
        BY <4>3, <4>4 DEF IsVersion
    <3>2. ASSUME runner[q].pc = "repair", NEW row \in runner[q].rows
          PROVE  IsVersion(Orders, row.id, row.version)'
      BY <1>5, <2>0, <3>2, OrdersIsAResource DEF RowsAreReal
    <3> QED
      BY <1>1, <2>0, <3>1, <3>2 DEF RowsAreReal, ResourceOf
  <2>3. HolderIsCurrent(q)'
    <3> SUFFICES ASSUME runner[q].pc \in Paging, HasLease(q) PROVE HolderIsCurrent(q)'
      BY <1>1 DEF HolderIsCurrent, HasLease, ResourceOf
    <3>1. PICK r \in Resources : r = ResourceOf(q)
      BY <2>0, PlanHasHead DEF Paging
    <3>2. runner[q].cursor \in Nat /\ runner[q].cursor <= origin[r]
      BY <2>0, <3>1, RunnerFields DEF RunnerTyped
    <3>3. ASSUME NEW c \in Current(r)', c <= runner[q].cursor PROVE c \in Current(r)
      <4>1. c \in Int
        BY <1>2 DEF Current
      <4>2. c <= origin[r]
        BY <1>2, <3>2, <3>3, <4>1
      <4> QED
        BY <1>3, <4>2
    <3>4. ResourceOf(q)' = r
      BY <1>1, <3>1 DEF ResourceOf
    <3>5. ASSUME NEW c \in Current(r)', c <= runner[q].cursor, Changes[r][c] \notin Bare
          PROVE  \/ stored[r][Changes[r][c]].version = c
                 \/ /\ runner[q].pc \in InHand
                    /\ \E row \in runner[q].rows : row.id = Changes[r][c] /\ row.version = c
      BY <2>0, <3>1, <3>3, <3>5 DEF HolderIsCurrent, ReadOrStored
    <3>6. runner[q].pc \in InHand =>
            \A row \in runner[q].rows :
             row.id \notin Bare =>
               /\ row.version >= stored[r][row.id].version
               /\ \A other \in runner[q].rows :
                    other.id = row.id => other.version = row.version
      BY <2>0, <3>1 DEF HolderIsCurrent
    <3> QED
      BY <1>1, <3>4, <3>5, <3>6 DEF HolderIsCurrent, ReadOrStored
  <2> QED
    BY <2>1, <2>2, <2>3 DEF RunnerIsGood
<1>9. LeasesHaveTokens' /\ OwnTokens' /\ RunsFollowLeases'
      /\ runner' \in [Runners -> RunnerRows]
      /\ {busy', cancelled', cancelling', blocked'} \subseteq BOOLEAN
  BY <1>1 DEF BiInv, LeasesHaveTokens, OwnTokens, RunsFollowLeases, flags
<1> QED
  BY <1>4, <1>6, <1>7, <1>8, <1>9 DEF BiInv, RunnerIsGood

(* A step that only changes who holds what.                                *)
LEMMA CursorsAlone ==
  ASSUME BiInv, UNCHANGED <<stored, origin>>, state' \in [Resources -> StateRows],
         \A r \in Resources : state'[r].cursor = state[r].cursor
  PROVE  TablesTyped' /\ StoredIsReal' /\ CursorIsBacked'
<1>1. \A r \in Resources : Current(r)' = Current(r)
  BY DEF Current
<1>2. CursorIsBacked'
  BY <1>1 DEF BiInv, CursorIsBacked, Shows
<1>3. TablesTyped'
  BY DEF BiInv, TablesTyped
<1>4. StoredIsReal'
  BY DEF BiInv, StoredIsReal, IsVersion
<1> QED
  BY <1>2, <1>3, <1>4

LEMMA AgesKeeps ==
  ASSUME BiInv, NEW a \in Resources, HeartbeatAges(a)
  PROVE  BiInv'
<1>0. state \in [Resources -> StateRows]
  BY DEF BiInv, TablesTyped
<1>1. UNCHANGED <<open, stored, origin, runner, flags>>
      /\ state' = [state EXCEPT ![a].fresh = FALSE]
  BY DEF HeartbeatAges
<1>2. state' \in [Resources -> StateRows]
      /\ \A r \in Resources : /\ state'[r].cursor = state[r].cursor
                              /\ state'[r].token = state[r].token
                              /\ state'[r].running = state[r].running
  BY <1>0, <1>1 DEF StateRows
<1>3. ASSUME NEW q \in Runners PROVE RunnerIsGood(q)'
  <2>1. KeepsPages(q)
    BY <1>1, <1>2 DEF KeepsPages
  <2> QED
    BY <1>1, <2>1, OtherStays
<1>4. TablesTyped' /\ StoredIsReal' /\ CursorIsBacked'
  BY <1>1, <1>2, CursorsAlone
<1>5. LeasesHaveTokens'
  BY <1>2 DEF BiInv, LeasesHaveTokens
<1>6. RunsFollowLeases'
  BY <1>1, <1>2 DEF BiInv, RunsFollowLeases
<1>7. OwnTokens' /\ runner' \in [Runners -> RunnerRows]
      /\ {busy', cancelled', cancelling', blocked'} \subseteq BOOLEAN
  BY <1>1 DEF BiInv, OwnTokens, flags
<1> QED
  BY <1>3, <1>4, <1>5, <1>6, <1>7 DEF BiInv, RunnerIsGood

(* After an interruption nobody holds anything.                            *)
LEMMA InterruptedTables ==
  ASSUME BiInv, InterruptRunningSyncs
  PROVE  /\ state' \in [Resources -> StateRows]
         /\ \A r \in Resources : /\ state'[r].cursor = state[r].cursor
                                 /\ state'[r].token = NoToken
                                 /\ state'[r].running = FALSE
         /\ LeasesHaveTokens' /\ RunsFollowLeases'
<1>0. state \in [Resources -> StateRows]
  BY DEF BiInv, TablesTyped
<1>1. ASSUME NEW r \in Resources
      PROVE  /\ state'[r] \in StateRows /\ state'[r].cursor = state[r].cursor
             /\ state'[r].token = NoToken /\ state'[r].running = FALSE
  <2>1. state[r] \in StateRows /\ (state[r].running <=> state[r].token # NoToken)
    BY <1>0 DEF BiInv, LeasesHaveTokens
  <2>2. state'[r] = IF state[r].running THEN Released(state[r]) ELSE state[r]
    BY DEF InterruptRunningSyncs, Interrupted
  <2>3. CASE state[r].running
    BY <2>1, <2>2, <2>3 DEF Released, StateRows
  <2>4. CASE ~state[r].running
    <3>1. state[r].running = FALSE
      BY <2>1, <2>4 DEF StateRows
    <3> QED
      BY <2>1, <2>2, <2>4, <3>1
  <2> QED
    BY <2>3, <2>4
<1>2. state' = [r \in Resources |-> state'[r]]
  BY DEF InterruptRunningSyncs
<1>3. state' \in [Resources -> StateRows]
  BY <1>1, <1>2
<1>4. LeasesHaveTokens'
  BY <1>1 DEF LeasesHaveTokens
<1>5. RunsFollowLeases'
  BY <1>1 DEF RunsFollowLeases, InterruptRunningSyncs
<1> QED
  BY <1>1, <1>3, <1>4, <1>5

LEMMA CancelKeeps ==
  ASSUME BiInv, CancelSync
  PROVE  BiInv'
<1>1. UNCHANGED <<stored, origin, runner, busy, cancelled, blocked>> /\ cancelling' = FALSE
      /\ InterruptRunningSyncs
  BY DEF CancelSync, InterruptRunningSyncs
<1>2. ASSUME NEW q \in Runners PROVE RunnerIsGood(q)'
  <2>1. runner[q].pc \in Paging => runner[q].token # NoToken
    BY DEF BiInv, RunnerTyped, Working
  <2>2. KeepsPages(q)
    BY <1>1, <2>1, InterruptedTables DEF KeepsPages
  <2> QED
    BY <1>1, <2>2, OtherStays
<1>3. TablesTyped' /\ StoredIsReal' /\ CursorIsBacked'
  BY <1>1, InterruptedTables, CursorsAlone
<1>4. OwnTokens' /\ runner' \in [Runners -> RunnerRows]
      /\ {busy', cancelled', cancelling', blocked'} \subseteq BOOLEAN
  BY <1>1 DEF BiInv, OwnTokens
<1> QED
  BY <1>1, <1>2, <1>3, <1>4, InterruptedTables DEF BiInv, RunnerIsGood

LEMMA RestartKeeps ==
  ASSUME BiInv, Restart
  PROVE  BiInv'
<1>1. UNCHANGED <<stored, origin>> /\ InterruptRunningSyncs
      /\ runner' = [p \in Runners |-> Resting]
  BY DEF Restart, InterruptRunningSyncs
<1>2. Resting.pc = "idle" /\ Resting.token = NoToken
  BY DEF Resting
<1>3. ASSUME NEW q \in Runners PROVE RunnerIsGood(q)'
  <2>1. runner'[q] = Resting
    BY <1>1
  <2> QED
    BY <1>2, <2>1, RestingTyped
       DEF RunnerIsGood, RunnerTyped, RowsAreReal, HolderIsCurrent, Working, Paging, InHand
<1>4. TablesTyped' /\ StoredIsReal' /\ CursorIsBacked'
  BY <1>1, InterruptedTables, CursorsAlone
<1>5. OwnTokens' /\ runner' \in [Runners -> RunnerRows]
  BY <1>1, <1>2, RestingTyped DEF OwnTokens
<1>6. {busy', cancelled', cancelling', blocked'} \subseteq BOOLEAN
  BY DEF Restart
<1> QED
  BY <1>1, <1>3, <1>4, <1>5, <1>6, InterruptedTables DEF BiInv, RunnerIsGood

LEMMA RequestCancelKeeps ==
  ASSUME BiInv, RequestCancel
  PROVE  BiInv'
<1>1. UNCHANGED <<tables, origin, runner, blocked>>
      /\ cancelling' = TRUE /\ cancelled' = TRUE /\ busy' = FALSE
  BY DEF RequestCancel
<1>2. ASSUME NEW q \in Runners PROVE RunnerIsGood(q)'
  <2>1. KeepsPages(q)
    BY <1>1 DEF KeepsPages, tables
  <2> QED
    BY <1>1, <2>1, OtherStays
<1>3. OwnTokens' /\ runner' \in [Runners -> RunnerRows]
      /\ {busy', cancelled', cancelling', blocked'} \subseteq BOOLEAN
  BY <1>1 DEF BiInv, OwnTokens
<1> QED
  BY <1>1, <1>2, <1>3, TablesAlone DEF BiInv, RunnerIsGood

LEMMA FinishKeeps ==
  ASSUME BiInv, NEW p \in Runners, FinishSync(p)
  PROVE  BiInv'
<1>0. RunnerTyped(p) /\ state \in [Resources -> StateRows] /\ runner[p].pc = "finish"
  BY DEF BiInv, TablesTyped, FinishSync, At
<1>1. PICK r \in Resources : r = ResourceOf(p)
  BY <1>0, PlanHasHead
<1>2. /\ state' = IF state[r].token = runner[p].token
                    THEN [state EXCEPT ![r] = Released(state[r])] ELSE state
      /\ open' = open \ {<<runner[p].token, r>>}
      /\ UNCHANGED <<stored, origin>>
  BY <1>1 DEF FinishSync, HasLease
<1>3. FlagsTyped' /\ \E t : OffPages(p, t) /\ runner' = [runner EXCEPT ![p] = t]
  BY <1>0, NextResourceOff DEF FinishSync
<1>4. PICK t : OffPages(p, t) /\ runner' = [runner EXCEPT ![p] = t]
  BY <1>3
<1>5. runner[p].token # NoToken
  BY <1>0 DEF RunnerTyped, Working
<1>6. /\ state' \in [Resources -> StateRows]
      /\ \A q \in Resources :
           /\ state'[q].cursor = state[q].cursor
           /\ \/ state'[q].token = state[q].token /\ state'[q].running = state[q].running
              \/ /\ q = r /\ state[r].token = runner[p].token
                 /\ state'[q].token = NoToken /\ state'[q].running = FALSE
           /\ q = r => state'[q].token # runner[p].token
  <2>1. CASE state[r].token = runner[p].token
    <3>1. Released(state[r]) \in StateRows /\ Released(state[r]).cursor = state[r].cursor
          /\ Released(state[r]).token = NoToken /\ Released(state[r]).running = FALSE
      BY <1>0 DEF Released, StateRows
    <3> QED
      BY <1>0, <1>2, <1>5, <2>1, <3>1
  <2>2. CASE state[r].token # runner[p].token
    BY <1>0, <1>2, <2>2
  <2> QED
    BY <2>1, <2>2
<1>7. ASSUME NEW q \in Runners PROVE RunnerIsGood(q)'
  <2>1. CASE q = p
    BY <1>2, <1>4, <2>1, OffPagesIsGood
  <2>2. CASE q # p
    <3>1. UNCHANGED runner[q]
      BY <1>4, <2>2 DEF BiInv
    <3>2. runner[q].pc \in Paging => runner[q].token # NoToken
      BY DEF BiInv, RunnerTyped, Working
    <3>3. KeepsPages(q)
      BY <1>2, <1>6, <3>2 DEF KeepsPages
    <3> QED
      BY <1>2, <3>1, <3>3, OtherStays
  <2> QED
    BY <2>1, <2>2
<1>8. TablesTyped' /\ StoredIsReal' /\ CursorIsBacked'
  BY <1>2, <1>6, CursorsAlone
<1>9. LeasesHaveTokens'
  BY <1>6 DEF BiInv, LeasesHaveTokens
<1>10. RunsFollowLeases'
  <2>1. open = {<<state[q].token, q>> : q \in {q \in Resources : state[q].running}}
    BY DEF BiInv, RunsFollowLeases
  <2>2. \A q \in Resources : state[q].running <=> state[q].token # NoToken
    BY DEF BiInv, LeasesHaveTokens
  <2>3. \A q \in Resources : state'[q].running <=> state[q].running /\ <<state[q].token, q>> # <<runner[p].token, r>>
    BY <1>2, <1>5, <1>6, <2>2
  <2>4. \A q \in Resources : state'[q].running => state'[q].token = state[q].token
    BY <1>6
  <2>5. open' = {<<state'[q].token, q>> : q \in {q \in Resources : state'[q].running}}
    BY <1>2, <2>1, <2>3, <2>4
  <2> QED
    BY <2>5 DEF RunsFollowLeases
<1>11. OwnTokens' /\ runner' \in [Runners -> RunnerRows]
  BY <1>4, TokensKept DEF BiInv, OffPages
<1> QED
  BY <1>3, <1>7, <1>8, <1>9, <1>10, <1>11 DEF BiInv, RunnerIsGood, FlagsTyped

LEMMA ClaimKeeps ==
  ASSUME BiInv, NEW p \in Runners, ClaimSync(p)
  PROVE  BiInv'
<1>0. /\ RunnerTyped(p) /\ runner[p] \in RunnerRows /\ runner[p].pc = "claim"
      /\ state \in [Resources -> StateRows] /\ runner \in [Runners -> RunnerRows]
  BY DEF BiInv, RunnerTyped, TablesTyped, ClaimSync, At
<1>1. PICK r \in Resources : r = ResourceOf(p)
  BY <1>0, PlanHasHead
<1>2. PICK k : k = NewToken
  OBVIOUS
<1>3. /\ k \in Tokens /\ k # NoToken
      /\ \A q \in Resources : state[q].token # k
      /\ \A q \in Runners : runner[q].token # k
  BY <1>2, NewTokenIsUnused
<1>4. PICK x : x = IF runner[p].full THEN 0 ELSE state[r].cursor
  OBVIOUS
<1>5. /\ state' = [state EXCEPT ![r].running = TRUE, ![r].token = k, ![r].fresh = TRUE]
      /\ open' = (open \ StaleRuns(r)) \cup {<<k, r>>}
      /\ runner' = [runner EXCEPT ![p] =
                      [runner[p] EXCEPT !.pc = "list", !.token = k, !.cursor = x]]
      /\ UNCHANGED <<stored, origin, flags>>
  BY <1>1, <1>2, <1>4 DEF ClaimSync, Goes
<1>6. /\ state[r].cursor \in Nat /\ x \in Nat /\ x <= state[r].cursor
      /\ x <= origin[r] /\ origin[r] \in Nat
  <2>1. state[r].cursor \in Nat /\ state[r].cursor <= origin[r] /\ origin[r] \in Nat
    BY <1>0 DEF BiInv, TablesTyped, StateRows
  <2> QED
    BY <1>4, <2>1
<1>7. /\ state' \in [Resources -> StateRows]
      /\ \A q \in Resources :
           /\ state'[q].cursor = state[q].cursor
           /\ q # r => state'[q] = state[q]
      /\ state'[r].token = k /\ state'[r].running = TRUE
  <2>1. PICK row : row = [state[r] EXCEPT !.running = TRUE, !.token = k, !.fresh = TRUE]
    OBVIOUS
  <2>2. row \in StateRows /\ row.cursor = state[r].cursor /\ row.token = k /\ row.running = TRUE
    BY <1>0, <1>3, <2>1 DEF StateRows
  <2>3. state' = [state EXCEPT ![r] = row]
    BY <1>0, <1>5, <2>1 DEF StateRows
  <2> QED
    BY <1>0, <2>2, <2>3
<1>8. PICK t : t = [runner[p] EXCEPT !.pc = "list", !.token = k, !.cursor = x]
  OBVIOUS
<1>9. /\ t \in RunnerRows /\ t.pc = "list" /\ t.token = k /\ t.cursor = x
      /\ t.plan = runner[p].plan
  BY <1>0, <1>3, <1>6, <1>8 DEF RunnerRows, Pcs
<1>10. runner' = [runner EXCEPT ![p] = t] /\ runner'[p] = t /\ runner' \in [Runners -> RunnerRows]
  BY <1>0, <1>5, <1>8, <1>9
<1>11. ResourceOf(p)' = r
  BY <1>1, <1>9, <1>10 DEF ResourceOf
<1>12. TablesTyped' /\ StoredIsReal' /\ CursorIsBacked'
  BY <1>5, <1>7, CursorsAlone
<1>13. ASSUME NEW q \in Runners PROVE RunnerIsGood(q)'
  <2>1. CASE q = p
    <3>1. RunnerTyped(p)'
      BY <1>0, <1>3, <1>5, <1>6, <1>9, <1>10, <1>11 DEF RunnerTyped
    <3>2. RowsAreReal(p)'
      BY <1>9, <1>10 DEF RowsAreReal, InHand
    <3>3. HolderIsCurrent(p)'
      <4>1. ASSUME NEW c \in Current(r)', c <= x, Changes[r][c] \notin Bare
            PROVE  stored'[r][Changes[r][c]].version = c
        <5>1. c \in Current(r) /\ c \in 1..origin[r] /\ Changes[r][c] \in RowsOf(r)
          BY <1>5, <4>1, Occurred DEF Current, BiInv
        <5>2. c \in 1..state[r].cursor
          BY <1>6, <4>1, <5>1
        <5> QED
          BY <1>5, <4>1, <5>1, <5>2 DEF BiInv, CursorIsBacked, Shows
      <4>2. runner'[p].pc \notin InHand /\ runner'[p].cursor = x
        BY <1>9, <1>10 DEF InHand
      <4> QED
        BY <1>11, <4>1, <4>2 DEF HolderIsCurrent, ReadOrStored
    <3> QED
      BY <2>1, <3>1, <3>2, <3>3 DEF RunnerIsGood
  <2>2. CASE q # p
    <3>1. UNCHANGED runner[q]
      BY <1>0, <1>10, <2>2
    <3>2. KeepsPages(q)
      BY <1>3, <1>5, <1>7 DEF KeepsPages
    <3> QED
      BY <1>5, <3>1, <3>2, OtherStays
  <2> QED
    BY <2>1, <2>2
<1>14. LeasesHaveTokens'
  BY <1>3, <1>7 DEF BiInv, LeasesHaveTokens
<1>15. RunsFollowLeases'
  <2>1. open = {<<state[q].token, q>> : q \in {q \in Resources : state[q].running}}
    BY DEF BiInv, RunsFollowLeases
  <2>2. open \ StaleRuns(r) =
          {<<state[q].token, q>> : q \in {q \in Resources \ {r} : state[q].running}}
    BY <2>1 DEF StaleRuns
  <2>3. open' = {<<state'[q].token, q>> : q \in {q \in Resources : state'[q].running}}
    BY <1>5, <1>7, <2>2
  <2> QED
    BY <2>3 DEF RunsFollowLeases
<1>16. OwnTokens'
  BY <1>0, <1>3, <1>9, <1>10 DEF BiInv, OwnTokens
<1>17. {busy', cancelled', cancelling', blocked'} \subseteq BOOLEAN
  BY <1>5 DEF BiInv, flags
<1> QED
  BY <1>10, <1>12, <1>13, <1>14, <1>15, <1>16, <1>17 DEF BiInv, RunnerIsGood

-----------------------------------------------------------------------------
(* Pages                                                                   *)

(* A runner goes on with its lease; the tables stay.                       *)
LEMMA HolderAlone ==
  ASSUME BiInv, NEW p \in Runners, NEW t \in RunnerRows, UNCHANGED <<tables, origin>>,
         runner' = [runner EXCEPT ![p] = t], t.token = runner[p].token,
         RunnerIsGood(p)', {busy', cancelled', cancelling', blocked'} \subseteq BOOLEAN
  PROVE  BiInv'
<1>0. runner \in [Runners -> RunnerRows]
  BY DEF BiInv
<1>1. UNCHANGED <<state, stored, origin>>
  BY DEF tables
<1>2. ASSUME NEW q \in Runners PROVE RunnerIsGood(q)'
  <2>1. CASE q # p
    <3>1. UNCHANGED runner[q] /\ KeepsPages(q)
      BY <1>0, <1>1, <2>1 DEF KeepsPages
    <3> QED
      BY <1>1, <3>1, OtherStays
  <2> QED
    BY <2>1
<1>3. runner' \in [Runners -> RunnerRows] /\ \A q \in Runners : runner'[q].token = runner[q].token
  BY <1>0
<1>4. OwnTokens'
  BY <1>3 DEF BiInv, OwnTokens
<1> QED
  BY <1>2, <1>3, <1>4, TablesAlone DEF BiInv, RunnerIsGood

LEMMA ListKeeps ==
  ASSUME BiInv, NEW p \in Runners, ListPage(p)
  PROVE  BiInv'
<1>0. /\ RunnerTyped(p) /\ runner[p] \in RunnerRows /\ runner[p].pc = "list"
      /\ TablesTyped /\ StoredIsReal /\ HolderIsCurrent(p)
  BY DEF BiInv, RunnerTyped, ListPage, At
<1>1. PICK r \in Resources : r = ResourceOf(p)
  BY <1>0, PlanHasHead
<1>2. PICK x \in Nat : x = runner[p].cursor
  BY <1>0, RunnerFields
<1>3. PICK page : page = PageAfter(r, x)
  OBVIOUS
<1>4. PICK rows : rows = {ToRow(r, c) : c \in page}
  OBVIOUS
<1>5. /\ page \subseteq Current(r)
      /\ page # {} => /\ LastOf(page) \in page
                      /\ \A c \in Current(r) : c > x /\ c <= LastOf(page) => c \in page
  BY <1>0, <1>3, PageIsNext
<1>6. UNCHANGED <<tables, origin>> /\ {busy', cancelled', cancelling', blocked'} \subseteq BOOLEAN
  BY DEF ListPage, BiInv, flags
<1>7. CASE page = {}
  <2>1. Goes(p, Leaves(p, AfterPages(r), "success"))
    BY <1>1, <1>2, <1>3, <1>7 DEF ListPage
  <2>2. OffPages(p, Leaves(p, AfterPages(r), "success"))
    BY <1>0, LeavesTyped DEF AfterPages, Working, Paging
  <2> QED
    BY <1>6, <2>1, <2>2, RunnerAlone DEF Goes
<1>8. CASE page # {}
  <2>1. PICK pc : pc = IF NeedsDetails(r, rows) THEN "hydrate" ELSE "persist"
    OBVIOUS
  <2>2. PICK l : l = LastOf(page)
    OBVIOUS
  <2>3. PICK more \in BOOLEAN : more = (Cardinality(page) = PageSize)
    OBVIOUS
  <2>4. PICK t : t = [runner[p] EXCEPT !.pc = pc, !.rows = rows, !.cursor = l, !.more = more]
    OBVIOUS
  <2>5. runner' = [runner EXCEPT ![p] = t]
    <3>1. PageAfter(ResourceOf(p), runner[p].cursor) = page
      BY <1>1, <1>2, <1>3
    <3>2. {ToRow(ResourceOf(p), c) : c \in PageAfter(ResourceOf(p), runner[p].cursor)} = rows
      BY <1>1, <1>4, <3>1
    <3>3. Goes(p, [runner[p] EXCEPT
                     !.pc = IF NeedsDetails(r, rows) THEN "hydrate" ELSE "persist",
                     !.rows = rows, !.cursor = LastOf(page),
                     !.more = (Cardinality(page) = PageSize)])
      BY <1>1, <1>8, <3>1, <3>2, Zenon DEF ListPage
    <3> QED
      BY <2>1, <2>2, <2>3, <2>4, <3>3, Zenon DEF Goes
  <2>6. origin[r] \in Nat /\ l \in page /\ page \subseteq 1..origin[r] /\ l \in Nat
        /\ \A c \in page : c \in Int
    BY <1>0, <1>5, <1>8, <2>2 DEF TablesTyped, Current
  <2>7. \A c \in page : /\ Changes[r][c] \in RowsOf(r)
                        /\ ToRow(r, c) \in AnyRow
                        /\ ToRow(r, c).id = Changes[r][c] /\ ToRow(r, c).version = c
                        /\ Changes[r][c] \notin Bare => ToRow(r, c).items
    <3>1. ASSUME NEW c \in page PROVE c \in Nat /\ Changes[r][c] \in RowsOf(r)
      BY <1>0, <2>6, Occurred
    <3> QED
      BY <3>1 DEF ToRow, Row, AnyRow
  <2>8. t \in RunnerRows /\ t.pc = pc /\ t.rows = rows /\ t.cursor = l
        /\ t.token = runner[p].token /\ t.plan = runner[p].plan
    <3>1. rows \subseteq AnyRow /\ pc \in Pcs
      BY <1>4, <2>1, <2>7 DEF Pcs
    <3> QED
      BY <1>0, <2>4, <2>6, <3>1 DEF RunnerRows
  <2>9. runner'[p] = t
    BY <2>5 DEF BiInv
  <2>10. ResourceOf(p)' = r /\ ResourceOf(p) = r
    BY <1>1, <2>8, <2>9 DEF ResourceOf
  <2>11. pc \in InHand /\ (pc = "hydrate" => r = Orders)
    BY <2>1 DEF InHand, NeedsDetails
  <2>12. \A row \in rows : row.version \in page /\ row.id = Changes[r][row.version]
    BY <1>4, <2>7
  <2>13. RunnerTyped(p)'
    <3>1. l <= origin[r]
      BY <2>6
    <3>2. runner[p].token # NoToken /\ runner[p].plan # <<>>
      BY <1>0 DEF RunnerTyped, Working, Paging
    <3> QED
      BY <1>6, <2>8, <2>9, <2>10, <3>1, <3>2 DEF RunnerTyped
  <2>14. RowsAreReal(p)'
    <3>1. \A row \in rows : row.id \in RowsOf(r) /\ row.version > 0 /\ IsVersion(r, row.id, row.version)
                            /\ (row.id \notin Bare => row.items)
      BY <1>4, <2>6, <2>7 DEF IsVersion
    <3> QED
      BY <1>6, <2>8, <2>9, <2>10, <2>11, <3>1 DEF RowsAreReal, IsVersion, InHand
  <2>15. HolderIsCurrent(p)'
    <3> SUFFICES ASSUME HasLease(p) PROVE HolderIsCurrent(p)'
      BY <1>6, <2>8, <2>9, <2>10 DEF HolderIsCurrent, HasLease, tables
    <3>1. ASSUME NEW c \in Current(r), c <= l, Changes[r][c] \notin Bare
          PROVE  \/ stored[r][Changes[r][c]].version = c
                 \/ \E row \in rows : row.id = Changes[r][c] /\ row.version = c
      <4>1. CASE c <= x
        BY <1>0, <1>2, <2>10, <3>1, <4>1 DEF HolderIsCurrent, ReadOrStored, Paging, InHand
      <4>2. CASE c > x
        BY <1>4, <1>5, <1>8, <2>2, <2>7, <3>1, <4>2
      <4>3. c \in Int
        BY <1>0, <2>6, Occurred
      <4> QED
        BY <4>1, <4>2, <4>3
    <3>2. ASSUME NEW row \in rows PROVE row.version >= stored[r][row.id].version
      <4>1. PICK c \in page : row.version = c /\ row.id = Changes[r][c]
        BY <2>12
      <4>2. PICK v : v = stored[r][row.id].version
        OBVIOUS
      <4>3. v \in 0..origin[r] /\ (v > 0 => Changes[r][v] = Changes[r][c])
        BY <1>0, <2>7, <4>1, <4>2 DEF StoredIsReal, IsVersion
      <4>4. \A d \in 1..origin[r] : Changes[r][d] = Changes[r][c] => d <= c
        BY <1>0, <1>5, Occurred
      <4>5. v <= c
        BY <2>6, <4>3, <4>4
      <4> QED
        BY <2>6, <4>1, <4>2, <4>3, <4>5
    <3>3. ASSUME NEW row \in rows, NEW other \in rows, row.id = other.id
          PROVE  other.version = row.version
      <4>1. row.version \in page /\ other.version \in page
            /\ Changes[r][row.version] = Changes[r][other.version]
        BY <2>12, <3>3
      <4>2. row.version <= other.version /\ other.version <= row.version
        BY <1>0, <1>5, <2>6, <4>1, Occurred
      <4>3. row.version \in Int /\ other.version \in Int
        BY <2>6, <4>1
      <4> QED
        BY <4>2, <4>3
    <3>4. Current(r)' = Current(r) /\ stored' = stored
      BY <1>6 DEF Current, tables
    <3> QED
      BY <2>8, <2>9, <2>10, <2>11, <3>1, <3>2, <3>3, <3>4 DEF HolderIsCurrent, ReadOrStored
  <2> QED
    BY <1>6, <2>5, <2>8, <2>13, <2>14, <2>15, HolderAlone DEF RunnerIsGood
<1> QED
  BY <1>7, <1>8

LEMMA HydrateKeeps ==
  ASSUME BiInv, NEW p \in Runners, Hydrate(p)
  PROVE  BiInv'
<1>0. /\ RunnerTyped(p) /\ runner[p] \in RunnerRows /\ runner[p].pc = "hydrate"
      /\ TablesTyped /\ RowsAreReal(p) /\ HolderIsCurrent(p)
      /\ runner \in [Runners -> RunnerRows]
  BY DEF BiInv, RunnerTyped, Hydrate, At
<1>1. ResourceOf(p) = Orders /\ Orders \in Resources
  BY <1>0, OrdersIsAResource DEF RowsAreReal
<1>2. PICK rows : rows = runner[p].rows
  OBVIOUS
<1>3. /\ rows \subseteq AnyRow
      /\ \A row \in rows : /\ row.id \in RowsOf(Orders) /\ row.version > 0
                           /\ IsVersion(Orders, row.id, row.version)
                           /\ row.id \notin Bare => row.items
  BY <1>0, <1>1, <1>2, RunnerFields DEF RowsAreReal, InHand
<1>4. PICK some \in SUBSET WithoutItems(rows) :
         Goes(p, [runner[p] EXCEPT !.pc = "persist", !.rows = Detailed(runner[p].rows, some)])
  BY <1>2 DEF Hydrate
<1>5. some \in SUBSET rows /\ \A y \in some : y.id \in Bare
  BY <1>3, <1>4 DEF WithoutItems
<1>6. PICK new : new = Detailed(rows, some)
  OBVIOUS
<1>7. origin[Orders] \in Nat
  BY <1>0, <1>1 DEF TablesTyped
<1>8. \A x \in new \ rows : /\ x \in AnyRow /\ x.items = TRUE
                            /\ x.version \in 1..origin[Orders]
                            /\ Changes[Orders][x.version] = x.id
                            /\ \E y \in some : x.id = y.id
  <2>1. \A y \in some : \E d \in 1..origin[Orders] : Changes[Orders][d] = y.id
    BY <1>3, <1>5, <1>7 DEF IsVersion
  <2>2. \A x \in Detailed(rows, some) \ rows :
          /\ x \in AnyRow /\ x.items = TRUE
          /\ x.version \in 1..origin[Orders] /\ Changes[Orders][x.version] = x.id
          /\ \E y \in some : x.id = y.id
    <3>1. TablesTyped /\ some \in SUBSET rows
      BY <1>0, <1>5
    <3> QED
      BY <2>1, <3>1, DetailedRows, Zenon
  <2> QED
    BY <1>6, <2>2
<1>9. \A x : x.id \notin Bare => (x \in new <=> x \in rows)
  BY <1>5, <1>6, <1>8 DEF Detailed
<1>10. \A x \in new : /\ x \in AnyRow /\ x.id \in RowsOf(Orders) /\ x.version > 0
                      /\ IsVersion(Orders, x.id, x.version)
                      /\ x.id \notin Bare => x.items
  <2> SUFFICES ASSUME NEW x \in new
      PROVE  /\ x \in AnyRow /\ x.id \in RowsOf(Orders) /\ x.version > 0
             /\ IsVersion(Orders, x.id, x.version)
             /\ x.id \notin Bare => x.items
    OBVIOUS
  <2>1. CASE x \in rows
    BY <1>3, <2>1
  <2>2. CASE x \notin rows
    BY <1>3, <1>5, <1>7, <1>8, <2>2 DEF IsVersion
  <2> QED
    BY <2>1, <2>2
<1>11. PICK t : t = [runner[p] EXCEPT !.pc = "persist", !.rows = new]
  OBVIOUS
<1>12. /\ t \in RunnerRows /\ t.pc = "persist" /\ t.rows = new
       /\ t.cursor = runner[p].cursor
       /\ t.token = runner[p].token /\ t.plan = runner[p].plan
  BY <1>0, <1>10, <1>11 DEF RunnerRows, Pcs
<1>13. runner' = [runner EXCEPT ![p] = t] /\ runner'[p] = t
  BY <1>0, <1>2, <1>4, <1>6, <1>11 DEF Goes
<1>14. UNCHANGED <<tables, origin>> /\ {busy', cancelled', cancelling', blocked'} \subseteq BOOLEAN
  BY DEF Hydrate, BiInv
<1>15. ResourceOf(p)' = Orders
  BY <1>1, <1>12, <1>13 DEF ResourceOf
<1>16. RunnerTyped(p)'
  BY <1>0, <1>1, <1>12, <1>13, <1>14, <1>15 DEF RunnerTyped, Working, Paging
<1>17. RowsAreReal(p)'
  BY <1>10, <1>12, <1>13, <1>14, <1>15 DEF RowsAreReal, IsVersion
<1>18. HolderIsCurrent(p)'
  <2> SUFFICES ASSUME HasLease(p) PROVE HolderIsCurrent(p)'
    BY <1>1, <1>12, <1>13, <1>14, <1>15 DEF HolderIsCurrent, HasLease, tables
  <2>1. ASSUME NEW c \in Current(Orders), c <= runner[p].cursor, Changes[Orders][c] \notin Bare
        PROVE  \/ stored[Orders][Changes[Orders][c]].version = c
               \/ \E row \in rows : row.id = Changes[Orders][c] /\ row.version = c
    BY <1>0, <1>1, <1>2, <2>1 DEF HolderIsCurrent, ReadOrStored, Paging
  <2>2. \A row \in rows : row.id \notin Bare =>
            /\ row.version >= stored[Orders][row.id].version
            /\ \A other \in rows : other.id = row.id => other.version = row.version
    BY <1>0, <1>1, <1>2 DEF HolderIsCurrent, Paging, InHand
  <2>3. ASSUME NEW c \in Current(Orders), c <= runner[p].cursor, Changes[Orders][c] \notin Bare
        PROVE  \/ stored[Orders][Changes[Orders][c]].version = c
               \/ \E row \in new : row.id = Changes[Orders][c] /\ row.version = c
    BY <1>9, <2>1, <2>3
  <2>4. \A row \in new : row.id \notin Bare =>
            /\ row.version >= stored[Orders][row.id].version
            /\ \A other \in new : other.id = row.id => other.version = row.version
    BY <1>9, <2>2
  <2>5. Current(Orders)' = Current(Orders) /\ stored' = stored
    BY <1>14 DEF Current, tables
  <2> QED
    BY <1>12, <1>13, <1>15, <2>3, <2>4, <2>5 DEF HolderIsCurrent, ReadOrStored, InHand
<1> QED
  BY <1>12, <1>13, <1>14, <1>16, <1>17, <1>18, HolderAlone DEF RunnerIsGood

LEMMA UpsertedRows ==
  ASSUME TablesTyped, NEW r \in Resources, NEW rows \in SUBSET AnyRow
  PROVE  LET new == Upserted(rows, r) IN
           /\ DOMAIN new = Resources /\ new = [q \in Resources |-> new[q]]
           /\ \A q \in Resources \ {r} : new[q] = stored[q]
           /\ new[r] \in [RowsOf(r) -> [version : Nat, items : BOOLEAN]]
           /\ \A id \in RowsOf(r) :
                \/ /\ new[r][id] = stored[r][id]
                   /\ \A row \in rows : row.id # id
                \/ \E row \in rows : /\ row.id = id
                                     /\ new[r][id].version = row.version
                                     /\ new[r][id].items = row.items
<1> DEFINE new == Upserted(rows, r)
<1>1. /\ DOMAIN new = Resources /\ new = [q \in Resources |-> new[q]]
      /\ \A q \in Resources \ {r} : new[q] = stored[q]
      /\ new[r] = [id \in RowsOf(r) |->
           IF \E row \in rows : row.id = id
             THEN LET sent == CHOOSE row \in rows : row.id = id
                  IN [version |-> sent.version, items |-> sent.items]
             ELSE stored[r][id]]
  BY DEF Upserted, TablesTyped
<1> HIDE DEF new
<1>2. ASSUME NEW id \in RowsOf(r)
      PROVE  /\ new[r][id] \in [version : Nat, items : BOOLEAN]
             /\ \/ /\ new[r][id] = stored[r][id]
                   /\ \A row \in rows : row.id # id
                \/ \E row \in rows : /\ row.id = id
                                     /\ new[r][id].version = row.version
                                     /\ new[r][id].items = row.items
  <2>1. CASE \E row \in rows : row.id = id
    <3>1. PICK row : row = CHOOSE x \in rows : x.id = id
      OBVIOUS
    <3>2. row \in rows /\ row.id = id
      BY <2>1, <3>1
    <3>3. new[r][id] = [version |-> row.version, items |-> row.items]
      BY <1>1, <2>1, <3>1
    <3>4. row.version \in Nat /\ row.items \in BOOLEAN
      BY <3>2 DEF AnyRow
    <3> QED
      BY <3>2, <3>3, <3>4
  <2>2. CASE ~\E row \in rows : row.id = id
    <3>1. new[r][id] = stored[r][id]
      BY <1>1, <2>2
    <3> QED
      BY <2>2, <3>1 DEF TablesTyped
  <2> QED
    BY <2>1, <2>2
<1>3. new[r] \in [RowsOf(r) -> [version : Nat, items : BOOLEAN]]
  BY <1>1, <1>2
<1> QED
  BY <1>1, <1>2, <1>3 DEF new

(* What a page changes: its rows replace older ones, and up to its cursor  *)
(* the BI then shows the current versions.                                 *)
StoresPage(p, r) ==
  /\ runner[p].token # NoToken /\ state[r].token = runner[p].token
  /\ runner[p].cursor \in Nat /\ runner[p].cursor <= origin[r]
  /\ state' = [state EXCEPT ![r].cursor = runner[p].cursor,
                            ![r].running = TRUE, ![r].fresh = TRUE]
  /\ DOMAIN stored' = Resources /\ stored' = [q \in Resources |-> stored'[q]]
  /\ \A q \in Resources \ {r} : stored'[q] = stored[q]
  /\ stored'[r] \in [RowsOf(r) -> [version : Nat, items : BOOLEAN]]
  /\ \A id \in RowsOf(r) :
       /\ IsVersion(r, id, stored'[r][id].version)
       /\ id \notin Bare =>
            /\ stored'[r][id].version > 0 => stored'[r][id].items
            /\ stored'[r][id].version >= stored[r][id].version
  /\ \A c \in Current(r) :
       (c <= runner[p].cursor /\ Changes[r][c] \notin Bare)
         => stored'[r][Changes[r][c]].version = c

LEMMA PageStored ==
  ASSUME BiInv, NEW p \in Runners, PersistPage(p),
         NEW r \in Resources, r = ResourceOf(p)
  PROVE  StoresPage(p, r)
<1>0. /\ RunnerTyped(p) /\ runner[p] \in RunnerRows /\ runner[p].pc = "persist"
      /\ TablesTyped /\ RowsAreReal(p) /\ HolderIsCurrent(p) /\ StoredIsReal
      /\ HasLease(p)
  BY DEF BiInv, RunnerTyped, PersistPage, At
<1>1. PICK rows : rows = runner[p].rows
  OBVIOUS
<1>2. /\ rows \in SUBSET AnyRow
      /\ \A row \in rows : /\ row.id \in RowsOf(r) /\ row.version > 0
                           /\ IsVersion(r, row.id, row.version)
                           /\ row.id \notin Bare => row.items
  BY <1>0, <1>1, RunnerFields DEF RowsAreReal, InHand
<1>3. runner[p].token # NoToken /\ state[r].token = runner[p].token
      /\ runner[p].cursor \in Nat /\ runner[p].cursor <= origin[r]
  BY <1>0, RunnerFields DEF RunnerTyped, HasLease, Working, Paging
<1>4. stored' = Upserted(rows, r)
      /\ state' = [state EXCEPT ![r].cursor = runner[p].cursor,
                                ![r].running = TRUE, ![r].fresh = TRUE]
  BY <1>1 DEF PersistPage, PageCursor
<1>5. /\ DOMAIN stored' = Resources /\ stored' = [q \in Resources |-> stored'[q]]
      /\ \A q \in Resources \ {r} : stored'[q] = stored[q]
      /\ stored'[r] \in [RowsOf(r) -> [version : Nat, items : BOOLEAN]]
      /\ \A id \in RowsOf(r) :
           \/ /\ stored'[r][id] = stored[r][id]
              /\ \A row \in rows : row.id # id
           \/ \E row \in rows : /\ row.id = id
                                /\ stored'[r][id].version = row.version
                                /\ stored'[r][id].items = row.items
  BY <1>0, <1>2, <1>4, UpsertedRows
<1>6. \A row \in rows : row.id \notin Bare =>
        /\ row.version >= stored[r][row.id].version
        /\ \A other \in rows : other.id = row.id => other.version = row.version
  BY <1>0, <1>1 DEF HolderIsCurrent, Paging, InHand
<1>7. ASSUME NEW id \in RowsOf(r)
      PROVE  /\ IsVersion(r, id, stored'[r][id].version)
             /\ id \notin Bare =>
                  /\ stored'[r][id].version > 0 => stored'[r][id].items
                  /\ stored'[r][id].version >= stored[r][id].version
  <2>1. CASE stored'[r][id] = stored[r][id]
    <3>1. stored[r][id].version \in Nat
      BY <1>0 DEF TablesTyped
    <3> QED
      BY <1>0, <2>1, <3>1 DEF StoredIsReal
  <2>2. CASE stored'[r][id] # stored[r][id]
    BY <1>2, <1>5, <1>6, <2>2
  <2> QED
    BY <2>1, <2>2
<1>8. ASSUME NEW c \in Current(r), c <= runner[p].cursor, Changes[r][c] \notin Bare
      PROVE  stored'[r][Changes[r][c]].version = c
  <2>1. PICK id \in RowsOf(r) : id = Changes[r][c]
    BY <1>0, Occurred
  <2>2. c \in 1..origin[r] /\ origin[r] \in Nat
    BY <1>0, Occurred DEF TablesTyped
  <2>3. \A d \in 1..origin[r] : Changes[r][d] = id => d <= c
    BY <1>0, <2>1, Occurred
  <2>4. \/ stored[r][id].version = c
        \/ \E row \in rows : row.id = id /\ row.version = c
    BY <1>0, <1>1, <1>8, <2>1 DEF HolderIsCurrent, ReadOrStored, Paging
  <2>5. CASE \E row \in rows : row.id = id
    <3>1. PICK row \in rows : row.id = id /\ stored'[r][id].version = row.version
      BY <1>5, <2>5
    <3>2. row.version >= c
      <4>1. CASE stored[r][id].version = c
        BY <1>6, <1>8, <2>1, <3>1, <4>1
      <4>2. CASE \E other \in rows : other.id = id /\ other.version = c
        <5>1. row.version = c
          BY <1>6, <1>8, <2>1, <3>1, <4>2
        <5> QED
          BY <2>2, <5>1
      <4> QED
        BY <2>4, <4>1, <4>2
    <3>3. row.version \in 1..origin[r] /\ Changes[r][row.version] = id
      BY <1>2, <2>2, <3>1 DEF IsVersion
    <3>4. row.version <= c
      BY <2>3, <3>3
    <3> QED
      BY <2>1, <2>2, <3>1, <3>2, <3>3, <3>4
  <2>6. CASE ~\E row \in rows : row.id = id
    BY <1>5, <2>1, <2>4, <2>6
  <2> QED
    BY <2>5, <2>6
<1> QED
  BY <1>3, <1>4, <1>5, <1>7, <1>8 DEF StoresPage

LEMMA PersistKeeps ==
  ASSUME BiInv, NEW p \in Runners, PersistPage(p)
  PROVE  BiInv'
<1>0. /\ RunnerTyped(p) /\ runner[p] \in RunnerRows /\ runner[p].pc = "persist"
      /\ TablesTyped /\ StoredIsReal /\ runner \in [Runners -> RunnerRows]
  BY DEF BiInv, RunnerTyped, PersistPage, At
<1>1. PICK r \in Resources : r = ResourceOf(p)
  BY <1>0, PlanHasHead
<1>2. /\ runner[p].token # NoToken /\ state[r].token = runner[p].token
      /\ runner[p].cursor \in Nat /\ runner[p].cursor <= origin[r]
      /\ state' = [state EXCEPT ![r].cursor = runner[p].cursor,
                                ![r].running = TRUE, ![r].fresh = TRUE]
      /\ DOMAIN stored' = Resources /\ stored' = [q \in Resources |-> stored'[q]]
      /\ \A q \in Resources \ {r} : stored'[q] = stored[q]
      /\ stored'[r] \in [RowsOf(r) -> [version : Nat, items : BOOLEAN]]
      /\ \A id \in RowsOf(r) :
           /\ IsVersion(r, id, stored'[r][id].version)
           /\ id \notin Bare =>
                /\ stored'[r][id].version > 0 => stored'[r][id].items
                /\ stored'[r][id].version >= stored[r][id].version
      /\ \A c \in Current(r) :
           (c <= runner[p].cursor /\ Changes[r][c] \notin Bare)
             => stored'[r][Changes[r][c]].version = c
  <2>1. StoresPage(p, r)
    BY <1>1, PageStored
  <2> QED
    BY <2>1, Zenon DEF StoresPage
<1>3. UNCHANGED <<open, origin, flags>>
  BY DEF PersistPage
<1>4. /\ state' \in [Resources -> StateRows]
      /\ \A q \in Resources :
           /\ state'[q].token = state[q].token
           /\ state'[q].running = state[q].running
           /\ q # r => state'[q] = state[q]
      /\ state'[r].cursor = runner[p].cursor
  <2>1. PICK row : row = [state[r] EXCEPT !.cursor = runner[p].cursor, !.running = TRUE,
                                          !.fresh = TRUE]
    OBVIOUS
  <2>2. state[r].running = TRUE /\ state \in [Resources -> StateRows]
    BY <1>0, <1>2 DEF BiInv, LeasesHaveTokens, TablesTyped, StateRows
  <2>3. row \in StateRows /\ row.cursor = runner[p].cursor /\ row.token = state[r].token
        /\ row.running = state[r].running
    BY <1>2, <2>1, <2>2 DEF StateRows
  <2>4. state' = [state EXCEPT ![r] = row]
    BY <1>2, <2>1, <2>2 DEF StateRows
  <2> QED
    BY <2>2, <2>3, <2>4
<1>5. \A q \in Resources : Current(q)' = Current(q)
  BY <1>3 DEF Current
<1>6. TablesTyped'
  <2>1. ASSUME NEW q \in Resources
        PROVE  /\ stored'[q] \in [RowsOf(q) -> [version : Nat, items : BOOLEAN]]
               /\ state'[q].cursor <= origin'[q] /\ origin'[q] <= Len(Changes[q])
    <3>1. CASE q = r
      BY <1>0, <1>2, <1>3, <1>4, <3>1 DEF TablesTyped
    <3>2. CASE q # r
      BY <1>0, <1>2, <1>3, <1>4, <3>2 DEF TablesTyped
    <3> QED
      BY <3>1, <3>2
  <2>2. origin' \in [Resources -> Nat]
    BY <1>0, <1>3 DEF TablesTyped
  <2> QED
    BY <1>2, <1>4, <2>1, <2>2 DEF TablesTyped
<1>7. StoredIsReal'
  <2>1. ASSUME NEW q \in Resources, NEW id \in RowsOf(q)
        PROVE  /\ IsVersion(q, id, stored'[q][id].version)
               /\ (stored'[q][id].version > 0 /\ id \notin Bare) => stored'[q][id].items
    <3>1. CASE q = r
      BY <1>2, <2>1, <3>1
    <3>2. CASE q # r
      BY <1>0, <1>2, <2>1, <3>2 DEF StoredIsReal
    <3> QED
      BY <3>1, <3>2
  <2> QED
    BY <1>3, <2>1 DEF StoredIsReal, IsVersion
<1>8. CursorIsBacked'
  <2>1. ASSUME NEW q \in Resources, NEW id \in RowsOf(q) \ Bare, NEW c \in 1..state'[q].cursor,
               c \in Current(q), Changes[q][c] = id
        PROVE  stored'[q][id].version = c
    <3>1. CASE q = r
      <4>1. c <= runner[p].cursor
        BY <1>2, <1>4, <2>1, <3>1
      <4> QED
        BY <1>2, <2>1, <3>1, <4>1
    <3>2. CASE q # r
      BY <1>2, <1>4, <2>1, <3>2 DEF BiInv, CursorIsBacked, Shows
    <3> QED
      BY <3>1, <3>2
  <2> QED
    BY <1>5, <2>1 DEF CursorIsBacked, Shows
<1>9. LeasesHaveTokens' /\ RunsFollowLeases'
  <2>1. LeasesHaveTokens'
    BY <1>4 DEF BiInv, LeasesHaveTokens
  <2>2. RunsFollowLeases'
    BY <1>3, <1>4 DEF BiInv, RunsFollowLeases
  <2> QED
    BY <2>1, <2>2
<1>10. {busy', cancelled', cancelling', blocked'} \subseteq BOOLEAN
  BY <1>3 DEF BiInv, flags
<1>11. PICK pages \in Nat : pages = runner[p].pages + 1
  BY <1>0 DEF RunnerRows
<1>12. PICK t :
         /\ runner' = [runner EXCEPT ![p] = t]
         /\ \/ t = Leaves(p, AfterPages(r), "success") \/ t = Leaves(p, "finish", "partial")
            \/ t = [runner[p] EXCEPT !.pc = "list", !.rows = {}, !.pages = pages]
  <2>1. Goes(p, CASE ~runner[p].more -> Leaves(p, AfterPages(r), "success")
                  [] runner[p].more /\ pages = MaxPages -> Leaves(p, "finish", "partial")
                  [] OTHER -> [runner[p] EXCEPT !.pc = "list", !.rows = {}, !.pages = pages])
    BY <1>1, <1>11 DEF PersistPage
  <2> QED
    BY <2>1 DEF Goes
<1>13. runner'[p] = t
  BY <1>0, <1>12
<1>14. ASSUME OffPages(p, t) PROVE RunnerIsGood(p)' /\ t \in RunnerRows
                                   /\ t.token \in {runner[p].token, NoToken}
  BY <1>3, <1>12, <1>14, OffPagesIsGood DEF OffPages
<1>15. RunnerIsGood(p)' /\ t \in RunnerRows /\ t.token \in {runner[p].token, NoToken}
  <2>1. CASE t = Leaves(p, AfterPages(r), "success") \/ t = Leaves(p, "finish", "partial")
    <3>1. OffPages(p, t)
      BY <1>0, <2>1, LeavesTyped DEF AfterPages, Working, Paging
    <3> QED
      BY <1>14, <3>1
  <2>2. CASE t = [runner[p] EXCEPT !.pc = "list", !.rows = {}, !.pages = pages]
    <3>1. /\ t \in RunnerRows /\ t.pc = "list" /\ t.cursor = runner[p].cursor
          /\ t.token = runner[p].token /\ t.plan = runner[p].plan
      BY <1>0, <2>2 DEF RunnerRows, Pcs
    <3>2. ResourceOf(p)' = r
      BY <1>1, <1>13, <3>1 DEF ResourceOf
    <3>3. RunnerTyped(p)'
      BY <1>0, <1>2, <1>3, <1>13, <3>1, <3>2 DEF RunnerTyped
    <3>4. RowsAreReal(p)'
      BY <1>13, <3>1 DEF RowsAreReal, InHand
    <3>5. HolderIsCurrent(p)'
      BY <1>2, <1>5, <1>13, <3>1, <3>2 DEF HolderIsCurrent, ReadOrStored, InHand
    <3> QED
      BY <3>1, <3>3, <3>4, <3>5 DEF RunnerIsGood
  <2> QED
    BY <1>12, <2>1, <2>2
<1>16. ASSUME NEW q \in Runners PROVE RunnerIsGood(q)'
  <2>1. CASE q # p
    <3>1. UNCHANGED runner[q]
      BY <1>0, <1>12, <2>1
    <3>2. runner[q].pc \in Paging => runner[q].token # NoToken
      BY DEF BiInv, RunnerTyped, Working
    <3>3. ASSUME NEW s \in Resources, runner[q].pc \in Paging, s = ResourceOf(q),
                 state'[s].token = runner[q].token
          PROVE  s # r
      BY <1>2, <1>4, <2>1, <3>2, <3>3 DEF BiInv, OwnTokens
    <3>4. KeepsPages(q)
      BY <1>2, <1>4, <3>3 DEF KeepsPages
    <3> QED
      BY <1>3, <3>1, <3>4, OtherStays
  <2> QED
    BY <1>15, <2>1
<1>17. OwnTokens' /\ runner' \in [Runners -> RunnerRows]
  <2>1. \A q \in Runners : runner'[q].token \in {runner[q].token, NoToken}
    BY <1>0, <1>12, <1>15
  <2>2. runner' \in [Runners -> RunnerRows]
    BY <1>0, <1>12, <1>15
  <2> QED
    BY <2>1, <2>2 DEF BiInv, OwnTokens
<1> QED
  BY <1>6, <1>7, <1>8, <1>9, <1>10, <1>16, <1>17 DEF BiInv, RunnerIsGood

(* The rows of a backfill, and no others, change without a lease.          *)
LEMMA BackfillStored ==
  ASSUME BiInv, NEW p \in Runners, BackfillWrite(p)
  PROVE  /\ TablesTyped' /\ StoredIsReal'
         /\ \A r \in Resources : \A id \in RowsOf(r) \ Bare : stored'[r][id] = stored[r][id]
<1>0. /\ RunnerTyped(p) /\ RowsAreReal(p) /\ TablesTyped /\ StoredIsReal
      /\ runner[p].pc = "repair" /\ Orders \in Resources
  BY OrdersIsAResource DEF BiInv, BackfillWrite, At
<1>1. PICK rows : rows = runner[p].rows
  OBVIOUS
<1>2. /\ rows \in SUBSET AnyRow
      /\ \A row \in rows : row.id \in RowsOf(Orders) \cap Bare /\ IsVersion(Orders, row.id, row.version)
  BY <1>0, <1>1, RunnerFields DEF RunnerTyped, RowsAreReal
<1>3. UNCHANGED <<state, origin>> /\ stored' = Upserted(rows, Orders)
  BY <1>1 DEF BackfillWrite
<1>4. /\ DOMAIN stored' = Resources /\ stored' = [q \in Resources |-> stored'[q]]
      /\ \A q \in Resources \ {Orders} : stored'[q] = stored[q]
      /\ stored'[Orders] \in [RowsOf(Orders) -> [version : Nat, items : BOOLEAN]]
      /\ \A id \in RowsOf(Orders) :
           \/ /\ stored'[Orders][id] = stored[Orders][id]
              /\ \A row \in rows : row.id # id
           \/ \E row \in rows : /\ row.id = id
                                /\ stored'[Orders][id].version = row.version
                                /\ stored'[Orders][id].items = row.items
  BY <1>0, <1>2, <1>3, UpsertedRows
<1>5. TablesTyped'
  <2>1. ASSUME NEW q \in Resources
        PROVE  stored'[q] \in [RowsOf(q) -> [version : Nat, items : BOOLEAN]]
    <3>1. CASE q = Orders
      BY <1>4, <3>1
    <3>2. CASE q # Orders
      BY <1>0, <1>4, <3>2 DEF TablesTyped
    <3> QED
      BY <3>1, <3>2
  <2> QED
    BY <1>0, <1>3, <1>4, <2>1 DEF TablesTyped
<1>6. ASSUME NEW r \in Resources, NEW id \in RowsOf(r) \ Bare
      PROVE  stored'[r][id] = stored[r][id]
  <2>1. CASE r = Orders
    BY <1>2, <1>4, <1>6, <2>1
  <2>2. CASE r # Orders
    BY <1>4, <1>6, <2>2
  <2> QED
    BY <2>1, <2>2
<1>7. ASSUME NEW r \in Resources, NEW id \in RowsOf(r)
      PROVE  /\ IsVersion(r, id, stored'[r][id].version)
             /\ (stored'[r][id].version > 0 /\ id \notin Bare) => stored'[r][id].items
  <2>1. CASE stored'[r][id] = stored[r][id]
    BY <1>0, <2>1 DEF StoredIsReal
  <2>2. CASE stored'[r][id] # stored[r][id]
    BY <1>2, <1>4, <1>6, <1>7, <2>2
  <2> QED
    BY <2>1, <2>2
<1>8. StoredIsReal'
  BY <1>3, <1>7 DEF StoredIsReal, IsVersion
<1> QED
  BY <1>5, <1>6, <1>8

LEMMA BackfillWriteKeeps ==
  ASSUME BiInv, NEW p \in Runners, BackfillWrite(p)
  PROVE  BiInv'
<1>0. RunnerTyped(p) /\ runner[p] \in RunnerRows /\ runner[p].pc = "repair"
      /\ runner \in [Runners -> RunnerRows]
  BY DEF BiInv, RunnerTyped, BackfillWrite, At
<1>1. UNCHANGED <<state, open, origin, flags>>
  BY DEF BackfillWrite
<1>2. PICK n : n = runner[p].batches + 1
  OBVIOUS
<1>3. PICK t : t = [runner[p] EXCEPT !.pc = "backfill", !.rows = {}, !.batches = n]
  OBVIOUS
<1>4. runner' = [runner EXCEPT ![p] = t]
  BY <1>2, <1>3 DEF BackfillWrite, Goes
<1>5. OffPages(p, t)
  <2>1. n \in Nat
    BY <1>0, <1>2 DEF RunnerRows
  <2>2. /\ t \in RunnerRows /\ t.pc = "backfill" /\ t.token = runner[p].token
        /\ t.plan = runner[p].plan
    BY <1>0, <1>3, <2>1 DEF RunnerRows, Pcs
  <2> QED
    BY <1>0, <2>2 DEF OffPages, RunnerTyped, Working, Paging
<1>6. TablesTyped' /\ StoredIsReal'
      /\ \A r \in Resources : \A id \in RowsOf(r) \ Bare : stored'[r][id] = stored[r][id]
  BY BackfillStored
<1>7. ASSUME NEW q \in Runners PROVE RunnerIsGood(q)'
  <2>1. CASE q = p
    BY <1>1, <1>4, <1>5, <2>1, OffPagesIsGood
  <2>2. CASE q # p
    <3>1. UNCHANGED runner[q] /\ KeepsPages(q)
      BY <1>0, <1>1, <1>4, <1>6, <2>2 DEF KeepsPages
    <3> QED
      BY <1>1, <3>1, OtherStays
  <2> QED
    BY <2>1, <2>2
<1>8. CursorIsBacked'
  <2>1. \A r \in Resources : Current(r)' = Current(r)
    BY <1>1 DEF Current
  <2> QED
    BY <1>1, <1>6, <2>1 DEF BiInv, CursorIsBacked, Shows
<1>9. LeasesHaveTokens' /\ RunsFollowLeases'
      /\ {busy', cancelled', cancelling', blocked'} \subseteq BOOLEAN
  BY <1>1 DEF BiInv, LeasesHaveTokens, RunsFollowLeases, flags
<1>10. OwnTokens' /\ runner' \in [Runners -> RunnerRows]
  BY <1>0, <1>4, <1>5, TokensKept DEF OffPages
<1> QED
  BY <1>6, <1>7, <1>8, <1>9, <1>10 DEF BiInv, RunnerIsGood

-----------------------------------------------------------------------------
(* The invariant holds                                                     *)

LEMMA BiInitHolds == BiInit => BiInv
<1> SUFFICES ASSUME BiInit PROVE BiInv
  OBVIOUS
<1>1. /\ state = [r \in Resources |->
            [cursor |-> 0, running |-> FALSE, token |-> NoToken, fresh |-> FALSE]]
      /\ stored = [r \in Resources |->
            [id \in RowsOf(r) |-> [version |-> 0, items |-> FALSE]]]
      /\ open = {} /\ origin = AtFirst /\ runner = [p \in Runners |-> Resting]
  BY DEF BiInit
<1>2. /\ state \in [Resources -> StateRows]
      /\ \A r \in Resources : /\ state[r].cursor = 0 /\ state[r].running = FALSE
                              /\ state[r].token = NoToken
  BY <1>1 DEF StateRows
<1>3. \A r \in Resources : \A id \in RowsOf(r) : stored[r][id].version = 0
  BY <1>1
<1>4. \A r \in Resources : origin[r] \in Nat /\ origin[r] <= Len(Changes[r])
  BY <1>1, OriginTyped
<1>5. TablesTyped
  <2>1. \A r \in Resources : stored[r] \in [RowsOf(r) -> [version : Nat, items : BOOLEAN]]
    BY <1>1
  <2>2. origin \in [Resources -> Nat]
    BY <1>1, OriginTyped
  <2>3. DOMAIN stored = Resources /\ stored = [r \in Resources |-> stored[r]]
    BY <1>1
  <2>4. \A r \in Resources : state[r].cursor <= origin[r]
    BY <1>2, <1>4
  <2> QED
    BY <1>2, <1>4, <2>1, <2>2, <2>3, <2>4 DEF TablesTyped
<1>6. StoredIsReal
  BY <1>3, <1>4 DEF StoredIsReal, IsVersion
<1>7. CursorIsBacked
  BY <1>2 DEF CursorIsBacked, Shows
<1>8. Resting.pc = "idle" /\ Resting.token = NoToken
  BY DEF Resting
<1>9. ASSUME NEW p \in Runners PROVE RunnerTyped(p) /\ RowsAreReal(p) /\ HolderIsCurrent(p)
  <2>1. runner[p] = Resting
    BY <1>1
  <2> QED
    BY <1>8, <2>1, RestingTyped
       DEF RunnerTyped, RowsAreReal, HolderIsCurrent, Working, Paging, InHand
<1>10. runner \in [Runners -> RunnerRows] /\ OwnTokens
  BY <1>1, <1>8, RestingTyped DEF OwnTokens
<1>11. LeasesHaveTokens /\ RunsFollowLeases
  BY <1>1, <1>2 DEF LeasesHaveTokens, RunsFollowLeases
<1>12. {busy, cancelled, cancelling, blocked} \subseteq BOOLEAN
  BY DEF BiInit
<1> QED
  BY <1>5, <1>6, <1>7, <1>9, <1>10, <1>11, <1>12 DEF BiInv

LEMMA BiInvInductive == BiInv /\ [BiNext]_biVars => BiInv'
<1> SUFFICES ASSUME BiInv, [BiNext]_biVars PROVE BiInv'
  OBVIOUS
<1>1. CASE UNCHANGED biVars
  <2>1. UNCHANGED <<state, open, stored, origin, runner, busy, cancelled, cancelling, blocked>>
    BY <1>1 DEF biVars, tables, flags
  <2>2. UNCHANGED <<tables, origin>>
    BY <2>1 DEF tables
  <2>3. ASSUME NEW q \in Runners PROVE RunnerIsGood(q)'
    <3>1. KeepsPages(q)
      BY <2>1 DEF KeepsPages
    <3> QED
      BY <2>1, <3>1, OtherStays
  <2>4. OwnTokens' /\ runner' \in [Runners -> RunnerRows]
        /\ {busy', cancelled', cancelling', blocked'} \subseteq BOOLEAN
    BY <2>1 DEF BiInv, OwnTokens
  <2> QED
    BY <2>2, <2>3, <2>4, TablesAlone DEF BiInv, RunnerIsGood
<1>2. ASSUME NEW r \in Resources, Edit(r) \/ HeartbeatAges(r) PROVE BiInv'
  BY <1>2, EditKeeps, AgesKeeps
<1>3. ASSUME NEW p \in Runners, RunnerStep(p) PROVE BiInv'
  BY <1>3, ClaimKeeps, ListKeeps, HydrateKeeps, PersistKeeps, BackfillReadKeeps,
     BackfillWriteKeeps, FinishKeeps, QuietSteps DEF RunnerStep
<1>4. ASSUME NEW p \in Runners,
             (\E r \in Resources : Schedule(p, r)) \/ \E plan \in Plans : RunSync(p, plan)
      PROVE  BiInv'
  BY <1>4, QuietSteps
<1>5. CASE RequestCancel \/ CancelSync \/ Restart
  BY <1>5, RequestCancelKeeps, CancelKeeps, RestartKeeps
<1> QED
  BY <1>1, <1>2, <1>3, <1>4, <1>5 DEF BiNext

LEMMA BiInvHolds == BiSpec => []BiInv
BY BiInitHolds, BiInvInductive, PTL DEF BiSpec

(* The rows of sync_states, sync_runs and the BI, and what the jobs hold,  *)
(* keep their shape: no version or cursor that the origin did not have,    *)
(* and no runner at work without a resource.                               *)
THEOREM BiTypeCorrect == BiSpec => []BiTypeOK
<1>1. BiInv => BiTypeOK
  <2> SUFFICES ASSUME BiInv PROVE BiTypeOK
    OBVIOUS
  <2>0. TablesTyped /\ StoredIsReal
    BY DEF BiInv
  <2>1. ASSUME NEW r \in Resources
        PROVE  /\ state[r] \in [cursor : 0..Len(Changes[r]), running : BOOLEAN,
                                token : Tokens \cup {NoToken}, fresh : BOOLEAN]
               /\ origin[r] \in 0..Len(Changes[r])
    <3>1. /\ state[r] \in StateRows /\ origin[r] \in Nat /\ Len(Changes[r]) \in Nat
          /\ origin[r] <= Len(Changes[r]) /\ state[r].cursor <= origin[r]
      BY <2>0, OriginTyped DEF TablesTyped
    <3>2. state[r].cursor \in 0..Len(Changes[r])
      BY <3>1 DEF StateRows
    <3> QED
      BY <3>1, <3>2 DEF StateRows
  <2>2. ASSUME NEW r \in Resources
        PROVE  stored[r] \in [RowsOf(r) -> [version : 0..origin[r], items : BOOLEAN]]
    <3>1. /\ stored[r] \in [RowsOf(r) -> [version : Nat, items : BOOLEAN]]
          /\ \A id \in RowsOf(r) : stored[r][id].version \in 0..origin[r]
      BY <2>0 DEF TablesTyped, StoredIsReal, IsVersion
    <3> QED
      BY <3>1
  <2>3. open \subseteq Tokens \X Resources
    <3>1. \A r \in Resources : state[r].running => state[r].token \in Tokens
      BY <2>0 DEF BiInv, LeasesHaveTokens, TablesTyped, StateRows
    <3> QED
      BY <3>1 DEF BiInv, RunsFollowLeases
  <2>4. ASSUME NEW p \in Runners
        PROVE  /\ runner[p].pc \in Pcs
               /\ runner[p].pc # "idle" => runner[p].plan # <<>>
               /\ runner[p].token \in Tokens \cup {NoToken}
    BY RunnerFields DEF BiInv, RunnerTyped
  <2> QED
    BY <2>1, <2>2, <2>3, <2>4 DEF BiTypeOK, BiInv
<1> QED
  BY <1>1, BiInvHolds, PTL

(* The run in progress of a resource is the one that holds its lease, and  *)
(* there is no other: through expiries, takeovers, cancellations, late     *)
(* finishes and restarts (sync.py:473-568, 642).                           *)
THEOREM OneRunPerLease == BiSpec => []RunsFollowLeases
<1>1. BiInv => RunsFollowLeases
  BY DEF BiInv
<1> QED
  BY <1>1, BiInvHolds, PTL

(* The cursor never passes a row that the BI does not show as it is, for   *)
(* any sizes of pages and any number of full loads, takeovers and failures *)
(* (sync.py, _persist_sync_page).                                          *)
THEOREM CursorsAreBacked == BiSpec => []CursorIsBacked
<1>1. BiInv => CursorIsBacked
  BY DEF BiInv
<1> QED
  BY <1>1, BiInvHolds, PTL

(* No row goes back to an older version, and no page arrives for a run     *)
(* that was reported as ended (_persist_sync_page asks for the lease;      *)
(* main.py:396-409).                                                       *)
THEOREM OnlyCurrentPagesArrive == BiSpec => PagesAreCurrent
<1>1. BiInv /\ [BiNext]_biVars =>
        [\A r \in Resources :
           /\ \A id \in RowsOf(r) \ Bare :
                stored'[r][id].version >= stored[r][id].version
           /\ (\/ state'[r].cursor # state[r].cursor
               \/ \E id \in RowsOf(r) \ Bare : stored'[r][id] # stored[r][id])
                => <<state[r].token, r>> \in open]_<<state, stored>>
  <2> SUFFICES ASSUME BiInv, BiNext, NEW r \in Resources
      PROVE  /\ \A id \in RowsOf(r) \ Bare :
                  stored'[r][id].version >= stored[r][id].version
             /\ (\/ state'[r].cursor # state[r].cursor
                 \/ \E id \in RowsOf(r) \ Bare : stored'[r][id] # stored[r][id])
                  => <<state[r].token, r>> \in open
    BY DEF biVars, tables
  <2>0. /\ state \in [Resources -> StateRows]
        /\ \A id \in RowsOf(r) : stored[r][id].version \in Nat
    BY DEF BiInv, TablesTyped
  <2>1. ASSUME state'[r].cursor = state[r].cursor,
               \A id \in RowsOf(r) \ Bare : stored'[r][id] = stored[r][id]
        PROVE  /\ \A id \in RowsOf(r) \ Bare :
                    stored'[r][id].version >= stored[r][id].version
               /\ state'[r].cursor = state[r].cursor
               /\ \A id \in RowsOf(r) \ Bare : stored'[r][id] = stored[r][id]
    BY <2>0, <2>1
  <2>2. CASE UNCHANGED <<state, stored>>
    BY <2>1, <2>2
  <2>3. ASSUME NEW p \in Runners, PersistPage(p)
        PROVE  /\ \A id \in RowsOf(r) \ Bare :
                    stored'[r][id].version >= stored[r][id].version
               /\ (\/ state'[r].cursor # state[r].cursor
                   \/ \E id \in RowsOf(r) \ Bare : stored'[r][id] # stored[r][id])
                    => <<state[r].token, r>> \in open
    <3>1. PICK q \in Resources : q = ResourceOf(p)
      BY <2>3, PlanHasHead DEF BiInv, PersistPage, At
    <3>2. StoresPage(p, q)
      BY <2>3, <3>1, PageStored
    <3>3. CASE q = r
      <4>1. state[r].running
        BY <3>2, <3>3 DEF StoresPage, BiInv, LeasesHaveTokens
      <4>2. <<state[r].token, r>> \in open
        BY <4>1 DEF BiInv, RunsFollowLeases
      <4> QED
        BY <3>2, <3>3, <4>2 DEF StoresPage
    <3>4. CASE q # r
      BY <2>0, <2>1, <3>2, <3>4 DEF StoresPage
    <3> QED
      BY <3>3, <3>4
  <2>4. ASSUME NEW p \in Runners, BackfillWrite(p)
        PROVE  /\ \A id \in RowsOf(r) \ Bare : stored'[r][id] = stored[r][id]
               /\ state'[r].cursor = state[r].cursor
    BY <2>4, BackfillStored DEF BackfillWrite
  <2>5. ASSUME NEW p \in Runners, ClaimSync(p) \/ FinishSync(p)
        PROVE  stored'[r] = stored[r] /\ state'[r].cursor = state[r].cursor
    <3>1. UNCHANGED stored
      BY <2>5 DEF ClaimSync, FinishSync
    <3>2. CASE ClaimSync(p)
      <4>1. PICK q, k : state' = [state EXCEPT ![q].running = TRUE, ![q].token = k,
                                               ![q].fresh = TRUE]
        BY <3>2 DEF ClaimSync
      <4> QED
        BY <2>0, <3>1, <4>1 DEF StateRows
    <3>3. CASE FinishSync(p)
      <4>1. PICK q : state' = state \/ state' = [state EXCEPT ![q] = Released(state[q])]
        BY <3>3 DEF FinishSync
      <4>2. Released(state[r]).cursor = state[r].cursor
        BY <2>0 DEF Released, StateRows
      <4> QED
        BY <2>0, <3>1, <4>1, <4>2
    <3> QED
      BY <2>5, <3>2, <3>3
  <2>6. ASSUME CancelSync \/ Restart
        PROVE  stored'[r] = stored[r] /\ state'[r].cursor = state[r].cursor
    <3>1. InterruptRunningSyncs
      BY <2>6 DEF CancelSync, Restart
    <3> QED
      BY <3>1, InterruptedTables DEF InterruptRunningSyncs
  <2>7. ASSUME NEW a \in Resources, HeartbeatAges(a)
        PROVE  stored'[r] = stored[r] /\ state'[r].cursor = state[r].cursor
    BY <2>0, <2>7 DEF HeartbeatAges, StateRows
  <2>8. CASE \/ \E e \in Resources : Edit(e)
             \/ RequestCancel
             \/ \E p \in Runners :
                  \/ \E q \in Resources : Schedule(p, q)
                  \/ \E plan \in Plans : RunSync(p, plan)
                  \/ ClaimRefused(p) \/ ListPage(p) \/ RequestFails(p) \/ Hydrate(p)
                  \/ PersistFails(p) \/ BackfillRead(p) \/ BackfillFails(p)
                  \/ BackfillEnds(p) \/ FinishFails(p)
    <3>1. UNCHANGED tables
      BY <2>8 DEF Edit, RequestCancel, Schedule, RunSync, ClaimRefused, ListPage, RequestFails,
                  Hydrate, PersistFails, BackfillRead, BackfillFails, BackfillEnds, FinishFails,
                  Fails
    <3> QED
      BY <2>2, <3>1 DEF tables
  <2> QED
    BY <2>1, <2>3, <2>4, <2>5, <2>6, <2>7, <2>8 DEF BiNext, RunnerStep
<1> QED
  BY <1>1, BiInvHolds, PTL DEF BiSpec, PagesAreCurrent


(* The synchronisation of the application is BiSync: a step of the other    *)
(* parts writes none of its tables.  What holds of BiSync therefore holds   *)
(* of the application.                                                      *)
THEOREM AppSynchronises == FairBiAppSpec => BiSpec
<1>1. BiAppInit => BiInit
  BY DEF BiAppInit
<1>2. [BiAppNext]_biApp => [BiNext]_biVars
  BY DEF BiAppNext, SyncMoves, ReadersMove, LeadsMove, ExportMoves, biApp, biVars
<1> QED
  BY <1>1, <1>2, PTL DEF FairBiAppSpec, BiSpec

-----------------------------------------------------------------------------
(* Places in a list *)

(* The keys of the members of a list are lists of n numbers, of which the  *)
(* last is another for every member.                                       *)
Rank(keys, n) ==
  /\ n \in Nat \ {0} /\ IsFiniteSet(DOMAIN keys)
  /\ \A c \in DOMAIN keys : keys[c] \in [1..n -> Int]
  /\ \A c, d \in DOMAIN keys : c # d => keys[c][n] # keys[d][n]

LEMMA NoneBeforeItself ==
  ASSUME NEW n \in Nat, NEW a \in [1..n -> Int]
  PROVE  ~Precedes(a, a)
BY DEF Precedes

LEMMA PrecedesChains ==
  ASSUME NEW n \in Nat, NEW a \in [1..n -> Int], NEW b \in [1..n -> Int],
         NEW c \in [1..n -> Int], Precedes(a, b), Precedes(b, c)
  PROVE  Precedes(a, c)
<1>1. PICK i \in 1..n : a[i] > b[i] /\ \A j \in 1..i - 1 : a[j] = b[j]
  BY DEF Precedes
<1>2. PICK k \in 1..n : b[k] > c[k] /\ \A j \in 1..k - 1 : b[j] = c[j]
  BY DEF Precedes
<1>3. /\ i \in 1..n /\ k \in 1..n /\ a[i] \in Int /\ b[i] \in Int /\ c[i] \in Int
      /\ a[k] \in Int /\ b[k] \in Int /\ c[k] \in Int
  OBVIOUS
<1>4. CASE i <= k
  <2>1. a[i] > c[i]
    BY <1>1, <1>2, <1>3, <1>4
  <2>2. \A j \in 1..i - 1 : a[j] = c[j]
    BY <1>1, <1>2, <1>3, <1>4
  <2> QED
    BY <1>3, <2>1, <2>2 DEF Precedes
<1>5. CASE k < i
  <2>1. a[k] > c[k]
    BY <1>1, <1>2, <1>3, <1>5
  <2>2. \A j \in 1..k - 1 : a[j] = c[j]
    BY <1>1, <1>2, <1>3, <1>5
  <2> QED
    BY <1>3, <2>1, <2>2 DEF Precedes
<1> QED
  BY <1>3, <1>4, <1>5

LEMMA OnePrecedes ==
  ASSUME NEW n \in Nat, NEW a \in [1..n -> Int], NEW b \in [1..n -> Int], a # b
  PROVE  Precedes(a, b) \/ Precedes(b, a)
<1> DEFINE N == {i \in 1..n : a[i] # b[i]}
<1>1. N \in SUBSET Nat /\ N # {}
  OBVIOUS
<1>2. PICK i \in N : \A j \in N : ~(<<j, i>> \in OpToRel(<, Nat))
  BY <1>1, NatLessThanWellFounded, WFMin
<1>3. \A j \in N : ~(j < i)
  BY <1>1, <1>2 DEF OpToRel
<1>4. i \in 1..n /\ a[i] # b[i] /\ a[i] \in Int /\ b[i] \in Int
  OBVIOUS
<1>5. \A j \in 1..i - 1 : a[j] = b[j]
  BY <1>3, <1>4
<1> QED
  BY <1>4, <1>5 DEF Precedes

LEMMA PlacesDiffer ==
  ASSUME NEW keys, NEW n, Rank(keys, n), NEW c \in DOMAIN keys, NEW d \in DOMAIN keys,
         Precedes(keys[c], keys[d])
  PROVE  PlaceOf(c, keys) < PlaceOf(d, keys)
<1> DEFINE before(x) == {y \in DOMAIN keys : Precedes(keys[y], keys[x])}
<1>1. /\ n \in Nat /\ IsFiniteSet(DOMAIN keys)
      /\ \A x \in DOMAIN keys : keys[x] \in [1..n -> Int]
  BY DEF Rank
<1>2. before(c) \subseteq before(d)
  BY <1>1, PrecedesChains
<1>3. c \in before(d) /\ c \notin before(c)
  BY <1>1, NoneBeforeItself
<1>4. IsFiniteSet(before(d)) /\ IsFiniteSet(before(c))
  BY <1>1, FS_Subset
<1>5. before(c) # before(d)
  BY <1>3
<1> HIDE DEF before
<1>6. Cardinality(before(c)) <= Cardinality(before(d))
  BY <1>2, <1>4, FS_Subset
<1>7. Cardinality(before(c)) # Cardinality(before(d))
  BY <1>2, <1>4, <1>5, FS_Subset
<1>8. Cardinality(before(c)) \in Nat /\ Cardinality(before(d)) \in Nat
  BY <1>4, FS_CardinalityType
<1>9. Cardinality(before(c)) < Cardinality(before(d))
  BY <1>6, <1>7, <1>8
<1> QED
  BY <1>9 DEF PlaceOf, before

Places(keys) == [c \in DOMAIN keys |-> PlaceOf(c, keys)]
Spots(keys) == 0..Cardinality(DOMAIN keys) - 1

(* The members of a list have the places from the first to the last, each  *)
(* one of them.                                                            *)
LEMMA PlacesAreAll ==
  ASSUME NEW keys, NEW n, Rank(keys, n)
  PROVE  /\ Cardinality(DOMAIN keys) \in Nat
         /\ Places(keys) \in Bijection(DOMAIN keys, Spots(keys))
<1> DEFINE N == Cardinality(DOMAIN keys)
<1>1. /\ n \in Nat \ {0} /\ IsFiniteSet(DOMAIN keys)
      /\ \A x \in DOMAIN keys : keys[x] \in [1..n -> Int]
      /\ \A x, y \in DOMAIN keys : x # y => keys[x][n] # keys[y][n]
  BY DEF Rank
<1>2. N \in Nat
  BY <1>1, FS_CardinalityType
<1>3. ASSUME NEW c \in DOMAIN keys PROVE PlaceOf(c, keys) \in 0..N - 1
  <2> DEFINE before == {y \in DOMAIN keys : Precedes(keys[y], keys[c])}
  <2>1. before \in SUBSET DOMAIN keys /\ c \notin before
    BY <1>1, NoneBeforeItself
  <2>2. before # DOMAIN keys
    BY <2>1
  <2> HIDE DEF before
  <2>3. /\ Cardinality(before) <= N /\ IsFiniteSet(before)
        /\ N = Cardinality(before) => DOMAIN keys = before
    BY <1>1, <2>1, FS_Subset
  <2>4. Cardinality(before) \in Nat
    BY <2>3, FS_CardinalityType
  <2>5. Cardinality(before) \in 0..N - 1
    BY <1>2, <2>2, <2>3, <2>4
  <2> QED
    BY <2>5 DEF PlaceOf, before
<1>4. ASSUME NEW c \in DOMAIN keys, NEW d \in DOMAIN keys, c # d
      PROVE  PlaceOf(c, keys) # PlaceOf(d, keys)
  <2>1. keys[c] # keys[d]
    BY <1>1, <1>4
  <2>2. Precedes(keys[c], keys[d]) \/ Precedes(keys[d], keys[c])
    BY <1>1, <2>1, OnePrecedes
  <2>3. PlaceOf(c, keys) < PlaceOf(d, keys) \/ PlaceOf(d, keys) < PlaceOf(c, keys)
    BY <2>2, PlacesDiffer
  <2>4. PlaceOf(c, keys) \in Int /\ PlaceOf(d, keys) \in Int
    BY <1>3
  <2> QED
    BY <2>3, <2>4
<1> DEFINE P == Places(keys)  T == Spots(keys)
<1>5. P \in [DOMAIN keys -> T]
  BY <1>3 DEF Places, Spots
<1>6. \A c, d \in DOMAIN keys : P[c] = P[d] => c = d
  BY <1>4 DEF Places
<1>7. P \in Injection(DOMAIN keys, T)
  BY <1>5, <1>6 DEF Injection, IsInjective
<1>8. IsFiniteSet(T) /\ Cardinality(T) = N
  BY <1>2, FS_Interval DEF Spots
<1> HIDE DEF P, T
<1>9. P \in Surjection(DOMAIN keys, T)
  BY <1>1, <1>7, <1>8, FS_Injection
<1>10. P \in Bijection(DOMAIN keys, T)
  BY <1>7, <1>9 DEF Bijection
<1> QED
  BY <1>2, <1>10 DEF P, T

(* How many members a page shows, and that there are none only past the    *)
(* last.                                                                   *)
SliceIs(keys, from, size) ==
  LET N == Cardinality(DOMAIN keys)
      Q == Slice(keys, from, size)
  IN /\ Cardinality(Q) = (IF from >= N THEN 0
                          ELSE IF from + size <= N THEN size ELSE N - from)
     /\ Q # {} <=> from < N /\ size > 0

LEMMA SliceCounts ==
  ASSUME NEW keys, NEW n, Rank(keys, n), NEW from \in Nat, NEW size \in Nat
  PROVE  SliceIs(keys, from, size)
<1> DEFINE N == Cardinality(DOMAIN keys)
           Q == Slice(keys, from, size)
           last == IF from + size <= N THEN from + size - 1 ELSE N - 1
           P == Places(keys)
           R == [c \in Q |-> P[c]]
           T == from..last
<1>1. N \in Nat /\ P \in Bijection(DOMAIN keys, 0..N - 1)
  BY PlacesAreAll DEF Spots
<1>2. /\ P \in [DOMAIN keys -> 0..N - 1]
      /\ \A c, d \in DOMAIN keys : P[c] = P[d] => c = d
      /\ \A i \in 0..N - 1 : \E c \in DOMAIN keys : P[c] = i
  <2> HIDE DEF P
  <2> QED
    BY <1>1 DEF Bijection, Injection, Surjection, IsInjective
<1>3. Q = {c \in DOMAIN keys : P[c] \in from..from + size - 1}
  BY DEF Slice, Places
<1> HIDE DEF P, Q
<1>4. N \in Nat /\ last \in Int /\ last <= N - 1 /\ last <= from + size - 1
      /\ (\A i \in 0..N - 1 : i \in from..from + size - 1 <=> i \in from..last)
      /\ T \subseteq 0..N - 1
  BY <1>1
<1>5. \A c \in Q : c \in DOMAIN keys /\ P[c] \in T
  BY <1>2, <1>3, <1>4
<1>6. \A i \in T : \E c \in Q : P[c] = i
  <2> SUFFICES ASSUME NEW i \in T PROVE \E c \in Q : P[c] = i
    OBVIOUS
  <2>1. i \in 0..N - 1 /\ i \in from..from + size - 1
    BY <1>4
  <2>2. PICK c \in DOMAIN keys : P[c] = i
    BY <1>2, <2>1
  <2> QED
    BY <1>3, <2>1, <2>2
<1> HIDE DEF T
<1>7. R \in [Q -> T]
  BY <1>5
<1>8. /\ \A c, d \in Q : R[c] = R[d] => c = d
      /\ \A i \in T : \E c \in Q : R[c] = i
  BY <1>2, <1>5, <1>6
<1> HIDE DEF R
<1>9. R \in Injection(Q, T) /\ R \in Surjection(Q, T)
  BY <1>7, <1>8 DEF Injection, Surjection, IsInjective
<1> HIDE DEF last
<1>10. IsFiniteSet(T) /\ Cardinality(T) = IF from > last THEN 0 ELSE last - from + 1
  <2>1. from \in Int /\ last \in Int
    BY <1>4
  <2> QED
    BY <2>1, FS_Interval DEF T
<1>11. IsFiniteSet(Q) /\ Cardinality(Q) = Cardinality(T)
  BY <1>9, <1>10, FS_Injection
<1>12. Cardinality(Q) = (IF from >= N THEN 0 ELSE IF from + size <= N THEN size ELSE N - from)
  BY <1>4, <1>10, <1>11 DEF last
<1>13. Cardinality(Q) = 0 <=> Q = {}
  BY <1>11, FS_EmptySet
<1>14. Q # {} <=> from < N /\ size > 0
  BY <1>1, <1>12, <1>13
<1> QED
  BY <1>12, <1>14 DEF Q, SliceIs

-----------------------------------------------------------------------------
(* Pages of a list *)

(* A page shows a slice of the list after its top, and says whether it has *)
(* shown less than there is.                                               *)
PageOf(keys, top, size, n, p) ==
  LET N == Cardinality(DOMAIN keys)
  IN /\ p.top = Slice(keys, 0, top)
     /\ p.queue = Slice(keys, top + (n - 1) * size, size)
     /\ p.hasMore <=> (n - 1) * size + Cardinality(p.queue) < MaxOf2(N - top, 0)

LEMMA TimesOrder ==
  ASSUME NEW size \in Nat, NEW m \in Nat, NEW n \in Nat, m < n
  PROVE  /\ m * size \in Nat /\ n * size \in Nat
         /\ m * size + size <= n * size
         /\ (m + 1) * size = m * size + size
<1>1. PICK k \in Nat : n = m + 1 + k
  <2>1. n - m - 1 \in Nat /\ n = m + 1 + (n - m - 1)
    OBVIOUS
  <2> QED
    BY <2>1
<1>2. n * size = m * size + size + k * size
  BY <1>1
<1>3. k * size \in Nat /\ m * size \in Nat /\ n * size \in Nat
  OBVIOUS
<1>4. (m + 1) * size = m * size + size
  OBVIOUS
<1> QED
  BY <1>2, <1>3, <1>4

(* The page some place is on.                                              *)
LEMMA PageExists ==
  ASSUME NEW size \in Nat \ {0}, NEW x \in Nat
  PROVE  \E k \in 0..x : x \in k * size..k * size + size - 1
<1> DEFINE k == x \div size
<1>1. k \in Nat /\ x = size * k + (x % size) /\ x % size \in 0..size - 1
  OBVIOUS
<1>2. k <= size * k
  BY <1>1
<1>3. k * size = size * k /\ size * k \in Nat
  BY <1>1
<1> HIDE DEF k
<1>4. k \in 0..x /\ x \in k * size..k * size + size - 1
  BY <1>1, <1>2, <1>3
<1> QED
  BY <1>4

LEMMA PagesShowAll ==
  ASSUME NEW keys, NEW n, Rank(keys, n), NEW top \in Nat, NEW size \in Nat \ {0},
         NEW M \in Nat, Cardinality(DOMAIN keys) < M,
         NEW page, DOMAIN page = 1..M, Len(page) = M,
         \A i \in 1..M : PageOf(keys, top, size, i, page[i])
  PROVE  PagedOnce(DOMAIN keys, page)
<1> DEFINE N == Cardinality(DOMAIN keys)
           start(i) == top + (i - 1) * size
<1>1. N \in Nat /\ \A c \in DOMAIN keys : PlaceOf(c, keys) \in 0..N - 1
  <2>1. N \in Nat /\ Places(keys) \in [DOMAIN keys -> 0..N - 1]
    BY PlacesAreAll DEF Bijection, Injection, Spots
  <2> QED
    BY <2>1 DEF Places
<1>2. \A i \in 1..M :
        /\ page[i].top = {c \in DOMAIN keys : PlaceOf(c, keys) \in 0..top - 1}
        /\ page[i].queue = {c \in DOMAIN keys : PlaceOf(c, keys) \in start(i)..start(i) + size - 1}
        /\ page[i].queue = Slice(keys, start(i), size)
        /\ page[i].hasMore <=> (i - 1) * size + Cardinality(page[i].queue) < MaxOf2(N - top, 0)
  BY DEF PageOf, Slice
<1>3. \A i \in 1..M : /\ (i - 1) * size \in Nat /\ start(i) \in Nat
                      /\ start(i + 1) = start(i) + size
  <2> SUFFICES ASSUME NEW i \in 1..M PROVE /\ (i - 1) * size \in Nat
                                           /\ i * size = (i - 1) * size + size
    OBVIOUS
  <2>1. PICK m \in Nat : m = i - 1
    OBVIOUS
  <2>2. m * size \in Nat /\ (m + 1) * size = m * size + size
    BY TimesOrder
  <2>3. i = m + 1
    BY <2>1
  <2> QED
    BY <2>1, <2>2, <2>3
<1>4. \A i \in 1..M, k \in 1..M : k < i => start(k) + size <= start(i)
  <2> SUFFICES ASSUME NEW i \in 1..M, NEW k \in 1..M, k < i
               PROVE  start(k) + size <= start(i)
    OBVIOUS
  <2>1. PICK a \in Nat, b \in Nat : a = k - 1 /\ b = i - 1
    OBVIOUS
  <2>2. a * size \in Nat /\ b * size \in Nat /\ a * size + size <= b * size
    BY <2>1, TimesOrder
  <2> QED
    BY <2>1, <2>2
<1>5. \A c \in DOMAIN keys : \E i \in 1..M : c \in page[i].top \cup page[i].queue
  <2> SUFFICES ASSUME NEW c \in DOMAIN keys
               PROVE  \E i \in 1..M : c \in page[i].top \cup page[i].queue
    OBVIOUS
  <2>0. PICK p \in 0..N - 1 : p = PlaceOf(c, keys)
    BY <1>1
  <2>1. CASE p < top
    <3>1. p \in 0..top - 1 /\ 1 \in 1..M
      BY <1>1, <2>1
    <3> QED
      BY <1>2, <2>0, <3>1
  <2>2. CASE p >= top
    <3>1. PICK x \in Nat : x = p - top
      BY <2>2
    <3>2. PICK k \in 0..x : x \in k * size..k * size + size - 1
      BY PageExists
    <3>3. PICK i \in 1..M : i - 1 = k
      <4>1. k + 1 \in 1..M /\ (k + 1) - 1 = k
        BY <1>1, <3>1
      <4> QED
        BY <4>1
    <3>4. start(i) = top + k * size /\ k * size \in Int
      BY <1>3, <3>3
    <3>5. p \in start(i)..start(i) + size - 1
      BY <3>1, <3>2, <3>4
    <3> QED
      BY <1>2, <2>0, <3>5
  <2> QED
    BY <2>1, <2>2
<1>6. UNION {page[i].top \cup page[i].queue : i \in DOMAIN page} = DOMAIN keys
  <2>1. \A i \in 1..M : page[i].top \cup page[i].queue \subseteq DOMAIN keys
    BY <1>2
  <2> QED
    BY <1>5, <2>1
<1>7. ASSUME NEW i \in 1..Len(page) - 1
      PROVE  /\ page[i].hasMore <=> page[i + 1].queue # {}
             /\ page[i].top \cap page[i].queue = {}
             /\ \A m \in 1..i - 1 : page[i].queue \cap page[m].queue = {}
  <2>1. i \in 1..M /\ i + 1 \in 1..M
    OBVIOUS
  <2>2. PICK b \in Nat, s \in Nat : b = (i - 1) * size /\ s = start(i)
    BY <1>3, <2>1
  <2>3. s = top + b /\ start(i + 1) = s + size
    BY <1>3, <2>1, <2>2
  <2>4. Cardinality(page[i].queue) = (IF s >= N THEN 0 ELSE IF s + size <= N THEN size ELSE N - s)
    <3>1. SliceIs(keys, s, size) /\ page[i].queue = Slice(keys, s, size)
      BY <1>2, <2>1, <2>2, SliceCounts
    <3> QED
      BY <3>1 DEF SliceIs
  <2>5. page[i + 1].queue # {} <=> s + size < N
    <3>1. PICK u \in Nat : u = s + size
      OBVIOUS
    <3>2. SliceIs(keys, u, size) /\ page[i + 1].queue = Slice(keys, u, size)
      BY <1>2, <2>1, <2>3, <3>1, SliceCounts
    <3> QED
      BY <3>1, <3>2 DEF SliceIs
  <2>6. page[i].hasMore <=> b + Cardinality(page[i].queue) < MaxOf2(N - top, 0)
    BY <1>2, <2>1, <2>2
  <2>7. page[i].hasMore <=> page[i + 1].queue # {}
    BY <1>1, <2>3, <2>4, <2>5, <2>6 DEF MaxOf2
  <2>8. page[i].top \cap page[i].queue = {}
    <3>1. \A x \in Int : ~(x \in 0..top - 1 /\ x \in s..s + size - 1)
      BY <2>3
    <3> SUFFICES ASSUME NEW c \in page[i].top, c \in page[i].queue PROVE FALSE
      OBVIOUS
    <3>2. c \in DOMAIN keys /\ PlaceOf(c, keys) \in 0..top - 1
      BY <1>2, <2>1
    <3>3. PlaceOf(c, keys) \in s..s + size - 1
      BY <1>2, <2>1, <2>2
    <3> QED
      BY <3>1, <3>2, <3>3
  <2>9. ASSUME NEW m \in 1..i - 1 PROVE page[i].queue \cap page[m].queue = {}
    <3>1. m \in 1..M /\ m < i
      BY <2>1
    <3>2. PICK r \in Nat : r = start(m)
      BY <1>3, <3>1
    <3>3. r + size <= s
      BY <1>4, <2>1, <2>2, <3>1, <3>2
    <3>4. \A x \in Int : ~(x \in r..r + size - 1 /\ x \in s..s + size - 1)
      BY <3>3
    <3> SUFFICES ASSUME NEW c \in page[i].queue, c \in page[m].queue PROVE FALSE
      OBVIOUS
    <3>5. PlaceOf(c, keys) \in s..s + size - 1
      BY <1>2, <2>1, <2>2
    <3>6. PlaceOf(c, keys) \in r..r + size - 1
      BY <1>2, <3>1, <3>2
    <3>7. PlaceOf(c, keys) \in Int
      BY <3>5
    <3> QED
      BY <3>4, <3>5, <3>6, <3>7
  <2> QED
    BY <2>7, <2>8, <2>9
<1> QED
  BY <1>6, <1>7 DEF PagedOnce

-----------------------------------------------------------------------------
(* A finite set of numbers has a greatest and a smallest.                  *)
LEMMA ExtremesExist ==
  ASSUME NEW S \in SUBSET Int, IsFiniteSet(S), S # {}
  PROVE  /\ Max(S) \in S /\ \A y \in S : Max(S) >= y
         /\ Min(S) \in S /\ \A y \in S : Min(S) <= y
<1> DEFINE Has(U) == /\ \E x \in U : \A y \in U : x >= y
                     /\ \E x \in U : \A y \in U : x <= y
           G == {U \in SUBSET S : U = {} \/ Has(U)}
<1>1. {} \in G
  OBVIOUS
<1>2. ASSUME NEW U \in SUBSET S, NEW x \in U, U \ {x} \in G PROVE U \in G
  <2>1. CASE U \ {x} = {}
    <3>1. U = {x} /\ x \in Int
      BY <2>1
    <3>2. Has({x})
      BY <3>1
    <3> QED
      BY <3>1, <3>2
  <2>2. CASE Has(U \ {x})
    <3>1. PICK h \in U \ {x} : \A y \in U \ {x} : h >= y
      BY <2>2
    <3>2. PICK l \in U \ {x} : \A y \in U \ {x} : l <= y
      BY <2>2
    <3>3. h \in Int /\ l \in Int /\ x \in Int /\ \A y \in U : y \in Int
      OBVIOUS
    <3>4. \E m \in U : \A y \in U : m >= y
      <4>1. CASE h >= x
        BY <3>1, <3>3, <4>1
      <4>2. CASE x > h
        <5>1. \A y \in U : x >= y
          BY <3>1, <3>3, <4>2
        <5> QED
          BY <5>1
      <4> QED
        BY <3>3, <4>1, <4>2
    <3>5. \E m \in U : \A y \in U : m <= y
      <4>1. CASE l <= x
        BY <3>2, <3>3, <4>1
      <4>2. CASE x < l
        <5>1. \A y \in U : x <= y
          BY <3>2, <3>3, <4>2
        <5> QED
          BY <5>1
      <4> QED
        BY <3>3, <4>1, <4>2
    <3> QED
      BY <3>4, <3>5
  <2> QED
    BY <1>2, <2>1, <2>2
<1> HIDE DEF G
<1>3. S \in G
  BY <1>1, <1>2, GrowingSets
<1>4. Has(S)
  BY <1>3 DEF G
<1> QED
  BY <1>4 DEF Max, Min

-----------------------------------------------------------------------------
(* The mirror of the orders *)

RowNumbers(row) == row.total \in Int /\ row.day \in Int /\ row.net \subseteq Int
MirrorInv ==
  /\ focus \in Parts /\ MirrorTypeOK /\ HistoryIsCurrent
  /\ \A o \in DOMAIN book : RowNumbers(book[o])

LEMMA RowIsNumbers ==
  ASSUME NEW o \in BookOrders, NEW v \in DOMAIN Versions[o], NEW kind, NEW created
  PROVE  RowNumbers(RowOf(Versions[o][v], kind, created))
<1> DEFINE p == Versions[o][v]
<1>1. {p.total, p.updated} \cup p.net \cup p.issued \cup p.created \subseteq Int
  BY VersionsTyped DEF SentOrder, Amount
<1> HIDE DEF p
<1>2. NetTotal(p) \subseteq Int
  BY <1>1 DEF NetTotal, Coalesce
<1>3. ValueOr(Coalesce(p.issued, p.created), p.updated) \in Int
  BY <1>1 DEF ValueOr, Coalesce, The
<1> QED
  BY <1>1, <1>2, <1>3 DEF RowNumbers, RowOf, p

LEMMA StoreKeepsMirror ==
  ASSUME MirrorInv, NEW o \in BookOrders, NEW v \in DOMAIN Versions[o],
         StoreOrder(o, Versions[o][v]), UNCHANGED focus
  PROVE  MirrorInv'
<1>1. PICK row : /\ \E kind, created : row = RowOf(Versions[o][v], kind, created)
                 /\ book' = [x \in DOMAIN book \cup {o} |-> IF x = o THEN row ELSE book[x]]
                 /\ observed' = observe_cart(o, row)
                 /\ today' = today
  BY DEF StoreOrder
<1>2. RowNumbers(row)
  BY <1>1, RowIsNumbers
<1>3. /\ DOMAIN book' = DOMAIN book \cup {o} /\ book'[o] = row
      /\ \A x \in DOMAIN book : x # o => book'[x] = book[x]
  BY <1>1
<1>4. /\ observed \subseteq observed'
      /\ \A seen \in observed' : seen \in observed \/ seen = Fingerprint(o, row)
      /\ (row.b2b # {} \/ \E seen \in observed : seen.order = o) => Fingerprint(o, row) \in observed'
  BY <1>1 DEF observe_cart
<1>5. Fingerprint(o, row).order = o
  BY DEF Fingerprint
<1>6. (\E seen \in observed' : seen.order = o) => Fingerprint(o, row) \in observed'
  BY <1>4
<1>7. MirrorTypeOK'
  BY <1>1, <1>3, <1>4, <1>5 DEF MirrorInv, MirrorTypeOK
<1>8. ASSUME NEW x \in DOMAIN book',
             book'[x].b2b # {} \/ \E seen \in observed' : seen.order = x
      PROVE  Fingerprint(x, book'[x]) \in observed'
  <2>1. CASE x = o
    BY <1>3, <1>4, <1>6, <1>8, <2>1
  <2>2. CASE x # o
    <3>1. x \in DOMAIN book /\ book'[x] = book[x]
      BY <1>3, <2>2
    <3>2. (\E seen \in observed' : seen.order = x) => \E seen \in observed : seen.order = x
      BY <1>4, <1>5, <2>2
    <3>3. Fingerprint(x, book[x]) \in observed
      BY <1>8, <3>1, <3>2 DEF MirrorInv, HistoryIsCurrent
    <3> QED
      BY <1>4, <3>1, <3>3
  <2> QED
    BY <2>1, <2>2
<1>9. HistoryIsCurrent'
  BY <1>8 DEF HistoryIsCurrent
<1> QED
  BY <1>2, <1>3, <1>7, <1>9 DEF MirrorInv

LEMMA MirrorStays ==
  ASSUME MirrorInv, [BiAppNext]_biApp
  PROVE  MirrorInv'
<1>0. UNCHANGED focus
  BY DEF BiAppNext, SyncMoves, ReadersMove, LeadsMove, ExportMoves, biApp
<1>1. CASE UNCHANGED mirrorTables
  BY <1>0, <1>1 DEF MirrorInv, MirrorTypeOK, HistoryIsCurrent, mirrorTables
<1>2. CASE MirrorMoves
  <2>1. CASE DayPasses
    BY <1>0, <2>1, MirrorConstants DEF DayPasses, MirrorInv, MirrorTypeOK, HistoryIsCurrent
  <2>2. ASSUME NEW o \in DOMAIN Seen[focus], NEW v \in Seen[focus][o],
               StoreOrder(o, Versions[o][v])
        PROVE  MirrorInv'
    <3>1. o \in BookOrders /\ v \in DOMAIN Versions[o]
      BY <2>2, SeenIsSent DEF MirrorInv
    <3> QED
      BY <1>0, <2>2, <3>1, StoreKeepsMirror
  <2> QED
    BY <1>2, <2>1, <2>2 DEF MirrorMoves
<1> QED
  BY <1>1, <1>2 DEF BiAppNext, SyncMoves, ReadersMove, LeadsMove, ExportMoves, MirrorMovesOn, biApp,
                    mirrorTables

(* Whatever pages of orders arrive and days pass, the history of a cart     *)
(* ends with what its order is in the mirror now: an order that was seen as *)
(* a cart has its present fingerprint among the observations                *)
(* (b2b_carts.py, observe_cart).                                            *)
THEOREM CartHistoriesAreCurrent == FairBiAppSpec => [](MirrorTypeOK /\ HistoryIsCurrent)
<1>1. BiAppInit => MirrorInv
  BY MirrorConstants DEF BiAppInit, MirrorInit, MirrorInv, MirrorTypeOK, HistoryIsCurrent
<1>2. MirrorInv /\ [BiAppNext]_biApp => MirrorInv'
  BY MirrorStays
<1>3. MirrorInv => MirrorTypeOK /\ HistoryIsCurrent
  BY DEF MirrorInv
<1> QED
  BY <1>1, <1>2, <1>3, PTL DEF FairBiAppSpec

-----------------------------------------------------------------------------
(* What a customer bought, in numbers *)

HeuristicIsANumber ==
  \A revenue, orders, days \in Int : HeuristicScore(revenue, orders, days) \in Int

NumbersOf(c) ==
  /\ OrderStats(c).revenue \in Int /\ OrderStats(c).daysSince \in Int
  /\ OrderStats(c).orders \in Int /\ Potential(c) \in Int

LEMMA BoughtFinite ==
  ASSUME MirrorInv, NEW c
  PROVE  /\ IsFiniteSet(BoughtBy(c)) /\ BoughtBy(c) \subseteq DOMAIN book
         /\ \A o \in BoughtBy(c) : HeaderRevenue(o) \in Int
<1>1. BoughtBy(c) \subseteq DOMAIN book
  BY DEF BoughtBy, SoldSince, Since, OfStatus
<1>2. IsFiniteSet(BoughtBy(c))
  BY <1>1, FS_Subset, MirrorConstants DEF MirrorInv, MirrorTypeOK
<1>3. \A o \in DOMAIN book : HeaderRevenue(o) \in Int
  BY DEF MirrorInv, RowNumbers, HeaderRevenue, ValueOr, The
<1> QED
  BY <1>1, <1>2, <1>3

LEMMA StatsAreNumbers ==
  ASSUME MirrorInv, HeuristicIsANumber, NEW c, BoughtBy(c) # {}
  PROVE  NumbersOf(c)
<1> DEFINE S == BoughtBy(c)
           days == {book[o].day : o \in S}
<1>1. /\ IsFiniteSet(S) /\ S \subseteq DOMAIN book
      /\ \A o \in S : HeaderRevenue(o) \in Int
  BY BoughtFinite
<1>2. \A o \in S : book[o].day \in Int
  BY <1>1 DEF MirrorInv, RowNumbers
<1>3. days \in SUBSET Int /\ days # {}
  BY <1>2
<1>4. IsFiniteSet(days)
  <2>1. PICK f : f = [o \in S |-> book[o].day]
    OBVIOUS
  <2> HIDE DEF S
  <2>2. f \in Surjection(S, days)
    BY <2>1 DEF Surjection
  <2> QED
    BY <1>1, <2>2, FS_Surjection
<1> HIDE DEF days
<1>5. Max(days) \in Int
  BY <1>3, <1>4, ExtremesExist
<1>6. today \in Int
  BY MirrorConstants DEF MirrorInv, MirrorTypeOK
<1>7. Cardinality(S) \in Int
  BY <1>1, FS_CardinalityType
<1>8. SumOver(S, HeaderRevenue) \in Int
  <2>1. [o \in S |-> HeaderRevenue(o)] \in [S -> Int]
    BY <1>1
  <2> QED
    BY <1>1, <2>1, SumTyped DEF SumOver
<1>9. /\ OrderStats(c).orders = Cardinality(S)
      /\ OrderStats(c).revenue = SumOver(S, HeaderRevenue)
      /\ OrderStats(c).daysSince = today - Max(days)
  BY DEF OrderStats, days
<1>10. /\ OrderStats(c).revenue \in Int /\ OrderStats(c).daysSince \in Int
       /\ OrderStats(c).orders \in Int
  BY <1>5, <1>6, <1>7, <1>8, <1>9
<1>11. Potential(c) \in Int
  BY <1>10 DEF Potential, HeuristicIsANumber
<1> QED
  BY <1>10, <1>11 DEF NumbersOf

-----------------------------------------------------------------------------
(* Attendances and the requests on them *)

Sellers == Staff \cup UNION {decision.seller : decision \in Decisions}
Outcomes == {decision.outcome : decision \in Decisions}
AttendanceRows ==
  [status : {"open", "in_progress", "finished"}, seller : SUBSET Sellers,
   claimed : SUBSET Nat, finished : SUBSET Nat, outcome : SUBSET Outcomes,
   sale : SUBSET Int, score : SUBSET Int, scoredAt : SUBSET Nat]

(* What a request on row read is about to write.                           *)
ClaimOf(read, write) ==
  /\ write.status = "in_progress" /\ write.claimed # {}
  /\ write.finished = read.finished /\ write.outcome = read.outcome
FinishOf(write) ==
  /\ write.status = "finished" /\ write.claimed # {}
  /\ write.finished # {} /\ write.outcome # {}

(* What was known of the lead when it was read is known still.             *)
StillKnown(c, read) ==
  /\ (read.claimed # {} \/ read.finished # {} \/ read.outcome # {}) => c \in DOMAIN attended
  /\ c \in DOMAIN attended =>
       /\ read.claimed # {} => attended[c].claimed # {}
       /\ read.finished # {} => attended[c].finished # {}
       /\ read.outcome # {} => attended[c].outcome # {}

AttendFits(x) ==
  /\ x.doing = "attend" /\ x.lead \in DOMAIN CustomerTable
  /\ x.read \in AttendanceRows /\ x.write \in AttendanceRows
  /\ x.read.status \in {"open", "in_progress"}
  /\ ClaimOf(x.read, x.write) \/ FinishOf(x.write)
  /\ StillKnown(x.lead, x.read)

ScoreFits(x) ==
  /\ x.doing = "score" /\ x.potential \in [DOMAIN x.potential -> Int]
  /\ DOMAIN x.potential \in SUBSET DOMAIN CustomerTable /\ DOMAIN x.potential # {}

DeskFits(x) == x = Idle \/ AttendFits(x) \/ ScoreFits(x)

CrmInv ==
  /\ DOMAIN attended \in SUBSET DOMAIN CustomerTable
  /\ \A c \in DOMAIN attended : attended[c] \in AttendanceRows
  /\ StoryIsWhole
  /\ DOMAIN desk = Desks /\ \A d \in Desks : DeskFits(desk[d])

LEMMA OpenRowTyped == OpenRow \in AttendanceRows
BY DEF OpenRow, AttendanceRows

LEMMA WritesFit ==
  ASSUME NEW row \in AttendanceRows, NEW day \in Nat
  PROVE  /\ \A seller \in Staff : /\ ClaimedRow(row, seller, day) \in AttendanceRows
                                  /\ ClaimOf(row, ClaimedRow(row, seller, day))
         /\ \A decision \in Decisions : /\ FinishedRow(row, decision, day) \in AttendanceRows
                                        /\ FinishOf(FinishedRow(row, decision, day))
<1>1. ASSUME NEW seller \in Staff
      PROVE  /\ ClaimedRow(row, seller, day) \in AttendanceRows
             /\ ClaimOf(row, ClaimedRow(row, seller, day))
  <2>1. seller \in Sellers
    BY DEF Sellers
  <2>2. Coalesce(row.claimed, {day}) \in SUBSET Nat /\ Coalesce(row.claimed, {day}) # {}
    BY DEF Coalesce, AttendanceRows
  <2> QED
    BY <2>1, <2>2 DEF ClaimedRow, AttendanceRows, ClaimOf
<1>2. ASSUME NEW decision \in Decisions
      PROVE  /\ FinishedRow(row, decision, day) \in AttendanceRows
             /\ FinishOf(FinishedRow(row, decision, day))
  <2>1. decision.seller \subseteq Sellers /\ decision.outcome \in Outcomes /\ decision.sale \in Int
    BY AnswersTyped DEF Sellers, Outcomes
  <2>2. /\ Coalesce(row.claimed, {day}) \in SUBSET Nat /\ Coalesce(row.claimed, {day}) # {}
        /\ Coalesce(decision.seller, row.seller) \in SUBSET Sellers
    BY <2>1 DEF Coalesce, AttendanceRows
  <2>3. (IF decision.outcome = "won" THEN {decision.sale} ELSE {}) \in SUBSET Int
    BY <2>1
  <2> QED
    BY <2>1, <2>2, <2>3 DEF FinishedRow, AttendanceRows, FinishOf
<1> QED
  BY <1>1, <1>2

LEMMA UpdatedFits ==
  ASSUME NEW current \in AttendanceRows, NEW read \in AttendanceRows,
         NEW write \in AttendanceRows
  PROVE  LET u == Updated(current, read, write)
         IN /\ u \in AttendanceRows
            /\ u.status = IF write.status # read.status THEN write.status ELSE current.status
            /\ u.claimed = IF write.claimed # read.claimed THEN write.claimed ELSE current.claimed
            /\ u.finished =
                 IF write.finished # read.finished THEN write.finished ELSE current.finished
            /\ u.outcome = IF write.outcome # read.outcome THEN write.outcome ELSE current.outcome
<1> DEFINE u == Updated(current, read, write)
<1>1. DOMAIN current = {"status", "seller", "claimed", "finished", "outcome", "sale", "score",
                        "scoredAt"}
  BY DEF AttendanceRows
<1>2. u = [column \in DOMAIN current |->
            IF write[column] # read[column] THEN write[column] ELSE current[column]]
  BY DEF Updated
<1>3. /\ u.status = IF write.status # read.status THEN write.status ELSE current.status
      /\ u.claimed = IF write.claimed # read.claimed THEN write.claimed ELSE current.claimed
      /\ u.finished = IF write.finished # read.finished THEN write.finished ELSE current.finished
      /\ u.outcome = IF write.outcome # read.outcome THEN write.outcome ELSE current.outcome
      /\ u.seller = IF write.seller # read.seller THEN write.seller ELSE current.seller
      /\ u.sale = IF write.sale # read.sale THEN write.sale ELSE current.sale
      /\ u.score = IF write.score # read.score THEN write.score ELSE current.score
      /\ u.scoredAt = IF write.scoredAt # read.scoredAt THEN write.scoredAt ELSE current.scoredAt
  BY <1>1, <1>2
<1>4. u = [status |-> u.status, seller |-> u.seller, claimed |-> u.claimed,
           finished |-> u.finished, outcome |-> u.outcome, sale |-> u.sale, score |-> u.score,
           scoredAt |-> u.scoredAt]
  BY <1>1, <1>2
<1> HIDE DEF u
<1>5. u \in AttendanceRows
  <2>1. /\ u.status \in {"open", "in_progress", "finished"} /\ u.seller \in SUBSET Sellers
        /\ u.claimed \in SUBSET Nat /\ u.finished \in SUBSET Nat /\ u.outcome \in SUBSET Outcomes
        /\ u.sale \in SUBSET Int /\ u.score \in SUBSET Int /\ u.scoredAt \in SUBSET Nat
    BY <1>3 DEF AttendanceRows
  <2> QED
    BY <1>4, <2>1 DEF AttendanceRows
<1> QED
  BY <1>3, <1>5 DEF u

LEMMA ScoredFits ==
  ASSUME NEW row \in AttendanceRows, NEW score \in Int, NEW force, today \in Nat
  PROVE  LET r == Scored(row, score, force)
         IN /\ r \in AttendanceRows /\ r.status = row.status /\ r.claimed = row.claimed
            /\ r.finished = row.finished /\ r.outcome = row.outcome
<1>1. MaxOf2(0, IF score > 100 THEN 100 ELSE score) \in Int
  BY DEF MaxOf2
<1>2. PICK s \in SUBSET Int, on \in SUBSET Nat :
        /\ s = {MaxOf2(0, IF score > 100 THEN 100 ELSE score)} /\ on = {today}
  BY <1>1
<1>3. Scored(row, score, force) \in {row, [row EXCEPT !.score = s, !.scoredAt = on]}
  BY <1>2 DEF Scored
<1> QED
  BY <1>3 DEF AttendanceRows

LEMMA RankingsAreNumbers ==
  ASSUME NEW potential, potential \in [DOMAIN potential -> Int],
         DOMAIN potential # {}, IsFiniteSet(DOMAIN potential)
  PROVE  /\ DOMAIN heuristic_rankings(potential) = DOMAIN potential
         /\ \A c \in DOMAIN potential : heuristic_rankings(potential)[c] \in Int
<1> DEFINE S == {potential[c] : c \in DOMAIN potential}
<1>1. S \in SUBSET Int /\ S # {}
  OBVIOUS
<1>2. potential \in Surjection(DOMAIN potential, S)
  BY DEF Surjection
<1>3. IsFiniteSet(S)
  BY <1>2, FS_Surjection
<1>4. \A c \in DOMAIN potential : potential[c] \in S
  OBVIOUS
<1> HIDE DEF S
<1>5. PICK low \in Int, high \in Int :
        low = Min(S) /\ high = Max(S) /\ \A y \in S : low <= y /\ y <= high
  BY <1>1, <1>3, ExtremesExist
<1>6. low <= high
  BY <1>1, <1>4, <1>5
<1>7. \A a \in Int : low # high => Rounded(a, high - low) \in Int
  <2> SUFFICES ASSUME NEW a \in Int, low # high PROVE Rounded(a, high - low) \in Int
    OBVIOUS
  <2>1. PICK b \in Nat \ {0} : b = high - low
    BY <1>6
  <2>2. a \div b \in Int
    OBVIOUS
  <2> QED
    BY <2>1, <2>2 DEF Rounded
<1>8. heuristic_rankings(potential) =
        [c \in DOMAIN potential |->
          IF high = low THEN 50 ELSE Rounded(100 * (potential[c] - low), high - low)]
  BY <1>5 DEF heuristic_rankings, S
<1>9. ASSUME NEW c \in DOMAIN potential PROVE heuristic_rankings(potential)[c] \in Int
  <2>1. 100 * (potential[c] - low) \in Int
    BY <1>1, <1>4
  <2> QED
    BY <1>7, <1>8, <2>1
<1> QED
  BY <1>8, <1>9

-----------------------------------------------------------------------------
(* What a commit leaves known *)

Grown ==
  \A c \in DOMAIN attended :
    /\ c \in DOMAIN attended'
    /\ attended[c].claimed # {} => attended'[c].claimed # {}
    /\ attended[c].finished # {} => attended'[c].finished # {}
    /\ attended[c].outcome # {} => attended'[c].outcome # {}

LEMMA KnownStays ==
  ASSUME Grown, NEW c, NEW read, StillKnown(c, read)
  PROVE  StillKnown(c, read)'
BY DEF Grown, StillKnown

LEMMA FitsStays ==
  ASSUME Grown, NEW x, DeskFits(x)
  PROVE  DeskFits(x)'
<1>1. CASE AttendFits(x)
  <2>1. StillKnown(x.lead, x.read)'
    BY <1>1, KnownStays DEF AttendFits
  <2> QED
    BY <1>1, <2>1 DEF AttendFits, DeskFits
<1>2. CASE ~AttendFits(x)
  BY <1>2 DEF DeskFits, ScoreFits
<1> QED
  BY <1>1, <1>2

(* A desk is emptied or takes what fits, and the others are left alone.    *)
LEMMA DesksFit ==
  ASSUME CrmInv, Grown, NEW d \in Desks, NEW x, DeskFits(x)',
         desk' = [desk EXCEPT ![d] = x]
  PROVE  DOMAIN desk' = Desks /\ \A e \in Desks : DeskFits(desk[e])'
<1>1. DOMAIN desk' = Desks /\ desk'[d] = x /\ \A e \in Desks : e # d => desk'[e] = desk[e]
  BY DEF CrmInv
<1>2. ASSUME NEW e \in Desks PROVE DeskFits(desk[e])'
  <2>1. CASE e = d
    BY <1>1, <2>1
  <2>2. CASE e # d
    <3>1. PICK y : y = desk[e] /\ DeskFits(y)
      BY DEF CrmInv
    <3>2. DeskFits(y)'
      BY <3>1, FitsStays
    <3> QED
      BY <1>1, <2>2, <3>1, <3>2
  <2> QED
    BY <2>1, <2>2
<1> QED
  BY <1>1, <1>2

LEMMA NothingLost == ASSUME UNCHANGED attended PROVE Grown
BY DEF Grown

(* A request takes a desk.                                                 *)
LEMMA ReadsKeep ==
  ASSUME CrmInv, NEW d \in Desks, NEW c \in OpenLeads, NEW row, NEW write \in AttendanceRows,
         row = IF c \in DOMAIN attended THEN attended[c] ELSE OpenRow,
         ClaimOf(row, write) \/ FinishOf(write),
         desk' = [desk EXCEPT ![d] = [doing |-> "attend", lead |-> c,
                    made |-> c \notin DOMAIN attended, read |-> row, write |-> write]],
         UNCHANGED attended
  PROVE  CrmInv'
<1>1. PICK x : x = [doing |-> "attend", lead |-> c, made |-> c \notin DOMAIN attended,
                    read |-> row, write |-> write]
  OBVIOUS
<1>2. row \in AttendanceRows /\ c \in DOMAIN CustomerTable
  BY OpenRowTyped DEF OpenLeads, CrmInv
<1>3. row.status \in {"open", "in_progress"}
  BY <1>2 DEF OpenLeads, StatusOfLead, OpenRow, AttendanceRows
<1>4. StillKnown(c, row)
  BY DEF StillKnown, OpenRow
<1>5. AttendFits(x)
  BY <1>1, <1>2, <1>3, <1>4 DEF AttendFits
<1>6. DeskFits(x)'
  BY <1>5, FitsStays, NothingLost DEF DeskFits
<1>7. DOMAIN desk' = Desks /\ \A e \in Desks : DeskFits(desk[e])'
  BY <1>1, <1>6, DesksFit, NothingLost
<1> QED
  BY <1>7 DEF CrmInv, StoryIsWhole

LEMMA LeavingKeeps ==
  ASSUME CrmInv, NEW d \in Desks, desk' = [desk EXCEPT ![d] = Idle], Grown,
         DOMAIN attended' \in SUBSET DOMAIN CustomerTable,
         \A c \in DOMAIN attended' :
           /\ attended'[c] \in AttendanceRows
           /\ attended'[c].status = "finished" =>
                /\ attended'[c].claimed # {} /\ attended'[c].finished # {}
                /\ attended'[c].outcome # {}
  PROVE  CrmInv'
<1>1. PICK x : x = Idle /\ DeskFits(x)'
  BY DEF DeskFits
<1>2. DOMAIN desk' = Desks /\ \A e \in Desks : DeskFits(desk[e])'
  BY <1>1, DesksFit
<1> QED
  BY <1>2 DEF CrmInv, StoryIsWhole

(* What a commit makes of the row of its lead.                             *)
LEMMA CommittedRow ==
  ASSUME NEW x, AttendFits(x), x.lead \in DOMAIN attended,
         attended[x.lead] \in AttendanceRows, NEW u, u = Updated(attended[x.lead], x.read, x.write),
         attended[x.lead].status = "finished" =>
           /\ attended[x.lead].claimed # {} /\ attended[x.lead].finished # {}
           /\ attended[x.lead].outcome # {}
  PROVE  /\ u \in AttendanceRows
         /\ u.claimed # {}
         /\ attended[x.lead].finished # {} => u.finished # {}
         /\ attended[x.lead].outcome # {} => u.outcome # {}
         /\ u.status = "finished" => u.finished # {} /\ u.outcome # {}
         /\ attended[x.lead].status = "finished" /\ u.status # "finished" =>
              x.read.status = "open"
<1> DEFINE current == attended[x.lead]
<1>1. /\ x.read \in AttendanceRows /\ x.write \in AttendanceRows
      /\ x.read.status \in {"open", "in_progress"}
      /\ ClaimOf(x.read, x.write) \/ FinishOf(x.write)
      /\ x.read.claimed # {} => current.claimed # {}
      /\ x.read.finished # {} => current.finished # {}
      /\ x.read.outcome # {} => current.outcome # {}
  BY DEF AttendFits, StillKnown
<1>2. PICK read \in AttendanceRows, write \in AttendanceRows : read = x.read /\ write = x.write
  BY <1>1
<1>3. /\ u \in AttendanceRows
      /\ u.status = IF write.status # read.status THEN write.status ELSE current.status
      /\ u.claimed = IF write.claimed # read.claimed THEN write.claimed ELSE current.claimed
      /\ u.finished = IF write.finished # read.finished THEN write.finished ELSE current.finished
      /\ u.outcome = IF write.outcome # read.outcome THEN write.outcome ELSE current.outcome
  BY <1>2, UpdatedFits
<1> HIDE DEF current
<1>4. CASE ClaimOf(read, write)
  BY <1>1, <1>2, <1>3, <1>4 DEF ClaimOf, current
<1>5. CASE FinishOf(write)
  BY <1>1, <1>2, <1>3, <1>5 DEF FinishOf, current
<1> QED
  BY <1>1, <1>2, <1>4, <1>5

Committed(d) ==
  /\ CrmInv'
  /\ \A c \in DOMAIN attended :
       attended[c].status = "finished" /\ attended'[c].status # "finished" =>
         desk[d].doing = "attend" /\ desk[d].lead = c /\ desk[d].read.status = "open"
         /\ desk'[d] = Idle

LEMMA CommitKeeps ==
  ASSUME CrmInv, NEW d \in Desks, Commit(d)
  PROVE  Committed(d)
<1>1. PICK x : x = desk[d]
  OBVIOUS
<1>2. AttendFits(x) /\ desk' = [desk EXCEPT ![d] = Idle] /\ desk'[d] = Idle
  BY <1>1 DEF Commit, CrmInv, DeskFits, ScoreFits, Idle
<1>3. PICK c \in DOMAIN CustomerTable : c = x.lead
  BY <1>2 DEF AttendFits
<1>4. x.write \in AttendanceRows
      /\ (x.write.status = "finished" => x.write.claimed # {} /\ x.write.finished # {}
                                         /\ x.write.outcome # {})
  BY <1>2 DEF AttendFits, ClaimOf, FinishOf
<1>5. CASE c \notin DOMAIN attended
  <2>1. attended' = WithRows([y \in {c} |-> x.write])
    BY <1>1, <1>3, <1>5 DEF Commit
  <2>2. /\ DOMAIN attended' = DOMAIN attended \cup {c} /\ attended'[c] = x.write
        /\ \A y \in DOMAIN attended : attended'[y] = attended[y]
    BY <1>5, <2>1 DEF WithRows
  <2>3. Grown
    BY <2>2 DEF Grown
  <2>4. CrmInv'
    BY <1>2, <1>4, <2>2, <2>3, LeavingKeeps DEF CrmInv, StoryIsWhole
  <2> QED
    BY <2>2, <2>4 DEF Committed
<1>6. CASE c \in DOMAIN attended /\ x.made
  <2>1. attended' = attended
    BY <1>1, <1>3, <1>6 DEF Commit
  <2>2. CrmInv'
    BY <1>2, <2>1, LeavingKeeps, NothingLost DEF CrmInv, StoryIsWhole
  <2> QED
    BY <2>1, <2>2 DEF Committed
<1>7. CASE c \in DOMAIN attended /\ ~x.made
  <2>1. PICK u : u = Updated(attended[c], x.read, x.write)
    OBVIOUS
  <2>2. attended' = [attended EXCEPT ![c] = u]
    BY <1>1, <1>3, <1>7, <2>1 DEF Commit
  <2>3. /\ DOMAIN attended' = DOMAIN attended /\ attended'[c] = u
        /\ \A y \in DOMAIN attended : y # c => attended'[y] = attended[y]
    BY <1>7, <2>2
  <2>4. /\ attended[c] \in AttendanceRows
        /\ attended[c].status = "finished" =>
             /\ attended[c].claimed # {} /\ attended[c].finished # {}
             /\ attended[c].outcome # {}
    BY <1>7 DEF CrmInv, StoryIsWhole
  <2>5. /\ u \in AttendanceRows /\ u.claimed # {}
        /\ attended[c].finished # {} => u.finished # {}
        /\ attended[c].outcome # {} => u.outcome # {}
        /\ u.status = "finished" => u.finished # {} /\ u.outcome # {}
        /\ attended[c].status = "finished" /\ u.status # "finished" => x.read.status = "open"
    BY <1>2, <1>3, <1>7, <2>1, <2>4, CommittedRow
  <2>6. Grown
    BY <2>3, <2>5 DEF Grown
  <2>7. CrmInv'
    <3>1. ASSUME NEW y \in DOMAIN attended'
          PROVE  /\ attended'[y] \in AttendanceRows
                 /\ attended'[y].status = "finished" =>
                      /\ attended'[y].claimed # {} /\ attended'[y].finished # {}
                      /\ attended'[y].outcome # {}
      BY <2>3, <2>5 DEF CrmInv, StoryIsWhole
    <3>2. DOMAIN attended' \in SUBSET DOMAIN CustomerTable
      BY <2>3 DEF CrmInv
    <3> QED
      BY <1>2, <2>6, <3>1, <3>2, LeavingKeeps
  <2>8. x.doing = "attend"
    BY <1>2 DEF AttendFits
  <2>9. ASSUME NEW y \in DOMAIN attended, attended[y].status = "finished",
               attended'[y].status # "finished"
        PROVE  y = c /\ x.read.status = "open"
    BY <2>3, <2>5, <2>9
  <2> QED
    BY <1>1, <1>2, <1>3, <2>7, <2>8, <2>9 DEF Committed
<1> QED
  BY <1>5, <1>6, <1>7

(* The scores that are stored leave the story of an attendance alone.      *)
SameStory(old, new) ==
  /\ new \in AttendanceRows /\ new.status = old.status /\ new.claimed = old.claimed
  /\ new.finished = old.finished /\ new.outcome = old.outcome

ScoresStored ==
  /\ DOMAIN attended \subseteq DOMAIN attended'
  /\ DOMAIN attended' \in SUBSET DOMAIN CustomerTable
  /\ \A c \in DOMAIN attended' :
       SameStory(IF c \in DOMAIN attended THEN attended[c] ELSE OpenRow, attended'[c])

LEMMA StoreScoresKeeps ==
  ASSUME CrmInv, MirrorInv, NEW d \in Desks, NEW answer \in AiAnswers, StoreScores(d, answer)
  PROVE  Committed(d)
<1>1. PICK x : x = desk[d]
  OBVIOUS
<1>2. ScoreFits(x) /\ desk' = [desk EXCEPT ![d] = Idle]
  BY <1>1 DEF StoreScores, CrmInv, DeskFits, AttendFits, Idle
<1>3. PICK ranked : ranked = IF answer = << >> THEN heuristic_rankings(x.potential) ELSE answer
  OBVIOUS
<1>4. \A c \in DOMAIN ranked : ranked[c] \in Int
  <2>1. CASE answer = << >>
    <3>1. PICK potential : potential = x.potential
      OBVIOUS
    <3>2. /\ potential \in [DOMAIN potential -> Int] /\ DOMAIN potential # {}
          /\ DOMAIN potential \in SUBSET DOMAIN CustomerTable
      BY <1>2, <3>1 DEF ScoreFits
    <3>3. IsFiniteSet(DOMAIN potential)
      BY <3>2, CustomersTyped, FS_Subset
    <3> QED
      BY <1>3, <2>1, <3>1, <3>2, <3>3, RankingsAreNumbers
  <2>2. CASE answer # << >>
    BY <1>3, <2>2, AnswersTyped
  <2> QED
    BY <2>1, <2>2
<1> DEFINE old(c) == IF c \in DOMAIN attended THEN attended[c] ELSE OpenRow
           new == [c \in DOMAIN ranked \cap DOMAIN x.potential |->
                    Scored(old(c), ranked[c], x.force)]
<1>5. attended' = WithRows(new)
  BY <1>1, <1>3 DEF StoreScores
<1>6. today \in Nat
  BY MirrorConstants DEF MirrorInv, MirrorTypeOK
<1>7. ASSUME NEW c PROVE old(c) \in AttendanceRows
  BY OpenRowTyped DEF CrmInv
<1>8. ASSUME NEW c \in DOMAIN new PROVE SameStory(old(c), new[c])
  <2>1. PICK row \in AttendanceRows : row = old(c)
    BY <1>7
  <2>2. PICK score \in Int : score = ranked[c]
    BY <1>4
  <2>3. new[c] = Scored(row, score, x.force)
    BY <2>1, <2>2
  <2> HIDE DEF new, old
  <2> QED
    BY <1>6, <2>1, <2>2, <2>3, ScoredFits DEF SameStory
<1>9. DOMAIN new \in SUBSET DOMAIN CustomerTable
  BY <1>2 DEF ScoreFits
<1> HIDE DEF new
<1>10. /\ DOMAIN attended' = DOMAIN new \cup DOMAIN attended
       /\ \A c \in DOMAIN new : attended'[c] = new[c]
       /\ \A c \in DOMAIN attended : c \notin DOMAIN new => attended'[c] = attended[c]
  BY <1>5 DEF WithRows
<1>11. ScoresStored
  <2>1. ASSUME NEW c \in DOMAIN attended' PROVE SameStory(old(c), attended'[c])
    <3>1. CASE c \in DOMAIN new
      BY <1>8, <1>10, <3>1
    <3>2. CASE c \notin DOMAIN new
      <4>1. c \in DOMAIN attended /\ attended'[c] = attended[c]
        BY <1>10, <3>2
      <4> QED
        BY <4>1 DEF SameStory, CrmInv
    <3> QED
      BY <3>1, <3>2
  <2>2. DOMAIN attended' \in SUBSET DOMAIN CustomerTable
    BY <1>9, <1>10 DEF CrmInv
  <2> QED
    BY <1>10, <2>1, <2>2 DEF ScoresStored
<1>12. Grown
  BY <1>11 DEF ScoresStored, SameStory, Grown
<1>13. \A c \in DOMAIN attended' :
         /\ attended'[c] \in AttendanceRows
         /\ attended'[c].status = "finished" =>
              /\ attended'[c].claimed # {} /\ attended'[c].finished # {}
              /\ attended'[c].outcome # {}
  BY <1>11 DEF ScoresStored, SameStory, OpenRow, CrmInv, StoryIsWhole
<1>14. CrmInv'
  BY <1>2, <1>11, <1>12, <1>13, LeavingKeeps DEF ScoresStored
<1>15. \A c \in DOMAIN attended : attended'[c].status = attended[c].status
  BY <1>11 DEF ScoresStored, SameStory
<1> QED
  BY <1>14, <1>15 DEF Committed

LEMMA BuyersAskedAbout ==
  ASSUME NEW refresh
  PROVE  BuyersToScore(refresh) \subseteq Buyers
BY DEF BuyersToScore, Slice

LEMMA AskKeeps ==
  ASSUME CrmInv, MirrorInv, HeuristicIsANumber, NEW d \in Desks, NEW refresh,
         AskForScores(d, refresh)
  PROVE  CrmInv'
<1>1. PICK p : p = [c \in BuyersToScore(refresh) |-> Potential(c)]
  OBVIOUS
<1>2. PICK x : x = [doing |-> "score", force |-> refresh, potential |-> p]
  OBVIOUS
<1>3. desk' = [desk EXCEPT ![d] = x] /\ UNCHANGED attended /\ BuyersToScore(refresh) # {}
  BY <1>1, <1>2 DEF AskForScores
<1>4. \A c \in BuyersToScore(refresh) : c \in DOMAIN CustomerTable /\ Potential(c) \in Int
  BY BuyersAskedAbout, StatsAreNumbers DEF Buyers, OpenLeads, NumbersOf
<1>5. ScoreFits(x)
  BY <1>1, <1>2, <1>3, <1>4 DEF ScoreFits
<1>6. DeskFits(x)'
  BY <1>3, <1>5, FitsStays, NothingLost DEF DeskFits
<1>7. DOMAIN desk' = Desks /\ \A e \in Desks : DeskFits(desk[e])'
  BY <1>3, <1>6, DesksFit, NothingLost
<1> QED
  BY <1>3, <1>7 DEF CrmInv, StoryIsWhole

(* One step of the requests.                                               *)
LEMMA CrmSteps ==
  ASSUME CrmInv, MirrorInv, HeuristicIsANumber, CrmNext
  PROVE  CrmInv' /\ OnlyTheFirstClaimReopens
<1>1. today \in Nat
  BY MirrorConstants DEF MirrorInv, MirrorTypeOK
<1> DEFINE read(c) == IF c \in DOMAIN attended THEN attended[c] ELSE OpenRow
<1>2. ASSUME NEW d \in Desks, NEW c, NEW write, desk[d] = Idle, c \in OpenLeads,
             desk' = [desk EXCEPT ![d] = [doing |-> "attend", lead |-> c,
                        made |-> c \notin DOMAIN attended, read |-> read(c), write |-> write]],
             UNCHANGED attended,
             write \in AttendanceRows, ClaimOf(read(c), write) \/ FinishOf(write)
      PROVE  CrmInv' /\ OnlyTheFirstClaimReopens
  BY <1>2, ReadsKeep DEF OnlyTheFirstClaimReopens
<1>3. \A c : read(c) \in AttendanceRows
  BY OpenRowTyped DEF CrmInv
<1>4. ASSUME NEW d \in Desks, NEW c \in Attendable, NEW seller \in Staff, Claim(d, c, seller)
      PROVE  CrmInv' /\ OnlyTheFirstClaimReopens
  <2>1. PICK row \in AttendanceRows : row = read(c)
    BY <1>3
  <2>2. PICK write : write = ClaimedRow(row, seller, today)
    OBVIOUS
  <2>3. write \in AttendanceRows /\ ClaimOf(row, write)
    BY <1>1, <2>2, WritesFit
  <2>4. /\ desk[d] = Idle /\ c \in OpenLeads /\ UNCHANGED attended
        /\ desk' = [desk EXCEPT ![d] = [doing |-> "attend", lead |-> c,
                      made |-> c \notin DOMAIN attended, read |-> row, write |-> write]]
    BY <1>4, <2>1, <2>2 DEF Claim, Reads
  <2> QED
    BY <1>2, <2>1, <2>3, <2>4
<1>5. ASSUME NEW d \in Desks, NEW c \in Attendable, NEW decision \in Decisions,
             Finish(d, c, decision)
      PROVE  CrmInv' /\ OnlyTheFirstClaimReopens
  <2>1. PICK row \in AttendanceRows : row = read(c)
    BY <1>3
  <2>2. PICK write : write = FinishedRow(row, decision, today)
    OBVIOUS
  <2>3. write \in AttendanceRows /\ FinishOf(write)
    BY <1>1, <2>2, WritesFit
  <2>4. /\ desk[d] = Idle /\ c \in OpenLeads /\ UNCHANGED attended
        /\ desk' = [desk EXCEPT ![d] = [doing |-> "attend", lead |-> c,
                      made |-> c \notin DOMAIN attended, read |-> row, write |-> write]]
    BY <1>5, <2>1, <2>2 DEF Finish, Reads
  <2> QED
    BY <1>2, <2>1, <2>3, <2>4
<1>6. ASSUME NEW d \in Desks, Committed(d) PROVE CrmInv' /\ OnlyTheFirstClaimReopens
  BY <1>6 DEF Committed, OnlyTheFirstClaimReopens
<1>7. ASSUME NEW d \in Desks, LeadRequestFails(d)
      PROVE  CrmInv' /\ OnlyTheFirstClaimReopens
  <2>1. desk' = [desk EXCEPT ![d] = Idle] /\ attended' = attended
    BY <1>7 DEF LeadRequestFails
  <2>2. CrmInv'
    BY <2>1, LeavingKeeps, NothingLost DEF CrmInv, StoryIsWhole
  <2> QED
    BY <2>1, <2>2 DEF OnlyTheFirstClaimReopens
<1>8. ASSUME NEW d \in Desks, NEW refresh \in BOOLEAN, AskForScores(d, refresh)
      PROVE  CrmInv' /\ OnlyTheFirstClaimReopens
  BY <1>8, AskKeeps DEF AskForScores, OnlyTheFirstClaimReopens
<1> QED
  BY <1>4, <1>5, <1>6, <1>7, <1>8, CommitKeeps, StoreScoresKeeps DEF CrmNext

-----------------------------------------------------------------------------
(* The views of the leads *)

LEMMA LeadsFinite ==
  /\ IsFiniteSet(OpenLeads) /\ Cardinality(OpenLeads) \in Nat
  /\ IsFiniteSet(Buyers) /\ Buyers \subseteq OpenLeads /\ Cardinality(Buyers) \in Nat
  /\ IsFiniteSet(Newcomers) /\ Newcomers \subseteq OpenLeads /\ Cardinality(Newcomers) \in Nat
  /\ Cardinality(Buyers) <= Cardinality(OpenLeads)
  /\ Cardinality(Newcomers) <= Cardinality(OpenLeads)
  /\ Cardinality(Buyers) + Cardinality(Newcomers) = Cardinality(OpenLeads)
<1>1. /\ OpenLeads \in SUBSET DOMAIN CustomerTable /\ Buyers \in SUBSET OpenLeads
      /\ Newcomers = OpenLeads \ Buyers
  BY DEF OpenLeads, Buyers, Newcomers
<1>2. IsFiniteSet(OpenLeads)
  BY <1>1, CustomersTyped, FS_Subset
<1>3. IsFiniteSet(Buyers) /\ IsFiniteSet(Newcomers) /\ Newcomers \in SUBSET OpenLeads
  BY <1>1, <1>2, FS_Subset
<1>4. /\ Cardinality(Newcomers) = Cardinality(OpenLeads) - Cardinality(OpenLeads \cap Buyers)
      /\ OpenLeads \cap Buyers = Buyers
  BY <1>1, <1>2, FS_Difference
<1>5. /\ Cardinality(OpenLeads) \in Nat /\ Cardinality(Buyers) \in Nat
      /\ Cardinality(Newcomers) \in Nat
  BY <1>2, <1>3, FS_CardinalityType
<1>6. Cardinality(Newcomers) = Cardinality(OpenLeads) - Cardinality(Buyers)
  BY <1>4
<1>7. /\ Cardinality(Buyers) <= Cardinality(OpenLeads)
      /\ Cardinality(Newcomers) <= Cardinality(OpenLeads)
      /\ Cardinality(Buyers) + Cardinality(Newcomers) = Cardinality(OpenLeads)
  BY <1>5, <1>6
<1> QED
  BY <1>1, <1>2, <1>3, <1>5, <1>7

LEMMA NamesDiffer ==
  ASSUME NEW c \in DOMAIN CustomerTable, NEW d \in DOMAIN CustomerTable
  PROVE  Name(c) \in Int /\ (c # d => Name(c) # Name(d))
BY CustomersTyped, NamesTellApart DEF Name

LEMMA RanksOfLeads ==
  ASSUME CrmInv, MirrorInv, HeuristicIsANumber
  PROVE  /\ DOMAIN ByName = Newcomers /\ Rank(ByName, 1)
         /\ DOMAIN ByPriority = Buyers /\ Rank(ByPriority, 4)
         /\ DOMAIN ByScore = Buyers /\ Rank(ByScore, 4)
<1>1. /\ Newcomers \subseteq DOMAIN CustomerTable /\ Buyers \subseteq DOMAIN CustomerTable
      /\ \A c \in Buyers : BoughtBy(c) # {}
  BY DEF Newcomers, Buyers, OpenLeads
<1>2. \A c \in DOMAIN CustomerTable : Name(c) \in Int
  BY NamesDiffer
<1>3. \A c \in DOMAIN CustomerTable, d \in DOMAIN CustomerTable : c # d => Name(c) # Name(d)
  BY NamesDiffer
<1>4. DOMAIN ByName = Newcomers /\ Rank(ByName, 1)
  <2>1. \A c \in Newcomers : ByName[c] = <<Name(c)>> /\ ByName[c][1] = Name(c)
    BY DEF ByName
  <2>2. ASSUME NEW c \in Newcomers PROVE ByName[c] \in [1..1 -> Int]
    <3>1. <<Name(c)>> = [i \in 1..1 |-> <<Name(c)>>[i]]
      OBVIOUS
    <3>2. \A i \in 1..1 : <<Name(c)>>[i] \in Int
      BY <1>1, <1>2
    <3> QED
      BY <2>1, <3>1, <3>2
  <2>3. DOMAIN ByName = Newcomers
    BY DEF ByName
  <2> QED
    BY <1>1, <1>3, <2>1, <2>2, <2>3, LeadsFinite DEF Rank
<1>5. ASSUME NEW keys, DOMAIN keys = Buyers,
             \A c \in Buyers : \E k1, k2, k3 \in Int : keys[c] = <<k1, k2, k3, Name(c)>>
      PROVE  Rank(keys, 4)
  <2>1. ASSUME NEW c \in Buyers PROVE keys[c] \in [1..4 -> Int] /\ keys[c][4] = Name(c)
    <3>1. PICK k1 \in Int, k2 \in Int, k3 \in Int : keys[c] = <<k1, k2, k3, Name(c)>>
      BY <1>5
    <3>2. PICK name \in Int : name = Name(c)
      BY <1>1, <1>2
    <3>3. <<k1, k2, k3, name>> \in Seq(Int) /\ Len(<<k1, k2, k3, name>>) = 4
      OBVIOUS
    <3>4. <<k1, k2, k3, name>> \in [1..4 -> Int]
      BY <3>3
    <3> QED
      BY <3>1, <3>2, <3>4
  <2> QED
    BY <1>1, <1>3, <1>5, <2>1, LeadsFinite DEF Rank
<1>6. \A c \in Buyers : NumbersOf(c)
  BY <1>1, StatsAreNumbers
<1>7. DOMAIN ByPriority = Buyers /\ Rank(ByPriority, 4)
  <2>1. ASSUME NEW c \in Buyers
        PROVE  \E k1, k2, k3 \in Int : ByPriority[c] = <<k1, k2, k3, Name(c)>>
    <3>1. PICK r \in Int, s \in Int : r = OrderStats(c).revenue /\ s = OrderStats(c).daysSince
      BY <1>6 DEF NumbersOf
    <3>2. r * s \in Int
      OBVIOUS
    <3>3. ByPriority[c] = <<r * s, s, r, Name(c)>>
      BY <3>1 DEF ByPriority
    <3> QED
      BY <3>2, <3>3
  <2>2. DOMAIN ByPriority = Buyers
    BY DEF ByPriority
  <2> QED
    BY <1>5, <2>1, <2>2
<1>8. DOMAIN ByScore = Buyers /\ Rank(ByScore, 4)
  <2>1. ASSUME NEW c \in Buyers
        PROVE  \E k1, k2, k3 \in Int : ByScore[c] = <<k1, k2, k3, Name(c)>>
    <3>1. ScoreOf(c) \in SUBSET Int
      BY DEF ScoreOf, CrmInv, AttendanceRows
    <3>2. ValueOr(ScoreOf(c), -1) \in Int
      BY <3>1 DEF ValueOr, The
    <3>3. Potential(c) \in Int /\ OrderStats(c).revenue \in Int
      BY <1>6 DEF NumbersOf
    <3>4. ByScore[c] = <<ValueOr(ScoreOf(c), -1), Potential(c), OrderStats(c).revenue, Name(c)>>
      BY DEF ByScore
    <3> QED
      BY <3>2, <3>3, <3>4
  <2>2. DOMAIN ByScore = Buyers
    BY DEF ByScore
  <2> QED
    BY <1>5, <2>1, <2>2
<1> QED
  BY <1>4, <1>7, <1>8

LEMMA NoTop ==
  ASSUME NEW keys
  PROVE  Slice(keys, 0, 0) = {}
<1>1. 0..0 + 0 - 1 = {}
  OBVIOUS
<1> QED
  BY <1>1 DEF Slice

LEMMA PagesOfViews ==
  ASSUME CrmInv, MirrorInv, HeuristicIsANumber,
         NEW top \in Nat, NEW size \in Nat \ {0}, NEW n \in Nat \ {0}
  PROVE  /\ PageOf(ByPriority, top, size, n, list_leads("main", top, n, size))
         /\ PageOf(ByName, 0, size, n, list_leads("new", top, n, size))
         /\ PageOf(ByScore, 0, size, n, list_leads("ai", top, n, size))
<1>1. PICK b \in Nat : b = (n - 1) * size
  <2>1. PICK m \in Nat : m = n - 1
    OBVIOUS
  <2>2. m * size \in Nat
    OBVIOUS
  <2> QED
    BY <2>1, <2>2
<1>2. /\ DOMAIN ByName = Newcomers /\ DOMAIN ByPriority = Buyers /\ DOMAIN ByScore = Buyers
  BY RanksOfLeads
<1>3. Cardinality(Buyers) \in Nat /\ Cardinality(Newcomers) \in Nat
  BY LeadsFinite
<1>4. PageOf(ByPriority, top, size, n, list_leads("main", top, n, size))
  <2>1. PICK q : q = Slice(ByPriority, top + b, size)
    OBVIOUS
  <2>2. LET p == list_leads("main", top, n, size)
        IN /\ p.top = Slice(ByPriority, 0, top) /\ p.queue = q
           /\ p.hasMore = (b + Cardinality(q) < MaxOf2(Cardinality(Buyers) - top, 0))
    BY <1>1, <2>1 DEF list_leads, Listing
  <2> QED
    BY <1>1, <1>2, <2>1, <2>2 DEF PageOf
<1>5. PageOf(ByName, 0, size, n, list_leads("new", top, n, size))
  <2>1. PICK q : q = Slice(ByName, b, size)
    OBVIOUS
  <2>2. LET p == list_leads("new", top, n, size)
        IN /\ p.top = {} /\ p.queue = q
           /\ p.hasMore = (b + Cardinality(q) < Cardinality(Newcomers))
    BY <1>1, <2>1 DEF list_leads, Listing
  <2>3. 0 + b = b /\ MaxOf2(Cardinality(Newcomers) - 0, 0) = Cardinality(Newcomers)
    BY <1>3 DEF MaxOf2
  <2> QED
    BY <1>1, <1>2, <2>1, <2>2, <2>3, NoTop DEF PageOf
<1>6. PageOf(ByScore, 0, size, n, list_leads("ai", top, n, size))
  <2>1. PICK q : q = Slice(ByScore, b, size)
    OBVIOUS
  <2>2. LET p == list_leads("ai", top, n, size)
        IN /\ p.top = {} /\ p.queue = q
           /\ p.hasMore = (b + Cardinality(q) < Cardinality(Buyers))
    BY <1>1, <2>1 DEF list_leads, Listing
  <2>3. 0 + b = b /\ MaxOf2(Cardinality(Buyers) - 0, 0) = Cardinality(Buyers)
    BY <1>3 DEF MaxOf2
  <2> QED
    BY <1>1, <1>2, <2>1, <2>2, <2>3, NoTop DEF PageOf
<1> QED
  BY <1>4, <1>5, <1>6

LEMMA SlicesAreParts ==
  ASSUME NEW keys, NEW from, NEW size
  PROVE  Slice(keys, from, size) \subseteq DOMAIN keys
BY DEF Slice

LEMMA ListedAreBuyers ==
  ASSUME CrmInv, MirrorInv, HeuristicIsANumber,
         NEW top \in Nat, NEW size \in Nat \ {0}, NEW view \in {"main", "ai"},
         NEW p, p = list_leads(view, top, 1, size)
  PROVE  /\ p.top \subseteq Buyers
         /\ \A lead \in p.leads : \E c \in Buyers : lead = LeadSummary(c)
<1>1. DOMAIN ByPriority = Buyers /\ DOMAIN ByScore = Buyers
  BY RanksOfLeads
<1>2. p.top \subseteq Buyers /\ p.queue \subseteq Buyers
  BY <1>1, SlicesAreParts DEF list_leads, Listing
<1>3. p.leads = {LeadSummary(c) : c \in p.top \cup p.queue}
  BY DEF list_leads, Listing
<1> QED
  BY <1>2, <1>3

LEMMA DetailsAgree ==
  ASSUME MirrorInv, NEW c \in Buyers
  PROVE  /\ \E detail \in lead_detail(LeadSummary(c).id) :
              detail.summary = LeadSummary(c) /\ LeadSummary(c).stats # {}
         /\ \A detail \in lead_detail(c) :
              LastProducts(c) \subseteq UNION DOMAIN detail.products.bought
<1>1. LeadSummary(c).id = c /\ c \in OpenLeads /\ LeadSummary(c).stats # {}
  BY DEF LeadSummary, Buyers
<1>2. lead_detail(c) = {[summary |-> LeadSummary(c), products |-> ProductBreakdown(c)]}
  BY <1>1 DEF lead_detail
<1>3. \E detail \in lead_detail(LeadSummary(c).id) :
        detail.summary = LeadSummary(c) /\ LeadSummary(c).stats # {}
  BY <1>1, <1>2
<1>4. LastProducts(c) \subseteq UNION DOMAIN ProductBreakdown(c).bought
  <2> DEFINE mine == {o \in DOMAIN book : c \in book[o].buyer}
             sold == {o \in SoldSince({}) : c \in book[o].buyer}
  <2>1. sold \subseteq mine
    BY DEF SoldSince, OfStatus, Since
  <2>2. LinesOf(sold) \subseteq LinesOf(mine)
    BY <2>1 DEF LinesOf
  <2>3. DOMAIN ProductBreakdown(c).bought = {Line(l).good : l \in LinesOf(mine)}
    BY DEF ProductBreakdown
  <2>4. LastProducts(c) = UNION {Line(l).good : l \in LinesOf(sold)}
    BY DEF LastProducts, GoodsIn
  <2> HIDE DEF mine, sold
  <2> QED
    BY <2>2, <2>3, <2>4
<1>5. \A detail \in lead_detail(c) : detail.products = ProductBreakdown(c)
  BY <1>2
<1> QED
  BY <1>3, <1>4, <1>5

LEMMA LeadsDoAddUp ==
  ASSUME CrmInv, MirrorInv, HeuristicIsANumber
  PROVE  LeadsAddUp
<1> SUFFICES ASSUME NEW sizes \in LeadPages
             PROVE  LET pages(view) == [n \in 1..Cardinality(OpenLeads) + 1 |->
                                         list_leads(view, sizes.top, n, sizes.size)]
                    IN ViewsAddUp(pages("main"), pages("new"), pages("ai"))
  BY DEF LeadsAddUp
<1>1. PICK top \in Nat, size \in Nat \ {0} : top = sizes.top /\ size = sizes.size
  BY PagesTyped
<1>2. PICK M \in Nat \ {0} : M = Cardinality(OpenLeads) + 1
  BY LeadsFinite
<1>3. PICK main, new, ai :
        /\ main = [n \in 1..M |-> list_leads("main", top, n, size)]
        /\ new = [n \in 1..M |-> list_leads("new", top, n, size)]
        /\ ai = [n \in 1..M |-> list_leads("ai", top, n, size)]
  OBVIOUS
<1>4. /\ DOMAIN ByName = Newcomers /\ Rank(ByName, 1)
      /\ DOMAIN ByPriority = Buyers /\ Rank(ByPriority, 4)
      /\ DOMAIN ByScore = Buyers /\ Rank(ByScore, 4)
  BY RanksOfLeads
<1>5. /\ Cardinality(Buyers) < M /\ Cardinality(Newcomers) < M
      /\ Cardinality(Buyers) + Cardinality(Newcomers) = Cardinality(OpenLeads)
      /\ IsFiniteSet(Buyers)
  BY <1>2, LeadsFinite
<1>6. \A n \in 1..M : /\ PageOf(ByPriority, top, size, n, main[n])
                      /\ PageOf(ByName, 0, size, n, new[n])
                      /\ PageOf(ByScore, 0, size, n, ai[n])
  BY <1>3, PagesOfViews
<1>7. /\ DOMAIN main = 1..M /\ DOMAIN new = 1..M /\ DOMAIN ai = 1..M
      /\ Len(main) = M /\ Len(new) = M /\ Len(ai) = M
  BY <1>3
<1>8. PagedOnce(Buyers, main)
  BY <1>4, <1>5, <1>6, <1>7, PagesShowAll
<1>9. PagedOnce(Newcomers, new)
  BY <1>4, <1>5, <1>6, <1>7, PagesShowAll
<1>10. PagedOnce(Buyers, ai)
  BY <1>4, <1>5, <1>6, <1>7, PagesShowAll
<1>11. /\ main[1] = list_leads("main", top, 1, size)
       /\ ai[1] = list_leads("ai", top, 1, size)
  BY <1>2, <1>3
<1>12. main[1].count + main[1].newCount = Cardinality(OpenLeads)
  BY <1>5, <1>11 DEF list_leads, Listing
<1>13. \A scored \in ai[1].scored : scored <= ai[1].count
  <2>1. ai[1].count = Cardinality(Buyers)
        /\ ai[1].scored = {Cardinality({c \in Buyers : ScoreOf(c) # {}})}
    BY <1>11 DEF list_leads, Listing
  <2>2. Cardinality({c \in Buyers : ScoreOf(c) # {}}) <= Cardinality(Buyers)
    BY <1>5, FS_Subset
  <2> QED
    BY <2>1, <2>2
<1>14. /\ main[1].top \subseteq Buyers
       /\ \A lead \in main[1].leads \cup ai[1].leads : \E c \in Buyers : lead = LeadSummary(c)
  BY <1>11, ListedAreBuyers
<1>15. \A lead \in main[1].leads \cup ai[1].leads :
         \E detail \in lead_detail(lead.id) : detail.summary = lead /\ lead.stats # {}
  BY <1>14, DetailsAgree
<1>16. \A c \in main[1].top : \A detail \in lead_detail(c) :
         LastProducts(c) \subseteq UNION DOMAIN detail.products.bought
  BY <1>14, DetailsAgree
<1>17. ViewsAddUp(main, new, ai)
  BY <1>8, <1>9, <1>10, <1>12, <1>13, <1>15, <1>16 DEF ViewsAddUp
<1> QED
  BY <1>1, <1>2, <1>3, <1>17

-----------------------------------------------------------------------------
(* The dashboard of the attendances *)

LEMMA SaleIsNumber ==
  ASSUME CrmInv, NEW c \in DOMAIN attended
  PROVE  AttendanceSaleValue(c) \in Int
BY DEF CrmInv, AttendanceRows, AttendanceSaleValue, ValueOr, The

GroupsFit(g, P) ==
  /\ SumFunction([k \in DOMAIN g |-> g[k].revenue]) = SumOver(P, AttendanceSaleValue)
  /\ SumFunction([k \in DOMAIN g |-> g[k].sales])
       = Cardinality({c \in P : attended[c].outcome = {"won"}})
  /\ SumFunction([k \in DOMAIN g |-> g[k].attendances]) = Cardinality(P)

LEMMA AttendedFinite == CrmInv => IsFiniteSet(DOMAIN attended)
BY CustomersTyped, FS_Subset DEF CrmInv

LEMMA GroupsAddUp ==
  ASSUME CrmInv, NEW P \in SUBSET DOMAIN attended, NEW column
  PROVE  GroupsFit(GroupAttendances(P, column), P)
<1>1. IsFiniteSet(P)
  BY AttendedFinite, FS_Subset
<1>2. PICK k : k = [c \in P |-> attended[c][column]]
  OBVIOUS
<1>3. DOMAIN k = P /\ k = [x \in P |-> k[x]]
  BY <1>2
<1>4. PICK f \in [P -> Int] : f = [c \in P |-> AttendanceSaleValue(c)]
  BY SaleIsNumber
<1>5. PICK won \in SUBSET P : won = {c \in P : attended[c].outcome = {"won"}}
  OBVIOUS
<1>6. PICK g : g = GroupAttendances(P, column)
  OBVIOUS
<1>7. DOMAIN g = KeysOf(k, P)
  BY <1>2, <1>6 DEF GroupAttendances, KeysOf
<1>8. ASSUME NEW v \in DOMAIN g
      PROVE  /\ g[v].revenue = SumFunction([x \in ClassOf(k, P, v) |-> f[x]])
             /\ g[v].sales = Cardinality({x \in ClassOf(k, P, v) : x \in won})
             /\ g[v].attendances = Cardinality({x \in ClassOf(k, P, v) : x \in P})
  <2>1. PICK mine : mine = {c \in P : attended[c][column] = v}
    OBVIOUS
  <2>2. mine = ClassOf(k, P, v) /\ mine \subseteq P
    BY <1>2, <2>1 DEF ClassOf
  <2>3. /\ g[v].revenue = SumOver(mine, AttendanceSaleValue)
        /\ g[v].sales = Cardinality({c \in mine : attended[c].outcome = {"won"}})
        /\ g[v].attendances = Cardinality(mine)
    BY <1>6, <1>8, <2>1 DEF GroupAttendances
  <2>4. [x \in mine |-> f[x]] = [x \in mine |-> AttendanceSaleValue(x)]
    BY <1>4, <2>2
  <2>5. {c \in mine : attended[c].outcome = {"won"}} = {x \in mine : x \in won}
    BY <1>5, <2>2
  <2>6. {x \in mine : x \in P} = mine
    BY <2>2
  <2> QED
    BY <2>2, <2>3, <2>4, <2>5, <2>6 DEF SumOver
<1>9. [v \in DOMAIN g |-> g[v].revenue] =
        [v \in KeysOf(k, P) |-> SumFunction([x \in ClassOf(k, P, v) |-> f[x]])]
  BY <1>7, <1>8
<1>10. [v \in DOMAIN g |-> g[v].sales] =
         [v \in KeysOf(k, P) |-> Cardinality({x \in ClassOf(k, P, v) : x \in won})]
  BY <1>7, <1>8
<1>11. [v \in DOMAIN g |-> g[v].attendances] =
         [v \in KeysOf(k, P) |-> Cardinality({x \in ClassOf(k, P, v) : x \in P})]
  BY <1>7, <1>8
<1>12. SumFunction([v \in DOMAIN g |-> g[v].revenue]) = SumFunction(f)
  BY <1>1, <1>3, <1>9, GroupsSum
<1>13. SumFunction([v \in DOMAIN g |-> g[v].sales]) = Cardinality(won)
  BY <1>1, <1>3, <1>10, GroupsCount
<1>14. SumFunction([v \in DOMAIN g |-> g[v].attendances]) = Cardinality(P)
  BY <1>1, <1>3, <1>11, GroupsCount
<1> QED
  BY <1>4, <1>5, <1>6, <1>12, <1>13, <1>14 DEF GroupsFit, SumOver

(* What the period sold is what its won attendances sold.                  *)
LEMMA WonIsAll ==
  ASSUME CrmInv, NEW P \in SUBSET DOMAIN attended
  PROVE  SumOver(P, AttendanceSaleValue)
           = SumOver({c \in P : attended[c].outcome = {"won"}}, AttendanceSaleValue)
<1>1. IsFiniteSet(P)
  BY AttendedFinite, FS_Subset
<1>2. PICK f \in [P -> Int] : f = [c \in P |-> AttendanceSaleValue(c)]
  BY SaleIsNumber
<1>3. PICK won \in SUBSET P : won = {c \in P : attended[c].outcome = {"won"}}
  OBVIOUS
<1>4. \A c \in P \ won : f[c] = 0
  BY <1>2, <1>3 DEF AttendanceSaleValue
<1>5. SumFunction(f) = SumFunction(Over(f, won))
  BY <1>1, <1>4, SumOfPart
<1>6. Over(f, won) = [c \in won |-> AttendanceSaleValue(c)]
  BY <1>2 DEF Over
<1> QED
  BY <1>2, <1>3, <1>5, <1>6 DEF SumOver

LEMMA MonthHasBegun ==
  ASSUME NEW day \in Nat
  PROVE  MonthStart(MonthOf(day)) \in Int /\ MonthStart(MonthOf(day)) <= day
<1>1. PICK w \in Nat, r \in 0..6 : w = day \div 7 /\ r = day % 7 /\ day = 7 * w + r
  OBVIOUS
<1>2. MonthOf(day) = 2 * w + IF r >= 4 THEN 1 ELSE 0
  BY <1>1 DEF MonthOf
<1>3. CASE r >= 4
  <2>1. MonthOf(day) = 2 * w + 1 /\ (2 * w + 1) \div 2 = w /\ (2 * w + 1) % 2 = 1
    BY <1>2, <1>3
  <2> QED
    BY <1>1, <1>3, <2>1 DEF MonthStart
<1>4. CASE r < 4
  <2>1. MonthOf(day) = 2 * w /\ (2 * w) \div 2 = w /\ (2 * w) % 2 = 0
    BY <1>2, <1>4
  <2> QED
    BY <1>1, <1>4, <2>1 DEF MonthStart
<1> QED
  BY <1>3, <1>4

(* An earlier start finds no fewer.                                        *)
LEMMA FinishedSinceGrows ==
  ASSUME CrmInv, NEW a \in Int, NEW b \in Int, a <= b
  PROVE  /\ FinishedSince(b) \subseteq FinishedSince(a)
         /\ Cardinality(FinishedSince(b)) <= Cardinality(FinishedSince(a))
<1>1. \A c \in FinishedSince(b) : c \in FinishedSince(a)
  <2> SUFFICES ASSUME NEW c \in FinishedSince(b) PROVE c \in FinishedSince(a)
    OBVIOUS
  <2>1. /\ c \in DOMAIN attended /\ attended[c].status = "finished"
        /\ \A day \in attended[c].finished : day >= b
    BY DEF FinishedSince
  <2>2. \A day \in attended[c].finished : day \in Int
    BY <2>1 DEF CrmInv, AttendanceRows
  <2>3. \A day \in attended[c].finished : day >= a
    BY <2>1, <2>2
  <2> QED
    BY <2>1, <2>3 DEF FinishedSince
<1>2. IsFiniteSet(FinishedSince(a))
  BY AttendedFinite, FS_Subset DEF FinishedSince
<1> QED
  BY <1>1, <1>2, FS_Subset

(* Every customer is a lead or finished, so their revenues add up.         *)
LEMMA BillingAddsUp ==
  ASSUME CrmInv, MirrorInv, HeuristicIsANumber
  PROVE  RevenueFor(OpenLeads) + RevenueFor(FinishedSince(0)) = RevenueFor(DOMAIN CustomerTable)
<1> DEFINE bought(S) == {c \in S : BoughtBy(c) # {}}
           all == DOMAIN CustomerTable
<1>1. \A c \in DOMAIN attended : attended[c].finished \subseteq Nat
  BY DEF CrmInv, AttendanceRows
<1>2. FinishedSince(0) = {c \in DOMAIN attended : attended[c].status = "finished"}
  BY <1>1 DEF FinishedSince
<1>3. /\ OpenLeads \cup FinishedSince(0) = all
      /\ OpenLeads \cap FinishedSince(0) = {}
  BY <1>2 DEF OpenLeads, StatusOfLead, CrmInv
<1>4. PICK A \in SUBSET all, C \in SUBSET all :
        A = bought(OpenLeads) /\ C = bought(FinishedSince(0))
  BY <1>3
<1>5. A \cap C = {} /\ A \cup C = bought(all)
  BY <1>3, <1>4
<1>6. IsFiniteSet(A) /\ IsFiniteSet(C)
  BY CustomersTyped, FS_Subset
<1>7. PICK f \in [A \cup C -> Int] : f = [c \in A \cup C |-> OrderStats(c).revenue]
  <2>1. \A c \in A \cup C : OrderStats(c).revenue \in Int
    BY <1>5, StatsAreNumbers DEF NumbersOf
  <2> QED
    BY <2>1
<1>8. InTwo(f, A, C)
  BY <1>5, <1>6, SumOfTwo
<1>9. /\ Over(f, A) = [c \in A |-> OrderStats(c).revenue]
      /\ Over(f, C) = [c \in C |-> OrderStats(c).revenue]
  BY <1>7 DEF Over
<1>10. /\ RevenueFor(OpenLeads) = SumFunction(Over(f, A))
       /\ RevenueFor(FinishedSince(0)) = SumFunction(Over(f, C))
       /\ RevenueFor(all) = SumFunction(f)
  BY <1>4, <1>5, <1>7, <1>9 DEF RevenueFor, SumOver
<1> QED
  BY <1>8, <1>10 DEF InTwo

LEMMA AttendancesDoAddUp ==
  ASSUME CrmInv, MirrorInv, HeuristicIsANumber, NEW days \in {1, 2}
  PROVE  AttendancesAddUp(crm_dashboard(days))
<1>1. PICK P \in SUBSET DOMAIN attended : P = FinishedSince(Now - days)
  BY DEF FinishedSince
<1>2. PICK d : d = crm_dashboard(days)
  OBVIOUS
<1>3. PICK won \in SUBSET P : won = {c \in P : attended[c].outcome = {"won"}}
  OBVIOUS
<1>4. /\ d.salesValue = SumOver(won, AttendanceSaleValue) /\ d.salesWon = Cardinality(won)
      /\ d.finishedPeriod = Cardinality(P)
      /\ d.series = GroupAttendances(P, "finished") /\ d.sellers = GroupAttendances(P, "seller")
      /\ d.openLeads = Cardinality(OpenLeads)
      /\ d.finishedToday = Cardinality(FinishedSince(today))
      /\ d.finishedMonth = Cardinality(FinishedSince(MonthStart(MonthOf(today))))
      /\ d.billingOpen = RevenueFor(OpenLeads)
      /\ d.billingFinished = RevenueFor(FinishedSince(0))
  BY <1>1, <1>2, <1>3 DEF crm_dashboard
<1>5. SumOver(P, AttendanceSaleValue) = SumOver(won, AttendanceSaleValue)
  BY <1>3, WonIsAll
<1>6. GroupsFit(d.series, P) /\ GroupsFit(d.sellers, P)
  BY <1>4, GroupsAddUp
<1>7. /\ SumFunction([k \in DOMAIN d.series |-> d.series[k].revenue]) = d.salesValue
      /\ SumFunction([k \in DOMAIN d.sellers |-> d.sellers[k].revenue]) = d.salesValue
      /\ SumFunction([k \in DOMAIN d.series |-> d.series[k].sales]) = d.salesWon
      /\ SumFunction([k \in DOMAIN d.sellers |-> d.sellers[k].attendances]) = d.finishedPeriod
  BY <1>3, <1>4, <1>5, <1>6 DEF GroupsFit
<1>8. today \in Nat
  BY MirrorConstants DEF MirrorInv, MirrorTypeOK
<1>9. d.finishedToday <= d.finishedMonth
  BY <1>4, <1>8, MonthHasBegun, FinishedSinceGrows
<1>10. d.finishedToday <= d.finishedPeriod
  <2>1. Now - days \in Int /\ Now - days <= today
    BY <1>8 DEF Now
  <2> QED
    BY <1>1, <1>4, <1>8, <2>1, FinishedSinceGrows
<1>11. d.billingOpen + d.billingFinished = RevenueFor(DOMAIN CustomerTable)
  BY <1>4, BillingAddsUp
<1>12. AttendancesAddUp(d)
  BY <1>4, <1>7, <1>9, <1>10, <1>11 DEF AttendancesAddUp, SumOver
<1> QED
  BY <1>2, <1>12

-----------------------------------------------------------------------------
(* The leads of the application *)

AppInv == MirrorInv /\ CrmInv

LEMMA LeadsStart == BiAppInit => AppInv
<1> SUFFICES ASSUME BiAppInit PROVE AppInv
  OBVIOUS
<1>1. MirrorInv
  BY MirrorConstants DEF BiAppInit, MirrorInit, MirrorInv, MirrorTypeOK, HistoryIsCurrent
<1>2. CrmInv
  BY DEF BiAppInit, CrmInit, CrmInv, StoryIsWhole, DeskFits
<1> QED
  BY <1>1, <1>2 DEF AppInv

LEMMA LeadsStay ==
  ASSUME AppInv, HeuristicIsANumber, [BiAppNext]_biApp
  PROVE  AppInv' /\ [OnlyTheFirstClaimReopens]_crmVars
<1>1. MirrorInv'
  BY MirrorStays DEF AppInv
<1>2. CASE CrmNext
  BY <1>1, <1>2, CrmSteps DEF AppInv
<1>3. CASE UNCHANGED crmVars
  <2>1. attended' = attended /\ desk' = desk
    BY <1>3 DEF crmVars
  <2>2. ASSUME NEW x, DeskFits(x) PROVE DeskFits(x)'
    BY <2>1, <2>2, FitsStays, NothingLost
  <2>3. ASSUME NEW e \in Desks PROVE DeskFits(desk[e])'
    <3>1. PICK y : y = desk[e] /\ DeskFits(y)
      BY DEF AppInv, CrmInv
    <3> QED
      BY <2>1, <2>2, <3>1
  <2>4. CrmInv'
    BY <2>1, <2>3 DEF AppInv, CrmInv, StoryIsWhole
  <2> QED
    BY <1>1, <1>3, <2>4 DEF AppInv
<1> QED
  BY <1>2, <1>3 DEF BiAppNext, SyncMoves, ReadersMove, LeadsMove, ExportMoves, biApp, crmVars

LEMMA LeadsAreFine == AppInv /\ HeuristicIsANumber => LeadsAreSound
BY LeadsDoAddUp, AttendancesDoAddUp DEF AppInv, LeadsAreSound, CrmInv

(* What the pages and dashboards of the leads show is the list they are cut *)
(* from, whoever stores an order, an attendance or a score meanwhile: each  *)
(* customer on one page, the queue and the totals counted over the same     *)
(* rows; and of an attendance that ended, only a first claim under way      *)
(* takes the end back (crm.py).  The hypothesis is that the heuristic       *)
(* score, whatever its weights, is a number.                                *)
THEOREM LeadsAlwaysHold ==
  ASSUME HeuristicIsANumber
  PROVE  FairBiAppSpec => LeadsHold
<1>1. BiAppInit => AppInv
  BY LeadsStart
<1>2. AppInv /\ [BiAppNext]_biApp => AppInv'
  BY LeadsStay
<1>3. AppInv /\ [BiAppNext]_biApp => [OnlyTheFirstClaimReopens]_crmVars
  BY LeadsStay
<1>4. AppInv => (focus = "leads" => LeadsAreSound)
  BY LeadsAreFine
<1> QED
  BY <1>1, <1>2, <1>3, <1>4, PTL DEF FairBiAppSpec, LeadsHold

-----------------------------------------------------------------------------
(* The export *)

ListKeys(orders) == [o \in orders |-> <<book[o].day, RowId[o]>>]

(* The keys of two orders compare as the list does.                        *)
LEMMA KeysCompare ==
  ASSUME MirrorInv, NEW orders \in SUBSET DOMAIN book, NEW o \in orders, NEW p \in orders
  PROVE  /\ Precedes(ListKeys(orders)[p], ListKeys(orders)[o]) <=> Before(p, o, RowId)
         /\ p # o => \/ Precedes(ListKeys(orders)[p], ListKeys(orders)[o])
                     \/ Precedes(ListKeys(orders)[o], ListKeys(orders)[p])
<1> DEFINE keys == ListKeys(orders)
<1>1. /\ orders \subseteq BookOrders
      /\ \A x \in orders : book[x].day \in Int /\ RowId[x] \in Int
      /\ \A x, y \in orders : x # y => RowId[x] # RowId[y]
  <2>1. orders \subseteq BookOrders
    BY DEF MirrorInv, MirrorTypeOK
  <2> QED
    BY <2>1, ExportConstants DEF MirrorInv, RowNumbers
<1>2. \A x \in orders : /\ keys[x] \in [1..2 -> Int] /\ DOMAIN keys[x] = 1..2
                        /\ keys[x][1] = book[x].day /\ keys[x][2] = RowId[x]
  BY <1>1 DEF ListKeys
<1> HIDE DEF keys
<1>4. Precedes(keys[p], keys[o]) <=> Before(p, o, RowId)
  <2>1. ASSUME Precedes(keys[p], keys[o]) PROVE Before(p, o, RowId)
    <3>1. PICK i \in 1..2 : keys[p][i] > keys[o][i] /\ \A j \in 1..i - 1 : keys[p][j] = keys[o][j]
      BY <1>2, <2>1 DEF Precedes
    <3>2. CASE i = 1
      BY <1>2, <3>1, <3>2 DEF Before
    <3>3. CASE i = 2
      <4>1. keys[p][1] = keys[o][1]
        BY <3>1, <3>3
      <4> QED
        BY <1>2, <3>1, <3>3, <4>1 DEF Before
    <3> QED
      BY <3>2, <3>3
  <2>2. CASE book[p].day > book[o].day
    <3>1. 1 \in DOMAIN keys[p] /\ keys[p][1] > keys[o][1] /\ \A j \in 1..1 - 1 : keys[p][j] = keys[o][j]
      BY <1>2, <2>2
    <3> QED
      BY <2>2, <3>1 DEF Precedes, Before
  <2>3. CASE book[p].day = book[o].day /\ RowId[p] > RowId[o]
    <3>1. 2 \in DOMAIN keys[p] /\ keys[p][2] > keys[o][2] /\ \A j \in 1..2 - 1 : keys[p][j] = keys[o][j]
      BY <1>2, <2>3
    <3> QED
      BY <2>3, <3>1 DEF Precedes, Before
  <2> QED
    BY <2>1, <2>2, <2>3 DEF Before
<1>5. p # o => Precedes(keys[p], keys[o]) \/ Precedes(keys[o], keys[p])
  <2> SUFFICES ASSUME p # o PROVE Precedes(keys[p], keys[o]) \/ Precedes(keys[o], keys[p])
    OBVIOUS
  <2>1. keys[p] # keys[o]
    BY <1>1, <1>2
  <2> QED
    BY <1>2, <2>1, OnePrecedes
<1> QED
  BY <1>4, <1>5 DEF keys

LEMMA ListedInOrder ==
  ASSUME MirrorInv, NEW orders \in SUBSET DOMAIN book
  PROVE  /\ IsFiniteSet(orders) /\ Cardinality(orders) \in Nat
         /\ Rank(ListKeys(orders), 2) /\ DOMAIN ListKeys(orders) = orders
         /\ \A o \in orders : PlaceOf(o, ListKeys(orders)) = PlaceIn(o, orders, RowId)
<1> DEFINE keys == ListKeys(orders)
<1>1. /\ IsFiniteSet(orders) /\ orders \subseteq BookOrders
      /\ \A o \in orders : book[o].day \in Int /\ RowId[o] \in Int
      /\ \A o, p \in orders : o # p => RowId[o] # RowId[p]
  <2>1. orders \subseteq BookOrders
    BY DEF MirrorInv, MirrorTypeOK
  <2> QED
    BY <2>1, FS_Subset, MirrorConstants, ExportConstants DEF MirrorInv, RowNumbers
<1>2. /\ DOMAIN keys = orders
      /\ \A o \in orders : /\ keys[o] \in [1..2 -> Int] /\ DOMAIN keys[o] = 1..2
                           /\ keys[o][1] = book[o].day /\ keys[o][2] = RowId[o]
  BY <1>1 DEF ListKeys
<1> HIDE DEF keys
<1>3. Rank(keys, 2)
  BY <1>1, <1>2 DEF Rank
<1>4. \A o, p \in orders : Precedes(keys[p], keys[o]) <=> Before(p, o, RowId)
  BY KeysCompare DEF keys
<1>5. ASSUME NEW o \in orders PROVE PlaceOf(o, keys) = PlaceIn(o, orders, RowId)
  <2>1. {p \in DOMAIN keys : Precedes(keys[p], keys[o])} = {p \in orders : Before(p, o, RowId)}
    BY <1>2, <1>4
  <2> QED
    BY <2>1 DEF PlaceOf, PlaceIn
<1>6. Cardinality(orders) \in Nat
  BY <1>1, FS_CardinalityType
<1> QED
  BY <1>1, <1>2, <1>3, <1>5, <1>6 DEF keys

(* The list has at each place the order that so many come before.          *)
OrderedAs(orders) ==
  LET n == Cardinality(orders)
  IN /\ \A o \in orders : PlaceIn(o, orders, RowId) \in 0..n - 1
     /\ \A i \in 1..n : /\ InOrder(orders)[i] \in orders
                        /\ PlaceIn(InOrder(orders)[i], orders, RowId) = i - 1
     /\ \A o, p \in orders : PlaceIn(o, orders, RowId) = PlaceIn(p, orders, RowId) => o = p

LEMMA ListIsOrdered ==
  ASSUME MirrorInv, NEW orders \in SUBSET DOMAIN book
  PROVE  OrderedAs(orders)
<1> DEFINE keys == ListKeys(orders)
           n == Cardinality(orders)
           P == Places(keys)
<1>1. /\ n \in Nat /\ Rank(keys, 2) /\ DOMAIN keys = orders
      /\ \A o \in orders : PlaceOf(o, keys) = PlaceIn(o, orders, RowId)
  BY ListedInOrder
<1> HIDE DEF keys
<1>2. P \in Bijection(orders, 0..n - 1)
  BY <1>1, PlacesAreAll DEF Spots
<1>3. /\ P \in [orders -> 0..n - 1]
      /\ \A o, p \in orders : P[o] = P[p] => o = p
      /\ \A i \in 0..n - 1 : \E o \in orders : P[o] = i
  <2> HIDE DEF P
  <2> QED
    BY <1>2 DEF Bijection, Injection, Surjection, IsInjective
<1>4. \A o \in orders : P[o] = PlaceIn(o, orders, RowId)
  BY <1>1 DEF Places
<1> HIDE DEF P
<1>5. ASSUME NEW i \in 1..n
      PROVE  /\ InOrder(orders)[i] \in orders
             /\ PlaceIn(InOrder(orders)[i], orders, RowId) = i - 1
  <2>1. \E o \in orders : PlaceIn(o, orders, RowId) = i - 1
    <3>1. i - 1 \in 0..n - 1
      BY <1>1
    <3> QED
      BY <1>3, <1>4, <3>1
  <2>2. InOrder(orders)[i] = CHOOSE o \in orders : PlaceIn(o, orders, RowId) = i - 1
    BY DEF InOrder
  <2> QED
    BY <2>1, <2>2
<1>6. \A o \in orders : PlaceIn(o, orders, RowId) \in 0..n - 1
  BY <1>3, <1>4
<1>7. \A o, p \in orders : PlaceIn(o, orders, RowId) = PlaceIn(p, orders, RowId) => o = p
  BY <1>3, <1>4
<1> QED
  BY <1>5, <1>6, <1>7 DEF OrderedAs

(* A page in order is a piece of the list in order.                        *)
PieceOf(orders, rows, from, size) ==
  LET n == Cardinality(orders)
  IN /\ Cardinality(rows) = IF from + size <= n THEN size ELSE n - from
     /\ \A i \in 1..Cardinality(rows) : InOrder(rows)[i] = InOrder(orders)[from + i]

LEMMA PageIsPiece ==
  ASSUME MirrorInv, NEW orders \in SUBSET DOMAIN book, NEW from \in Nat, NEW size \in Nat,
         from <= Cardinality(orders),
         NEW rows, rows = {o \in orders : PlaceIn(o, orders, RowId) \in from..from + size - 1}
  PROVE  PieceOf(orders, rows, from, size)
<1> DEFINE keys == ListKeys(orders)
           n == Cardinality(orders)
<1>1. /\ n \in Nat /\ Rank(keys, 2) /\ DOMAIN keys = orders
      /\ \A o \in orders : PlaceOf(o, keys) = PlaceIn(o, orders, RowId)
  BY ListedInOrder
<1> HIDE DEF keys
<1>2. rows = Slice(keys, from, size) /\ rows \subseteq orders
  BY <1>1 DEF Slice
<1>3. Cardinality(rows) = IF from + size <= n THEN size ELSE n - from
  <2>1. SliceIs(keys, from, size)
    BY <1>1, SliceCounts
  <2>2. Cardinality(rows) = (IF from >= n THEN 0 ELSE IF from + size <= n THEN size ELSE n - from)
    BY <1>1, <1>2, <2>1 DEF SliceIs
  <2> HIDE DEF n
  <2>3. n \in Nat /\ from <= n /\ from \in Nat /\ size \in Nat
    BY <1>1 DEF n
  <2> QED
    BY <2>2, <2>3
<1>4. OrderedAs(orders) /\ OrderedAs(rows)
  BY <1>2, ListIsOrdered
<1>5. ASSUME NEW o \in rows
      PROVE  PlaceIn(o, orders, RowId) = from + PlaceIn(o, rows, RowId)
  <2>1. PICK k : k = PlaceIn(o, orders, RowId) /\ k \in from..from + size - 1 /\ k \in 0..n - 1
    BY <1>2, <1>4 DEF OrderedAs
  <2>2. {p \in rows : Before(p, o, RowId)} = Slice(keys, from, k - from)
    <3>1. ASSUME NEW p \in orders
          PROVE  Before(p, o, RowId) <=> PlaceIn(p, orders, RowId) < k
      <4>0. o \in orders
        BY <1>2
      <4>1. Precedes(keys[p], keys[o]) <=> Before(p, o, RowId)
        BY <4>0, KeysCompare DEF keys
      <4>2. Before(p, o, RowId) => PlaceOf(p, keys) < PlaceOf(o, keys)
        BY <1>1, <4>0, <4>1, PlacesDiffer
      <4>3. p # o => Precedes(keys[p], keys[o]) \/ Precedes(keys[o], keys[p])
        BY <4>0, KeysCompare DEF keys
      <4>4. Precedes(keys[o], keys[p]) => PlaceOf(o, keys) < PlaceOf(p, keys)
        BY <1>1, <4>0, PlacesDiffer
      <4>5. PlaceIn(p, orders, RowId) \in 0..n - 1
        BY <1>4 DEF OrderedAs
      <4>6. PlaceOf(p, keys) = PlaceIn(p, orders, RowId) /\ PlaceOf(o, keys) = k
        BY <1>1, <2>1, <4>0
      <4> QED
        BY <1>1, <2>1, <4>1, <4>2, <4>3, <4>4, <4>5, <4>6
    <3>2. \A p \in orders : PlaceOf(p, keys) = PlaceIn(p, orders, RowId) /\ PlaceIn(p, orders, RowId) \in 0..n - 1
      BY <1>1, <1>4 DEF OrderedAs
    <3>3. \A p \in orders : PlaceIn(p, orders, RowId) \in from..from + size - 1 /\ PlaceIn(p, orders, RowId) < k
                              <=> PlaceIn(p, orders, RowId) \in from..from + (k - from) - 1
      BY <1>1, <2>1, <3>2
    <3> QED
      BY <1>1, <3>1, <3>2, <3>3 DEF Slice
  <2>3. SliceIs(keys, from, k - from)
    <3>1. k - from \in Nat
      BY <2>1
    <3> QED
      BY <1>1, <3>1, SliceCounts
  <2>4. PlaceIn(o, rows, RowId) = k - from
    <3>1. PlaceIn(o, rows, RowId) = Cardinality(Slice(keys, from, k - from))
      BY <2>2 DEF PlaceIn
    <3>2. ~(from >= n) /\ from + (k - from) <= n
      BY <1>1, <2>1
    <3> QED
      BY <1>1, <2>3, <3>1, <3>2 DEF SliceIs
  <2> QED
    BY <2>1, <2>4
<1>6. ASSUME NEW i \in 1..Cardinality(rows)
      PROVE  InOrder(rows)[i] = InOrder(orders)[from + i]
  <2>1. Cardinality(rows) \in Nat /\ from + i \in 1..n
    BY <1>1, <1>3
  <2>2. PICK o : o = InOrder(rows)[i] /\ o \in rows /\ PlaceIn(o, rows, RowId) = i - 1
    BY <1>4 DEF OrderedAs
  <2>3. PICK p : p = InOrder(orders)[from + i] /\ p \in orders
                 /\ PlaceIn(p, orders, RowId) = from + i - 1
    BY <1>4, <2>1 DEF OrderedAs
  <2>4. PlaceIn(o, orders, RowId) = from + (i - 1)
    BY <1>5, <2>2
  <2>5. PlaceIn(o, orders, RowId) = PlaceIn(p, orders, RowId)
    BY <2>1, <2>3, <2>4
  <2> QED
    BY <1>2, <1>4, <2>2, <2>3, <2>5 DEF OrderedAs
<1> QED
  BY <1>3, <1>6 DEF PieceOf

-----------------------------------------------------------------------------
(* Pages in numbers *)

LEMMA OnThePage ==
  ASSUME NEW size \in Nat \ {0}, NEW x \in Nat, NEW page \in Nat \ {0}
  PROVE  (x \div size = page - 1) <=> x \in (page - 1) * size..(page - 1) * size + size - 1
<1>1. /\ x \div size \in Nat /\ x = size * (x \div size) + (x % size)
      /\ x % size \in 0..size - 1
  OBVIOUS
<1>2. PICK k \in Nat, m \in 0..size - 1 : k = x \div size /\ x = size * k + m
  BY <1>1
<1>3. x = k * size + m
  BY <1>2
<1>4. PICK j \in Nat : j = page - 1
  <2>1. page - 1 \in Nat
    OBVIOUS
  <2> QED
    BY <2>1
<1>5. k * size \in Nat /\ j * size \in Nat
  OBVIOUS
<1>6. k = j => x \in j * size..j * size + size - 1
  BY <1>2, <1>3, <1>5
<1>7. k < j => k * size + size <= j * size
  BY TimesOrder
<1>8. j < k => j * size + size <= k * size
  BY TimesOrder
<1>9. (k < j => x < j * size) /\ (j < k => x >= j * size + size)
  BY <1>3, <1>5, <1>7, <1>8
<1> QED
  BY <1>2, <1>4, <1>9, <1>5, <1>6, <1>7, <1>8

PagesFor(n) == (n + PageLength - 1) \div PageLength

LEMMA PagesReach ==
  ASSUME NEW n \in Nat, NEW page \in Nat \ {0}
  PROVE  /\ PagesFor(n) \in Nat /\ (page - 1) * PageLength \in Nat
         /\ ((page + 1) - 1) * PageLength = (page - 1) * PageLength + PageLength
         /\ page >= PagesFor(n) => (page - 1) * PageLength + PageLength >= n
         /\ page < PagesFor(n) => (page - 1) * PageLength + PageLength <= n
<1>1. PICK size \in Nat \ {0} : size = PageLength
  BY ExportConstants
<1>2. PICK j \in Nat : j = page - 1
  <2>1. page - 1 \in Nat
    OBVIOUS
  <2> QED
    BY <2>1
<1>3. PICK x \in Nat : x = n + size - 1
  <2>1. n + size - 1 \in Nat
    OBVIOUS
  <2> QED
    BY <2>1
<1>4. /\ x \div size \in Nat /\ x = size * (x \div size) + (x % size)
      /\ x % size \in 0..size - 1
  OBVIOUS
<1>5. PICK k \in Nat, m \in 0..size - 1 : k = x \div size /\ n + size - 1 = size * k + m
  BY <1>3, <1>4
<1>6. k * size \in Nat /\ j * size \in Nat /\ (j + 1) * size = j * size + size
  OBVIOUS
<1>7. j + 1 = k => j * size + size >= n
  <2>1. j + 1 = k => size * k = j * size + size
    BY <1>6
  <2> QED
    BY <1>5, <1>6, <2>1
<1>8. k < j + 1 => k * size + size <= j * size + size
  BY <1>6, TimesOrder
<1>9. j + 1 < k => j * size + size + size <= k * size
  BY <1>6, TimesOrder
<1>11. size * k = k * size
  OBVIOUS
<1>12. (k < j + 1 => j * size + size >= n) /\ (j + 1 < k => j * size + size <= n)
  BY <1>5, <1>6, <1>8, <1>9, <1>11
<1>10. page = j + 1 /\ ((page + 1) - 1) = j + 1 /\ PagesFor(n) = k
  BY <1>1, <1>2, <1>3, <1>5 DEF PagesFor
<1> QED
  BY <1>1, <1>2, <1>6, <1>7, <1>10, <1>12

-----------------------------------------------------------------------------
(* The run of an export *)

Asked == Matching(export.filters, date_bounds(export.filters))
WrittenBefore == (export.page - 1) * PageLength
FirstOf(orders, m) == [i \in 1..m |-> InOrder(orders)[i]]

ExportRows ==
  [at : {"count", "list", "close", "success", "error"}, filters : ExportFilters,
   page : Nat \ {0}, pages : Nat, written : Seq(BookOrders), quiet : BOOLEAN]

RunRows == [status : {"running", "success", "error"}, rows : Nat]

(* What a quiet export has written are the first orders of the list, up to *)
(* the page it is at.                                                      *)
WrittenInOrder ==
  /\ export.at \in {"count", "list"} =>
       WrittenBefore <= Cardinality(Asked) /\ export.written = FirstOf(Asked, WrittenBefore)
  /\ export.at = "list" => export.pages = PagesFor(Cardinality(Asked))
  /\ export.at \in {"close", "success"} => export.written = InOrder(Asked)
  /\ export.at = "success" => exportRuns[Len(exportRuns)].rows = Cardinality(Asked)

ExportInv ==
  /\ exportRuns \in Seq(RunRows)
  /\ export = NoExport \/
       /\ export \in ExportRows /\ Len(exportRuns) > 0
       /\ export.quiet => WrittenInOrder
  /\ focus # "exports" => export = NoExport

LEMMA AskedListed ==
  ASSUME MirrorInv
  PROVE  /\ Asked \in SUBSET DOMAIN book /\ Asked \subseteq BookOrders
         /\ IsFiniteSet(Asked) /\ Cardinality(Asked) \in Nat
<1>1. Asked \in SUBSET DOMAIN book
  BY DEF Asked, Matching
<1> QED
  BY <1>1, ListedInOrder DEF MirrorInv, MirrorTypeOK

LEMMA InOrderTyped ==
  ASSUME MirrorInv, NEW orders \in SUBSET DOMAIN book
  PROVE  /\ InOrder(orders) \in Seq(BookOrders)
         /\ DOMAIN InOrder(orders) = 1..Cardinality(orders)
         /\ Len(InOrder(orders)) = Cardinality(orders)
<1>1. Cardinality(orders) \in Nat /\ OrderedAs(orders) /\ orders \subseteq BookOrders
  BY ListedInOrder, ListIsOrdered DEF MirrorInv, MirrorTypeOK
<1>2. DOMAIN InOrder(orders) = 1..Cardinality(orders)
  BY DEF InOrder
<1>3. \A i \in 1..Cardinality(orders) : InOrder(orders)[i] \in BookOrders
  BY <1>1 DEF OrderedAs
<1>4. InOrder(orders) = [i \in 1..Cardinality(orders) |-> InOrder(orders)[i]]
  BY DEF InOrder
<1>5. InOrder(orders) \in [1..Cardinality(orders) -> BookOrders]
  BY <1>2, <1>3, <1>4
<1> QED
  BY <1>1, <1>5

(* One page more: the first orders of the list, up to the next page.       *)
LEMMA PageWritten ==
  ASSUME MirrorInv, ExportInv, export.at = "list", export.quiet
  PROVE  LET rows == OrdersPage(export.filters, RowId, export.page, PageLength)
             upto == WrittenBefore + Cardinality(rows)
         IN /\ export.written \o InOrder(rows) = FirstOf(Asked, upto)
            /\ rows \in SUBSET DOMAIN book
            /\ upto = IF WrittenBefore + PageLength <= Cardinality(Asked)
                      THEN WrittenBefore + PageLength ELSE Cardinality(Asked)
<1> DEFINE rows == OrdersPage(export.filters, RowId, export.page, PageLength)
           c == Cardinality(rows)
<1>0. export \in ExportRows /\ WrittenInOrder
  BY DEF ExportInv, NoExport
<1>1. PICK all \in SUBSET DOMAIN book : all = Asked /\ Cardinality(all) \in Nat
  BY AskedListed
<1>2. PICK page \in Nat \ {0} : page = export.page
  BY <1>0 DEF ExportRows
<1>3. PICK size \in Nat \ {0} : size = PageLength
  BY ExportConstants
<1>4. PICK m \in Nat : m = (page - 1) * size /\ m = WrittenBefore
  <2>1. (page - 1) * size \in Nat
    BY <1>3, PagesReach, <1>1
  <2> QED
    BY <1>2, <1>3, <2>1 DEF WrittenBefore
<1>5. m <= Cardinality(all) /\ export.written = FirstOf(all, m)
  BY <1>0, <1>1, <1>4 DEF WrittenInOrder
<1>6. rows = {o \in all : PlaceIn(o, all, RowId) \in m..m + size - 1}
  <2>1. rows = {o \in all : PlaceIn(o, all, RowId) \div size = page - 1}
    BY <1>1, <1>2, <1>3 DEF OrdersPage, Asked
  <2>2. \A o \in all : PlaceIn(o, all, RowId) \in Nat
    BY <1>1, ListIsOrdered DEF OrderedAs
  <2>3. \A o \in all : PlaceIn(o, all, RowId) \div size = page - 1
                         <=> PlaceIn(o, all, RowId) \in m..m + size - 1
    BY <1>4, <2>2, OnThePage
  <2> QED
    BY <2>1, <2>3
<1> HIDE DEF rows
<1>7. PieceOf(all, rows, m, size)
  BY <1>5, <1>6, PageIsPiece
<1>8. /\ rows \in SUBSET DOMAIN book /\ InOrder(rows) \in Seq(BookOrders)
      /\ c \in Nat /\ Len(InOrder(rows)) = c
  <2>1. rows \in SUBSET DOMAIN book
    BY <1>6
  <2> QED
    BY <2>1, InOrderTyped, ListedInOrder
<1>9. /\ c = IF m + size <= Cardinality(all) THEN size ELSE Cardinality(all) - m
      /\ \A i \in 1..c : InOrder(rows)[i] = InOrder(all)[m + i]
  BY <1>7 DEF PieceOf
<1>10. export.written \in Seq(BookOrders) /\ Len(export.written) = m
       /\ \A i \in 1..m : export.written[i] = InOrder(all)[i]
  BY <1>0, <1>5 DEF ExportRows, FirstOf
<1>11. export.written \o InOrder(rows) = FirstOf(all, m + c)
  <2> DEFINE w == export.written \o InOrder(rows)
  <2>1. /\ w \in Seq(BookOrders) /\ Len(w) = m + c
        /\ \A i \in 1..m + c : w[i] = IF i <= m THEN export.written[i] ELSE InOrder(rows)[i - m]
    BY <1>8, <1>10
  <2>2. \A i \in 1..m + c : w[i] = InOrder(all)[i]
    <3> SUFFICES ASSUME NEW i \in 1..m + c PROVE w[i] = InOrder(all)[i]
      OBVIOUS
    <3>1. CASE i <= m
      BY <1>10, <2>1, <3>1
    <3>2. CASE ~(i <= m)
      <4>1. i - m \in 1..c /\ m + (i - m) = i
        BY <1>8, <3>2
      <4>2. InOrder(rows)[i - m] = InOrder(all)[m + (i - m)]
        BY <1>9, <4>1
      <4> QED
        BY <2>1, <3>2, <4>1, <4>2
    <3> QED
      BY <3>1, <3>2
  <2> HIDE DEF w
  <2>3. w = [i \in 1..m + c |-> w[i]]
    BY <2>1
  <2> QED
    BY <2>2, <2>3 DEF FirstOf, w
<1>12. m + c = IF m + size <= Cardinality(all) THEN m + size ELSE Cardinality(all)
  BY <1>1, <1>5, <1>8, <1>9
<1> QED
  BY <1>1, <1>3, <1>4, <1>8, <1>11, <1>12 DEF rows

LEMMA SameList ==
  ASSUME UNCHANGED <<book, today>>, NEW f
  PROVE  Matching(f, date_bounds(f))' = Matching(f, date_bounds(f))
<1>1. \A bounds : \A o \in DOMAIN book :
        order_conditions(book[o], f, bounds)' <=> order_conditions(book[o], f, bounds)
  BY DEF order_conditions, Within, Among, NotExcluded, CustomerPredicates, ProductScoped,
         ChosenProduct
<1>2. date_bounds(f)' = date_bounds(f)
  BY DEF date_bounds, Now, Coalesce, YearStart, MonthStart, MonthOf
<1> QED
  BY <1>1, <1>2 DEF Matching

LEMMA SameOrder ==
  ASSUME UNCHANGED book, NEW orders
  PROVE  InOrder(orders)' = InOrder(orders)
BY DEF InOrder, PlaceIn, Before

LEMMA AskedStays ==
  ASSUME UNCHANGED <<book, today>>, export'.filters = export.filters
  PROVE  /\ Asked' = Asked /\ InOrder(Asked)' = InOrder(Asked)
         /\ \A m : FirstOf(Asked, m)' = FirstOf(Asked, m)
<1>1. PICK f : f = export.filters
  OBVIOUS
<1>2. Asked' = Asked
  BY <1>1, SameList DEF Asked
<1>3. PICK all : all = Asked
  OBVIOUS
<1>4. InOrder(all)' = InOrder(all)
  BY SameOrder
<1>5. \A m : FirstOf(all, m)' = FirstOf(all, m)
  BY <1>4 DEF FirstOf
<1> QED
  BY <1>2, <1>3, <1>4, <1>5

LEMMA ExportMovesKeep ==
  ASSUME MirrorInv, ExportInv, ExportNext, UNCHANGED <<book, today, focus>>, focus = "exports"
  PROVE  ExportInv'
<1>0. exportRuns \in Seq(RunRows)
  BY DEF ExportInv
<1>1. ASSUME NEW f \in ExportFilters, CreateRun(f) PROVE ExportInv'
  <2>1. /\ export' = [at |-> "count", filters |-> f, page |-> 1, pages |-> 0,
                      written |-> << >>, quiet |-> TRUE]
        /\ exportRuns' = Append(exportRuns, [status |-> "running", rows |-> 0])
    BY <1>1 DEF CreateRun
  <2>2. export' \in ExportRows
    BY <2>1 DEF ExportRows
  <2>3. exportRuns' \in Seq(RunRows) /\ Len(exportRuns') > 0
    <3>1. PICK run \in RunRows : run = [status |-> "running", rows |-> 0]
      BY DEF RunRows
    <3>2. exportRuns' = Append(exportRuns, run)
      BY <2>1, <3>1
    <3> QED
      BY <1>0, <3>2
  <2>4. WrittenBefore' = 0
    BY <2>1, ExportConstants DEF WrittenBefore
  <2>5. Asked' = Matching(f, date_bounds(f))
    BY <2>1, SameList DEF Asked
  <2>6. Cardinality(Asked') \in Nat
    <3>1. Matching(f, date_bounds(f)) \in SUBSET DOMAIN book
      BY DEF Matching
    <3> QED
      BY <2>5, <3>1, ListedInOrder
  <2>7. WrittenInOrder'
    BY <2>1, <2>4, <2>6 DEF WrittenInOrder, FirstOf
  <2> QED
    BY <2>2, <2>3, <2>7 DEF ExportInv
<1>2. ASSUME export # NoExport PROVE /\ export \in ExportRows /\ Len(exportRuns) > 0
                                     /\ export.quiet => WrittenInOrder
  BY <1>2 DEF ExportInv
<1>3. PICK n \in Nat : n = Cardinality(Asked)
  BY AskedListed
<1>4. CASE CountOrders
  <2>1. /\ export # NoExport /\ export.at = "count" /\ UNCHANGED exportRuns
        /\ export' = [export EXCEPT !.at = "list", !.pages = PagesFor(n)]
    BY <1>3, <1>4 DEF CountOrders, NoExport, PagesFor, Asked
  <2>2. PagesFor(n) \in Nat
    BY PagesReach
  <2>3. /\ export' \in ExportRows /\ export'.filters = export.filters /\ export'.at = "list"
        /\ export'.pages = PagesFor(n) /\ export'.page = export.page
        /\ export'.written = export.written /\ export'.quiet = export.quiet
    BY <1>2, <2>1, <2>2 DEF ExportRows
  <2>4. Asked' = Asked /\ WrittenBefore' = WrittenBefore
        /\ FirstOf(Asked, WrittenBefore)' = FirstOf(Asked, WrittenBefore)
    <3>1. Asked' = Asked /\ \A m : FirstOf(Asked, m)' = FirstOf(Asked, m)
      BY <2>3, AskedStays
    <3>2. WrittenBefore' = WrittenBefore
      BY <2>3 DEF WrittenBefore
    <3>3. PICK m : m = WrittenBefore
      OBVIOUS
    <3> QED
      BY <3>1, <3>2, <3>3
  <2>5. export.quiet => WrittenInOrder'
    BY <1>2, <1>3, <2>1, <2>3, <2>4 DEF WrittenInOrder
  <2> QED
    BY <1>0, <1>2, <2>1, <2>3, <2>5 DEF ExportInv
<1>5. CASE ListOrders
  <2> DEFINE rows == OrdersPage(export.filters, RowId, export.page, PageLength)
             last == LastPage(export.page, export.pages)
             upto == WrittenBefore + Cardinality(rows)
  <2>1. /\ export # NoExport /\ export.at = "list" /\ UNCHANGED exportRuns
        /\ export' = [export EXCEPT !.written = @ \o InOrder(rows), !.page = @ + 1,
                        !.at = IF last THEN "close" ELSE "count"]
    BY <1>5 DEF ListOrders, NoExport
  <2>2. rows \in SUBSET DOMAIN book
    BY DEF OrdersPage, Matching
  <2> HIDE DEF rows
  <2>3. InOrder(rows) \in Seq(BookOrders)
    BY <2>2, InOrderTyped
  <2>9. export.written \o InOrder(rows) \in Seq(BookOrders) /\ export.page + 1 \in Nat \ {0}
    BY <1>2, <2>1, <2>3 DEF ExportRows
  <2> HIDE DEF last
  <2>4. /\ export' \in ExportRows /\ export'.filters = export.filters
        /\ export'.at = IF last THEN "close" ELSE "count"
        /\ export'.page = export.page + 1
        /\ export'.written = export.written \o InOrder(rows)
        /\ export'.quiet = export.quiet
    BY <1>2, <2>1, <2>9 DEF ExportRows
  <2>5. ASSUME export.quiet PROVE WrittenInOrder'
    <3>1. /\ export.written \o InOrder(rows) = FirstOf(Asked, upto)
          /\ upto = IF WrittenBefore + PageLength <= n THEN WrittenBefore + PageLength ELSE n
      BY <1>3, <2>1, <2>5, PageWritten DEF rows
    <3>2. Asked' = Asked /\ InOrder(Asked)' = InOrder(Asked)
          /\ \A m : FirstOf(Asked, m)' = FirstOf(Asked, m)
      BY <2>4, AskedStays
    <3>3. PICK page \in Nat \ {0} : page = export.page
      BY <1>2, <2>1 DEF ExportRows
    <3>4. PICK m \in Nat, size \in Nat \ {0} : m = WrittenBefore /\ size = PageLength
      BY <3>3, PagesReach, ExportConstants, <1>3 DEF WrittenBefore
    <3>5. WrittenBefore' = m + size
      <4>1. ((page + 1) - 1) * PageLength = (page - 1) * PageLength + PageLength
        BY PagesReach, <1>3
      <4> QED
        BY <2>4, <3>3, <3>4, <4>1 DEF WrittenBefore
    <3>6. /\ page >= PagesFor(n) => m + size >= n
          /\ page < PagesFor(n) => m + size <= n
      BY <3>3, <3>4, PagesReach DEF WrittenBefore
    <3>7. last <=> page >= PagesFor(n)
      BY <1>2, <1>3, <2>1, <2>5, <3>3 DEF last, LastPage, WrittenInOrder
    <3>8. PagesFor(n) \in Nat
      BY PagesReach
    <3> HIDE DEF upto
    <3>9. CASE last
      <4>1. upto = n
        BY <3>1, <3>4, <3>6, <3>7, <3>9
      <4>2. FirstOf(Asked, n) = InOrder(Asked)
        BY <1>3 DEF FirstOf, InOrder
      <4>3. export'.at = "close" /\ export'.written = InOrder(Asked)
        BY <2>4, <3>1, <3>9, <4>1, <4>2
      <4> QED
        BY <3>2, <4>3 DEF WrittenInOrder
    <3>10. CASE ~last
      <4>1. upto = m + size /\ m + size <= n
        BY <3>1, <3>3, <3>4, <3>6, <3>7, <3>8, <3>10
      <4>2. export'.at = "count" /\ export'.written = FirstOf(Asked, m + size)
        BY <2>4, <3>1, <3>10, <4>1
      <4>3. PICK k : k = m + size
        OBVIOUS
      <4>4. FirstOf(Asked, k)' = FirstOf(Asked, k)
        BY <3>2
      <4>5. FirstOf(Asked, WrittenBefore)' = FirstOf(Asked, k)
        BY <3>5, <4>3, <4>4
      <4> QED
        BY <1>3, <3>2, <3>5, <4>1, <4>2, <4>3, <4>5 DEF WrittenInOrder
    <3> QED
      BY <3>9, <3>10
  <2> QED
    BY <1>0, <1>2, <2>1, <2>4, <2>5 DEF ExportInv
<1>6. ASSUME export # NoExport, NEW status \in {"success", "error"},
             status = "success" => export.at = "close",
             CloseRun(status, Len(export.written))
      PROVE  ExportInv'
  <2>1. /\ export' = [export EXCEPT !.at = status]
        /\ exportRuns' = [exportRuns EXCEPT ![Len(exportRuns)] =
                            [status |-> status, rows |-> Len(export.written)]]
    BY <1>6 DEF CloseRun
  <2>2. export.written \in Seq(BookOrders) /\ Len(export.written) \in Nat
    BY <1>2, <1>6 DEF ExportRows
  <2>3. /\ exportRuns' \in Seq(RunRows) /\ Len(exportRuns') = Len(exportRuns)
        /\ exportRuns'[Len(exportRuns')] = [status |-> status, rows |-> Len(export.written)]
    <3>1. PICK run \in RunRows : run = [status |-> status, rows |-> Len(export.written)]
      BY <1>6, <2>2 DEF RunRows
    <3>2. exportRuns' = [exportRuns EXCEPT ![Len(exportRuns)] = run]
      BY <2>1, <3>1
    <3>3. Len(exportRuns) \in 1..Len(exportRuns)
      BY <1>0, <1>2, <1>6
    <3>4. exportRuns' \in Seq(RunRows) /\ Len(exportRuns') = Len(exportRuns)
          /\ exportRuns'[Len(exportRuns)] = run
      BY <1>0, <3>2, <3>3
    <3> QED
      BY <3>1, <3>4
  <2>4. /\ export' \in ExportRows /\ export'.filters = export.filters /\ export'.at = status
        /\ export'.written = export.written /\ export'.quiet = export.quiet
    BY <1>2, <1>6, <2>1 DEF ExportRows
  <2>5. ASSUME export.quiet PROVE WrittenInOrder'
    <3>1. Asked' = Asked /\ InOrder(Asked)' = InOrder(Asked)
      BY <2>4, AskedStays
    <3>2. CASE status = "success"
      <4>1. export.written = InOrder(Asked)
        BY <1>2, <1>6, <2>5, <3>2 DEF WrittenInOrder
      <4>2. Len(InOrder(Asked)) = n
        BY <1>3, AskedListed, InOrderTyped
      <4> QED
        BY <1>3, <2>3, <2>4, <3>1, <3>2, <4>1, <4>2 DEF WrittenInOrder
    <3>3. CASE status = "error"
      BY <2>4, <3>3 DEF WrittenInOrder
    <3> QED
      BY <1>6, <3>2, <3>3
  <2> QED
    BY <1>2, <1>6, <2>3, <2>4, <2>5 DEF ExportInv
<1>7. CASE FinishRun
  BY <1>6, <1>7 DEF FinishRun, NoExport
<1>8. CASE ExportFails
  BY <1>6, <1>8 DEF ExportFails, NoExport
<1>9. CASE ExportEnds
  BY <1>0, <1>9 DEF ExportEnds, ExportInv
<1> QED
  BY <1>1, <1>4, <1>5, <1>7, <1>8, <1>9 DEF ExportNext

LEMMA MirrorMovesKeepExport ==
  ASSUME MirrorInv, ExportInv, MirrorMovesOn(MirrorMoves), UNCHANGED focus, focus = "exports"
  PROVE  ExportInv'
<1>1. UNCHANGED exportRuns
  BY DEF MirrorMovesOn
<1>2. CASE export = NoExport
  BY <1>1, <1>2 DEF MirrorMovesOn, ExportInv
<1>3. CASE export # NoExport /\ UNCHANGED <<book, today>>
  <2>1. UNCHANGED export
    BY <1>3 DEF MirrorMovesOn
  <2>2. Asked' = Asked /\ InOrder(Asked)' = InOrder(Asked)
        /\ \A m : FirstOf(Asked, m)' = FirstOf(Asked, m)
    BY <1>3, <2>1, AskedStays
  <2>3. WrittenBefore' = WrittenBefore
    BY <2>1 DEF WrittenBefore
  <2>4. PICK m : m = WrittenBefore
    OBVIOUS
  <2>5. FirstOf(Asked, WrittenBefore)' = FirstOf(Asked, WrittenBefore)
    BY <2>2, <2>3, <2>4
  <2>6. WrittenInOrder => WrittenInOrder'
    BY <1>1, <2>1, <2>2, <2>3, <2>5 DEF WrittenInOrder
  <2> QED
    BY <1>1, <2>1, <2>6 DEF ExportInv
<1>4. CASE export # NoExport /\ ~UNCHANGED <<book, today>>
  <2>1. export' = [export EXCEPT !.quiet = FALSE]
    BY <1>4 DEF MirrorMovesOn
  <2>2. export' \in ExportRows /\ export'.quiet = FALSE
    BY <1>4, <2>1 DEF ExportInv, ExportRows
  <2> QED
    BY <1>1, <1>4, <2>2 DEF ExportInv
<1> QED
  BY <1>2, <1>3, <1>4

LEMMA ExportStays ==
  ASSUME MirrorInv, ExportInv, [BiAppNext]_biApp
  PROVE  ExportInv'
<1>0. UNCHANGED focus
  BY DEF BiAppNext, SyncMoves, ReadersMove, LeadsMove, ExportMoves, biApp
<1>1. CASE focus # "exports" /\ UNCHANGED exportVars
  BY <1>0, <1>1 DEF ExportInv, exportVars
<1>2. CASE focus = "exports" /\ UNCHANGED <<mirrorTables, exportVars>>
  <2>2. UNCHANGED <<book, today, export, exportRuns>>
    BY <1>2 DEF mirrorTables, exportVars
  <2>3. Asked' = Asked /\ InOrder(Asked)' = InOrder(Asked)
        /\ \A m : FirstOf(Asked, m)' = FirstOf(Asked, m)
    BY <2>2, AskedStays
  <2>4. WrittenBefore' = WrittenBefore
    BY <2>2 DEF WrittenBefore
  <2>5. PICK m : m = WrittenBefore
    OBVIOUS
  <2>6. FirstOf(Asked, WrittenBefore)' = FirstOf(Asked, WrittenBefore)
    BY <2>3, <2>4, <2>5
  <2>7. WrittenInOrder => WrittenInOrder'
    BY <2>2, <2>3, <2>4, <2>6 DEF WrittenInOrder
  <2> QED
    BY <1>0, <2>2, <2>7 DEF ExportInv
<1>3. CASE focus = "exports" /\ ExportNext /\ UNCHANGED mirrorTables
  BY <1>0, <1>3, ExportMovesKeep DEF mirrorTables
<1>4. CASE focus = "exports" /\ MirrorMovesOn(MirrorMoves)
  BY <1>0, <1>4, MirrorMovesKeepExport
<1> QED
  BY <1>1, <1>2, <1>3, <1>4 DEF BiAppNext, SyncMoves, ReadersMove, LeadsMove, ExportMoves, biApp

(* An export that succeeded while no order changed and no midnight passed  *)
(* has each order of its filters once, the later first, and its run says   *)
(* how many; whatever changed between two pages of others                  *)
(* (exports.py, _iter_rows).                                               *)
THEOREM ExportsAreExact == FairBiAppSpec => []ExportIsExact
<1>1. BiAppInit => MirrorInv /\ ExportInv
  <2>1. BiAppInit => MirrorInv
    BY LeadsStart DEF AppInv
  <2>2. BiAppInit => ExportInv
    BY DEF BiAppInit, ExportInit, ExportInv
  <2> QED
    BY <2>1, <2>2
<1>2. MirrorInv /\ ExportInv /\ [BiAppNext]_biApp => MirrorInv' /\ ExportInv'
  BY MirrorStays, ExportStays
<1>3. MirrorInv /\ ExportInv => ExportIsExact
  BY DEF ExportInv, ExportIsExact, WrittenInOrder, Asked, NoExport
<1> QED
  BY <1>1, <1>2, <1>3, PTL DEF FairBiAppSpec
=============================================================================
