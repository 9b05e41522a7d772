-------------------------- MODULE ErpServicesProofs --------------------------
(***************************************************************************)
(* What the ERP's services keep, for any orders, quotes, sessions and       *)
(* requests, and any of the components in focus.                            *)
(*                                                                         *)
(* Sessions (erp/sessions.py).  The browser keeps one refresh token and the *)
(* row keeps the hash of one; they disagree while a request is open, for    *)
(* good when its answer is lost, and rightly once the session has ended.     *)
(* AccessInv says it per session: of a session that nothing disturbed (no   *)
(* lost answer, no second request during the first), an open request is the *)
(* only one, what it read is what the row has, and with none open the       *)
(* browser holds the token of the row.  Such a session is therefore never   *)
(* ended as a reuse of its token.                                           *)
(*                                                                         *)
(* Quotes (services/shipping.py).  A selection reads without a lock, takes   *)
(* the other choices of its order, then its own row, and stores them all    *)
(* under the partial unique index of selected quotes.  ShippingInv says     *)
(* that no two transactions hold one row, an index entry included, and that *)
(* a choice about to be stored holds its entry together with every choice   *)
(* it replaces; one that gives no reason replaces none.                     *)
(***************************************************************************)
EXTENDS ErpServices, FiniteSetTheorems, WellFoundedInduction, TLAPS

Ends == {"operator_inactive", "refresh_reuse", "logout", "revoked_by_user"}
AccessRow == [current : Nat, previous : Nat, ended : {"no", "all"} \cup Ends]
AccessRequests ==
  [do : {"login", "rotate"} \cup Ends, locks : {{}}, session : Logins, read : AccessRow]
Answers == [do : {"answer"}, locks : {{}}, session : Logins, token : Nat]

Serves(s, l) == tx[s] # NoTransaction /\ tx[s].session = l

(* The browser of a session that did not end holds its current token.      *)
HoldsToken(l) == access[l].ended = "no" => cookie[l] = access[l].current

(* The request about an undisturbed session is alone, and knows it.        *)
RequestIsAlone(s, l) ==
  /\ \A t \in Sessions : Serves(t, l) => t = s
  /\ tx[s].do # "refresh_reuse"
  /\ tx[s].do # "login" => access[l].current # NoToken
  /\ tx[s].do = "answer" => tx[s].token = access[l].current
  /\ tx[s].do # "answer" => HoldsToken(l)

Undisturbed(l) ==
  /\ access[l].ended # "refresh_reuse"
  /\ (\A s \in Sessions : ~Serves(s, l)) => HoldsToken(l)
  /\ \A s \in Sessions : Serves(s, l) => RequestIsAlone(s, l)

AccessIsServed ==
  /\ commits \in Nat
  /\ tx \in [Sessions -> {NoTransaction} \cup AccessRequests \cup Answers]
  /\ \A l \in Logins \ disturbed : Undisturbed(l)

AccessInv ==
  /\ AccessTypeOK
  /\ focus = "access" => AccessIsServed
  /\ focus # "access" => \A l \in Logins : access[l].current = NoToken

LEMMA AccessInitHolds == ServicesInit => AccessInv
<1> SUFFICES ASSUME ServicesInit PROVE AccessInv
  OBVIOUS
<1>1. AccessInit /\ tx = [s \in Sessions |-> NoTransaction]
  BY DEF ServicesInit, EmptyLedgers
<1>2. AccessTypeOK
  BY <1>1 DEF AccessInit, AccessTypeOK, NoToken
<1>3. \A l \in Logins : access[l].current = NoToken /\ cookie[l] = NoToken
                        /\ access[l].ended = "no"
  BY <1>1 DEF AccessInit
<1>4. commits \in Nat
  <2>1. Budget[focus] \in 0..MaxCommits /\ MaxCommits \in Nat
    BY BudgetTyped, CommitBound DEF ServicesInit
  <2> QED
    BY <2>1 DEF ServicesInit
<1>5. \A s \in Sessions, l \in Logins : ~Serves(s, l)
  BY <1>1 DEF Serves
<1>6. \A l \in Logins : Undisturbed(l)
  BY <1>3, <1>5 DEF Undisturbed, HoldsToken
<1> QED
  BY <1>1, <1>2, <1>3, <1>4, <1>6 DEF AccessInv, AccessIsServed

(* An element of a session's state, by what it is doing.                   *)
LEMMA AccessTxTyped ==
  ASSUME AccessIsServed, NEW s \in Sessions
  PROVE  /\ tx[s].do \in {"none", "answer", "login", "rotate"} \cup Ends
         /\ tx[s] = NoTransaction <=> tx[s].do = "none"
         /\ tx[s] # NoTransaction => tx[s].session \in Logins
         /\ tx[s].do \in {"login", "rotate"} \cup Ends =>
              tx[s] \in AccessRequests /\ tx[s].read \in AccessRow
         /\ tx[s].do = "answer" => tx[s] \in Answers /\ tx[s].token \in Nat
<1>1. tx[s] \in {NoTransaction} \cup AccessRequests \cup Answers
  BY DEF AccessIsServed
<1>2. CASE tx[s] = NoTransaction
  <2>1. tx[s].do = "none"
    BY <1>2 DEF NoTransaction
  <2> QED
    BY <2>1, <1>2 DEF Ends
<1>3. CASE tx[s] \in AccessRequests
  <2>1. tx[s].do \in {"login", "rotate"} \cup Ends /\ tx[s].session \in Logins
        /\ tx[s].read \in AccessRow
    BY <1>3 DEF AccessRequests
  <2>2. tx[s] # NoTransaction
    BY <2>1 DEF NoTransaction, Ends
  <2> QED
    BY <2>1, <2>2, <1>3 DEF Ends
<1>4. CASE tx[s] \in Answers
  <2>1. tx[s].do = "answer" /\ tx[s].session \in Logins /\ tx[s].token \in Nat
    BY <1>4 DEF Answers
  <2>2. tx[s] # NoTransaction
    BY <2>1 DEF NoTransaction
  <2> QED
    BY <2>1, <2>2, <1>4 DEF Ends
<1> QED
  BY <1>1, <1>2, <1>3, <1>4

(* A request begins.                                                       *)
LEMMA AskHolds ==
  ASSUME AccessInv, focus = "access", focus' = "access",
         NEW s \in Sessions, NEW l \in Logins,
         NEW what \in {"login", "rotate"} \cup Ends,
         Asks(s, l, what),
         l \notin disturbed /\ InHandOf(l) = {} =>
           /\ what # "refresh_reuse"
           /\ what # "login" => access[l].current # NoToken
  PROVE  AccessInv'
<1> DEFINE new == [do |-> what, locks |-> {}, session |-> l, read |-> access[l]]
<1>0. AccessIsServed /\ AccessTypeOK
  BY DEF AccessInv
<1>1. /\ tx[s] = NoTransaction /\ tx' = [tx EXCEPT ![s] = new]
      /\ commits' = commits
      /\ access' = access /\ cookie' = cookie /\ active' = active
      /\ disturbed' = IF InHandOf(l) = {} THEN disturbed ELSE disturbed \cup {l}
  BY DEF Asks, Starts, IsIdle
<1>2. access[l] \in AccessRow
  BY <1>0 DEF AccessTypeOK, AccessRow, Ends
<1>3. new \in AccessRequests
  BY <1>2 DEF AccessRequests
<1>4. tx' \in [Sessions -> {NoTransaction} \cup AccessRequests \cup Answers]
  BY <1>0, <1>1, <1>3 DEF AccessIsServed
<1>5. AccessTypeOK'
  BY <1>0, <1>1 DEF AccessTypeOK
<1>6. new # NoTransaction
  <2>1. new.do # "none"
    BY DEF Ends
  <2> QED
    BY <2>1 DEF NoTransaction
<1>7. tx'[s] = new /\ \A t \in Sessions \ {s} : tx'[t] = tx[t]
  BY <1>0, <1>1 DEF AccessIsServed
<1>8. \A t \in Sessions, k \in Logins :
        Serves(t, k)' <=> IF t = s THEN k = l ELSE Serves(t, k)
  BY <1>6, <1>7 DEF Serves
<1>9. \A t \in Sessions : Serves(t, l) <=> t \in InHandOf(l)
  BY DEF Serves, InHandOf, IsIdle
<1>10. ASSUME NEW k \in Logins \ disturbed' PROVE Undisturbed(k)'
  <2>1. k \notin disturbed /\ Undisturbed(k)
    BY <1>0, <1>1, <1>10 DEF AccessIsServed
  <2>2. CASE k # l
    <3>1. \A t \in Sessions : Serves(t, k)' <=> Serves(t, k)
      BY <1>1, <1>8, <2>2 DEF Serves
    <3>2. \A t \in Sessions : Serves(t, k) => tx'[t] = tx[t]
      BY <1>1, <1>7 DEF Serves
    <3>3. \A t \in Sessions : Serves(t, k) => RequestIsAlone(t, k)'
      BY <3>1, <3>2, <2>1, <1>1 DEF Undisturbed, RequestIsAlone, HoldsToken
    <3> QED
      BY <3>1, <3>3, <2>1, <1>1 DEF Undisturbed, HoldsToken
  <2>3. CASE k = l
    <3>1. InHandOf(l) = {}
      BY <1>1, <1>10, <2>3
    <3>2. \A t \in Sessions : Serves(t, l)' <=> t = s
      BY <3>1, <1>8, <1>9
    <3>3. HoldsToken(l)
      BY <3>1, <1>9, <2>1, <2>3 DEF Undisturbed
    <3>4. tx'[s].do = what /\ what # "answer" /\ what # "refresh_reuse"
      BY <1>7, <2>1, <2>3, <3>1 DEF Ends
    <3>5. RequestIsAlone(s, l)'
      <4>1. \A t \in Sessions : Serves(t, l)' => t = s
        BY <3>2
      <4>2. HoldsToken(l)'
        BY <3>3, <1>1 DEF HoldsToken
      <4>3. what # "login" => access'[l].current # NoToken
        BY <1>1, <1>10, <2>3, <3>1
      <4> QED
        BY <3>4, <4>1, <4>2, <4>3 DEF RequestIsAlone
    <3> QED
      BY <2>1, <2>3, <3>2, <3>5, <1>1 DEF Undisturbed
  <2> QED
    BY <2>2, <2>3
<1> QED
  BY <1>0, <1>1, <1>4, <1>5, <1>10 DEF AccessInv, AccessIsServed

(* A request ends, with an answer or without one.                          *)
LEMMA LeavesHolds ==
  ASSUME AccessIsServed, AccessTypeOK, AccessTypeOK', NEW s \in Sessions,
         NEW l \in Logins, tx[s].session = l,
         tx[s] # NoTransaction, commits' \in Nat,
         NEW after \in {NoTransaction} \cup Answers,
         tx' = [tx EXCEPT ![s] = after],
         after \in Answers => after.session = l,
         disturbed \subseteq disturbed',
         \A k \in Logins \ {l} : access'[k] = access[k] /\ cookie'[k] = cookie[k],
         l \notin disturbed' =>
           /\ access'[l].ended # "refresh_reuse"
           /\ after = NoTransaction => HoldsToken(l)'
           /\ after \in Answers => /\ access'[l].current # NoToken
                                   /\ after.token = access'[l].current
  PROVE  AccessIsServed'
<1>2. tx' \in [Sessions -> {NoTransaction} \cup AccessRequests \cup Answers]
  BY DEF AccessIsServed
<1>3. tx'[s] = after /\ \A t \in Sessions \ {s} : tx'[t] = tx[t]
  BY DEF AccessIsServed
<1>4. ASSUME NEW k \in Logins \ disturbed' PROVE Undisturbed(k)'
  <2>1. k \in Logins \ disturbed /\ Undisturbed(k)
    BY <1>4 DEF AccessIsServed
  <2>2. CASE k # l
    <3>1. \A t \in Sessions : Serves(t, k)' <=> Serves(t, k)
      BY <1>3, <2>2 DEF Serves
    <3>2. \A t \in Sessions : Serves(t, k) => tx'[t] = tx[t]
      BY <1>3, <2>2 DEF Serves
    <3>3. access'[k] = access[k] /\ cookie'[k] = cookie[k]
      BY <2>2, <1>4
    <3>4. \A t \in Sessions : Serves(t, k) => RequestIsAlone(t, k)'
      BY <3>1, <3>2, <3>3, <2>1 DEF Undisturbed, RequestIsAlone, HoldsToken
    <3> QED
      BY <3>1, <3>3, <3>4, <2>1 DEF Undisturbed, HoldsToken
  <2>3. CASE k = l
    <3>1. Serves(s, l)
      BY DEF Serves
    <3>2. \A t \in Sessions \ {s} : ~Serves(t, l)
      BY <3>1, <2>1, <2>3 DEF Undisturbed, RequestIsAlone
    <3>3. \A t \in Sessions \ {s} : ~Serves(t, l)'
      BY <3>2, <1>3, <2>3, <1>4 DEF Serves
    <3>4. CASE after = NoTransaction
      <4>1. \A t \in Sessions : ~Serves(t, k)'
        BY <3>3, <3>4, <1>3, <2>3 DEF Serves
      <4> QED
        BY <4>1, <2>3, <3>4, <1>4 DEF Undisturbed
    <3>5. CASE after \in Answers
      <4>1. after.do = "answer"
        BY <3>5 DEF Answers
      <4>2. \A t \in Sessions : Serves(t, k)' => t = s
        BY <3>3, <2>3, <1>3 DEF Serves
      <4>3. RequestIsAlone(s, k)'
        BY <4>1, <4>2, <3>5, <2>3, <1>3, <1>4 DEF RequestIsAlone
      <4>4. Serves(s, k)'
        <5>1. after # NoTransaction
          BY <4>1 DEF NoTransaction
        <5> QED
          BY <5>1, <1>3, <2>3, <3>5 DEF Serves
      <4> QED
        BY <4>2, <4>3, <4>4, <2>3, <1>4 DEF Undisturbed
    <3> QED
      BY <3>4, <3>5
  <2> QED
    BY <2>2, <2>3
<1> QED
  BY <1>2, <1>4 DEF AccessIsServed

LEMMA CommitHolds ==
  ASSUME AccessInv, focus = "access", focus' = "access",
         NEW s \in Sessions, CommitAccess(s)
  PROVE  AccessInv'
<1>l. PICK l : l = tx[s].session
  OBVIOUS
<1> DEFINE d == tx[s].do
           row == Becomes(s)
           new == [do |-> "answer", locks |-> {}, session |-> l, token |-> NewToken]
           after == IF d \in {"login", "rotate"} THEN new ELSE NoTransaction
<1>0. AccessIsServed /\ AccessTypeOK
  BY DEF AccessInv
<1>1. /\ tx[s] # NoTransaction /\ d # "answer"
      /\ tx' = [tx EXCEPT ![s] = after]
      /\ commits' = commits + 1
      /\ access' = [access EXCEPT ![l] = row]
      /\ cookie' = [cookie EXCEPT ![l] = IF d = "logout" THEN NoToken ELSE cookie[l]]
      /\ active' = active /\ disturbed' = disturbed
  BY <1>l DEF CommitAccess, IsIdle
<1>2. /\ l \in Logins /\ d \in {"login", "rotate"} \cup Ends
      /\ tx[s].read \in AccessRow
  BY <1>0, <1>1, <1>l, AccessTxTyped
<1>3. access[l] \in AccessRow /\ NewToken \in Nat \ {NoToken}
  BY <1>0, <1>2 DEF AccessTypeOK, AccessRow, Ends, NewToken, NoToken, AccessIsServed
<1>4. /\ row \in AccessRow
      /\ d \in {"login", "rotate"} => /\ row.current = NewToken
                                      /\ row.ended = access[l].ended
      /\ d \in Ends => row.ended = d /\ row.current = access[l].current
  <2>1. CASE d = "login"
    BY <2>1, <1>3, <1>l DEF Becomes, AccessRow, Ends
  <2>2. CASE d = "rotate"
    <3>1. row = [access[l] EXCEPT !.previous = tx[s].read.current, !.current = NewToken]
      BY <2>2, <1>l DEF Becomes, Rotated
    <3>2. tx[s].read.current \in Nat
      BY <1>2 DEF AccessRow
    <3> QED
      BY <3>1, <3>2, <2>2, <1>3 DEF AccessRow, Ends
  <2>3. CASE d \in Ends
    <3>1. d # "login" /\ d # "rotate"
      BY <2>3 DEF Ends
    <3>2. row = [access[l] EXCEPT !.ended = d]
      BY <3>1, <1>l DEF Becomes
    <3> QED
      BY <3>1, <3>2, <2>3, <1>3 DEF AccessRow
  <2> QED
    BY <2>1, <2>2, <2>3, <1>2
<1>5. access'[l] = row /\ \A k \in Logins \ {l} : access'[k] = access[k] /\ cookie'[k] = cookie[k]
  BY <1>0, <1>1, <1>2 DEF AccessTypeOK
<1>6. AccessTypeOK'
  <2>1. access \in [Logins -> AccessRow]
    BY <1>0 DEF AccessTypeOK, AccessRow, Ends
  <2>2. access' \in [Logins -> AccessRow]
    BY <2>1, <1>1, <1>4
  <2>3. cookie' \in [Logins -> Nat]
    BY <1>0, <1>1 DEF AccessTypeOK, NoToken
  <2> QED
    BY <2>2, <2>3, <1>0, <1>1 DEF AccessTypeOK, AccessRow, Ends
<1>7. after \in {NoTransaction} \cup Answers /\ (after \in Answers => d \in {"login", "rotate"})
  <2>1. new \in Answers
    BY <1>2, <1>3 DEF Answers
  <2>2. NoTransaction \notin Answers
    BY DEF NoTransaction, Answers
  <2> QED
    BY <2>1, <2>2
<1>8. ASSUME l \notin disturbed
      PROVE  /\ access'[l].ended # "refresh_reuse"
             /\ after = NoTransaction => HoldsToken(l)'
             /\ after \in Answers => /\ access'[l].current # NoToken
                                     /\ after.token = access'[l].current
  <2>1. Undisturbed(l) /\ RequestIsAlone(s, l)
    <3>1. Serves(s, l)
      BY <1>1, <1>l DEF Serves
    <3> QED
      BY <3>1, <1>0, <1>2, <1>8 DEF AccessIsServed, Undisturbed
  <2>2. CASE d \in {"login", "rotate"}
    <3>1. after = new /\ new # NoTransaction
      BY <2>2 DEF NoTransaction
    <3> QED
      BY <3>1, <2>1, <2>2, <1>3, <1>4, <1>5 DEF Undisturbed
  <2>3. CASE d \in Ends
    <3>1. access'[l].ended = d /\ d # "no" /\ d # "refresh_reuse"
      BY <2>1, <2>3, <1>4, <1>5 DEF RequestIsAlone, Ends
    <3>2. ~(after \in Answers)
      BY <2>3, <1>7 DEF Ends
    <3>3. HoldsToken(l)'
      BY <3>1 DEF HoldsToken
    <3> QED
      BY <3>1, <3>2, <3>3
  <2> QED
    BY <2>2, <2>3, <1>2
<1>9. after \in Answers => after.session = l
  BY <1>7
<1>10. commits' \in Nat
  BY <1>0, <1>1 DEF AccessIsServed
<1>11. AccessIsServed'
  <2> HIDE DEF after
  <2>1. disturbed \subseteq disturbed' /\ (l \notin disturbed' => l \notin disturbed)
    BY <1>1
  <2> QED
    BY <2>1, <1>0, <1>l, <1>1, <1>2, <1>5, <1>6, <1>7, <1>8, <1>9, <1>10, LeavesHolds
<1> QED
  BY <1>0, <1>6, <1>11 DEF AccessInv

LEMMA AnswerHolds ==
  ASSUME AccessInv, focus = "access", focus' = "access",
         NEW s \in Sessions, AnswerArrives(s)
  PROVE  AccessInv'
<1>l. PICK l : l = tx[s].session
  OBVIOUS
<1>0. AccessIsServed /\ AccessTypeOK
  BY DEF AccessInv
<1>1. /\ tx[s].do = "answer" /\ cookie' = [cookie EXCEPT ![l] = tx[s].token]
      /\ tx' = [tx EXCEPT ![s] = NoTransaction] /\ commits' = commits
      /\ active' = active /\ access' = access /\ disturbed' = disturbed
  BY <1>l DEF AnswerArrives
<1>2. tx[s] # NoTransaction /\ l \in Logins /\ tx[s].token \in Nat
  BY <1>0, <1>1, <1>l, AccessTxTyped
<1>3. cookie' \in [Logins -> Nat] /\ cookie'[l] = tx[s].token
      /\ \A k \in Logins \ {l} : cookie'[k] = cookie[k]
  BY <1>0, <1>1, <1>2 DEF AccessTypeOK
<1>4. AccessTypeOK'
  BY <1>0, <1>1, <1>3 DEF AccessTypeOK
<1>5. ASSUME l \notin disturbed
      PROVE  access'[l].ended # "refresh_reuse" /\ HoldsToken(l)'
  <2>1. Serves(s, l)
    BY <1>2, <1>l DEF Serves
  <2>2. Undisturbed(l) /\ RequestIsAlone(s, l)
    BY <2>1, <1>0, <1>2, <1>5 DEF AccessIsServed, Undisturbed
  <2> QED
    BY <2>2, <1>1, <1>3 DEF Undisturbed, RequestIsAlone, HoldsToken
<1>6. NoTransaction \notin Answers
  BY DEF NoTransaction, Answers
<1>7. commits' \in Nat
  BY <1>0, <1>1 DEF AccessIsServed
<1>8. AccessIsServed'
  BY <1>0, <1>1, <1>2, <1>3, <1>4, <1>5, <1>6, <1>7, <1>l, LeavesHolds
<1> QED
  BY <1>0, <1>4, <1>8 DEF AccessInv

LEMMA RollBackHolds ==
  ASSUME AccessInv, focus = "access", focus' = "access",
         NEW s \in Sessions, AccessRollsBack(s)
  PROVE  AccessInv'
<1>l. PICK l : l = tx[s].session
  OBVIOUS
<1>0. AccessIsServed /\ AccessTypeOK
  BY DEF AccessInv
<1>1. /\ tx[s] # NoTransaction
      /\ tx' = [tx EXCEPT ![s] = NoTransaction] /\ commits' = commits
      /\ disturbed' = IF tx[s].do = "answer" THEN disturbed \cup {l} ELSE disturbed
      /\ active' = active /\ access' = access /\ cookie' = cookie
  BY <1>l DEF AccessRollsBack, RollsBack, IsIdle
<1>2. l \in Logins
  BY <1>0, <1>1, <1>l, AccessTxTyped
<1>4. AccessTypeOK'
  BY <1>0, <1>1, <1>2 DEF AccessTypeOK
<1>5. ASSUME l \notin disturbed'
      PROVE  access'[l].ended # "refresh_reuse" /\ HoldsToken(l)'
  <2>1. Serves(s, l)
    BY <1>1, <1>l DEF Serves
  <2>2. tx[s].do # "answer" /\ l \notin disturbed
    BY <1>1, <1>5
  <2>3. Undisturbed(l) /\ RequestIsAlone(s, l)
    BY <2>1, <2>2, <1>0, <1>2 DEF AccessIsServed, Undisturbed
  <2> QED
    BY <2>2, <2>3, <1>1 DEF Undisturbed, RequestIsAlone, HoldsToken
<1>6. NoTransaction \notin Answers
  BY DEF NoTransaction, Answers
<1>7. commits' \in Nat /\ disturbed \subseteq disturbed'
  BY <1>0, <1>1 DEF AccessIsServed
<1>8. AccessIsServed'
  BY <1>0, <1>1, <1>2, <1>4, <1>5, <1>6, <1>7, <1>l, LeavesHolds
<1> QED
  BY <1>0, <1>4, <1>8 DEF AccessInv

LEMMA RevokeHolds ==
  ASSUME AccessInv, focus = "access", focus' = "access",
         NEW kept \in SUBSET Logins, NEW stays \in BOOLEAN, RevokeAll(kept, stays)
  PROVE  AccessInv'
<1>0. AccessIsServed /\ AccessTypeOK
  BY DEF AccessInv
<1>1. /\ tx' = tx /\ cookie' = cookie /\ disturbed' = disturbed /\ active' = stays
      /\ commits' = commits + 1
      /\ access' = [l \in Logins |->
            IF l \in kept \/ access[l].current = NoToken \/ access[l].ended # "no"
              THEN access[l] ELSE [access[l] EXCEPT !.ended = "all"]]
  BY DEF RevokeAll
<1>2. access \in [Logins -> AccessRow]
  BY <1>0 DEF AccessTypeOK, AccessRow, Ends
<1>3. ASSUME NEW l \in Logins
      PROVE  /\ access'[l] \in AccessRow /\ access'[l].current = access[l].current
             /\ access'[l].ended \in {access[l].ended, "all"}
  <2>1. access[l] \in AccessRow
    BY <1>2
  <2> QED
    BY <1>1, <2>1 DEF AccessRow
<1>4. AccessTypeOK'
  <2>1. access' \in [Logins -> AccessRow]
    BY <1>1, <1>3
  <2> QED
    BY <2>1, <1>0, <1>1 DEF AccessTypeOK, AccessRow, Ends
<1>5. ASSUME NEW l \in Logins \ disturbed' PROVE Undisturbed(l)'
  <2>1. Undisturbed(l)
    BY <1>0, <1>1, <1>5 DEF AccessIsServed
  <2>2. \A s \in Sessions : Serves(s, l)' <=> Serves(s, l)
    BY <1>1 DEF Serves
  <2>3. /\ access'[l].current = access[l].current
        /\ access'[l].ended \in {access[l].ended, "all"}
    BY <1>3
  <2>4. HoldsToken(l) => HoldsToken(l)'
    BY <2>3, <1>1 DEF HoldsToken
  <2>5. ASSUME NEW s \in Sessions, RequestIsAlone(s, l) PROVE RequestIsAlone(s, l)'
    BY <2>2, <2>3, <2>4, <2>5, <1>1 DEF RequestIsAlone, Serves
  <2> QED
    BY <2>1, <2>2, <2>3, <2>4, <2>5 DEF Undisturbed
<1>6. commits' \in Nat
  BY <1>0, <1>1 DEF AccessIsServed
<1>7. AccessIsServed'
  BY <1>0, <1>1, <1>5, <1>6 DEF AccessIsServed
<1> QED
  BY <1>4, <1>7 DEF AccessInv

(* A request that finds the row as it is.                                  *)
LEMMA RequestHolds ==
  ASSUME AccessInv, focus = "access", focus' = "access",
         NEW s \in Sessions, NEW l \in Logins,
         \/ AskLogin(s, l) \/ AskRefresh(s, l)
         \/ \E reason \in {"logout", "revoked_by_user"} : AskEnd(s, l, reason)
  PROVE  AccessInv'
<1>0. AccessIsServed /\ AccessTypeOK
  BY DEF AccessInv
<1>1. CASE AskLogin(s, l)
  BY <1>1, AskHolds DEF AskLogin, Ends
<1>2. CASE AskRefresh(s, l)
  <2>1. /\ cookie[l] # NoToken /\ Renewal(access[l], cookie[l]) # "refuse"
        /\ Asks(s, l, Renewal(access[l], cookie[l]))
    BY <1>2 DEF AskRefresh
  <2>2. /\ access[l] \in AccessRow /\ cookie[l] \in Nat
    BY <1>0 DEF AccessTypeOK, AccessRow, Ends
  <2>3. /\ access[l].ended = "no"
        /\ \/ /\ cookie[l] = access[l].current
              /\ Renewal(access[l], cookie[l]) \in {"rotate", "operator_inactive"}
           \/ /\ cookie[l] # access[l].current /\ cookie[l] = access[l].previous
              /\ Renewal(access[l], cookie[l]) = "refresh_reuse"
    BY <2>1 DEF Renewal
  <2>4. ASSUME l \notin disturbed, InHandOf(l) = {}
        PROVE  cookie[l] = access[l].current
    <3>1. \A t \in Sessions : ~Serves(t, l)
      BY <2>4 DEF Serves, InHandOf, IsIdle
    <3>2. HoldsToken(l)
      BY <3>1, <2>4, <1>0 DEF AccessIsServed, Undisturbed
    <3> QED
      BY <3>2, <2>3 DEF HoldsToken
  <2> QED
    BY <2>1, <2>3, <2>4, AskHolds DEF Ends
<1>3. ASSUME NEW reason \in {"logout", "revoked_by_user"}, AskEnd(s, l, reason)
      PROVE  AccessInv'
  BY <1>3, AskHolds DEF AskEnd, Ends
<1> QED
  BY <1>1, <1>2, <1>3

LEMMA AccessStepHolds ==
  ASSUME AccessInv, focus = "access", focus' = "access", AccessNext
  PROVE  AccessInv'
<1>1. CASE RevokeSome
  <2>1. active \in BOOLEAN
    BY DEF AccessInv, AccessTypeOK
  <2> QED
    BY <1>1, <2>1, RevokeHolds DEF RevokeSome
<1>2. ASSUME NEW s \in Sessions, AccessStep(s) PROVE AccessInv'
  <2>1. ASSUME NEW l \in Logins,
               \/ AskLogin(s, l) \/ AskRefresh(s, l)
               \/ \E reason \in {"logout", "revoked_by_user"} : AskEnd(s, l, reason)
        PROVE  AccessInv'
    BY <2>1, RequestHolds
  <2> QED
    BY <1>2, <2>1, CommitHolds, AnswerHolds, RollBackHolds DEF AccessStep
<1> QED
  BY <1>1, <1>2 DEF AccessNext

LEMMA AccessInvHolds == ServicesSpec => []AccessInv
<1>1. AccessInv /\ [ServicesNext]_services => AccessInv'
  <2> SUFFICES ASSUME AccessInv, [ServicesNext]_services PROVE AccessInv'
    OBVIOUS
  <2>1. CASE focus = "access" /\ focus' = "access" /\ AccessNext
    BY <2>1, AccessStepHolds
  <2>2. CASE focus # "access" /\ focus' = focus /\ UNCHANGED accessVars
    BY <2>2 DEF accessVars, AccessInv, AccessTypeOK
  <2>3. CASE UNCHANGED services
    <3>1. UNCHANGED <<focus, accessVars, tx, commits>>
      BY <2>3 DEF services, ledgers
    <3>2. \A s \in Sessions, l \in Logins : Serves(s, l)' <=> Serves(s, l)
      BY <3>1 DEF Serves
    <3>3. \A l \in Logins : Undisturbed(l) => Undisturbed(l)'
      BY <3>1, <3>2 DEF Undisturbed, RequestIsAlone, HoldsToken, accessVars, Serves
    <3> QED
      BY <3>1, <3>3 DEF accessVars, AccessInv, AccessTypeOK, AccessIsServed
  <2> QED
    BY <2>1, <2>2, <2>3 DEF ServicesNext
<1> QED
  BY <1>1, AccessInitHolds, PTL DEF ServicesSpec

(* A step ends a session for good.                                         *)
EndsForGood == \A l \in Logins : access[l].ended # "no" => access'[l].ended # "no"

LEMMA EndsAreFinal ==
  ASSUME AccessInv, [ServicesNext]_services
  PROVE  EndsForGood
<1>0. AccessTypeOK
  BY DEF AccessInv
<1>1. CASE access' = access
  BY <1>1 DEF EndsForGood
<1>2. ASSUME NEW kept, NEW stays, RevokeAll(kept, stays) PROVE EndsForGood
  BY <1>2 DEF RevokeAll, EndsForGood
<1>3. ASSUME focus = "access", NEW s \in Sessions, CommitAccess(s) PROVE EndsForGood
  <2>1. AccessIsServed
    BY <1>3 DEF AccessInv
  <2>2. /\ tx[s].do # "answer" /\ tx[s] # NoTransaction
        /\ access' = [access EXCEPT ![tx[s].session] = Becomes(s)]
    BY <1>3 DEF CommitAccess, IsIdle
  <2>3. tx[s].do \in {"login", "rotate"} \cup Ends /\ tx[s].session \in Logins
    BY <2>1, <2>2, AccessTxTyped
  <2>4. access[tx[s].session] \in AccessRow
    BY <1>0, <2>3 DEF AccessTypeOK, AccessRow, Ends
  <2>5. Becomes(s).ended \in {access[tx[s].session].ended} \cup Ends
    BY <2>3, <2>4 DEF Becomes, Rotated, AccessRow, Ends
  <2> QED
    BY <1>0, <2>2, <2>3, <2>5 DEF EndsForGood, AccessTypeOK, Ends
<1> QED
  BY <1>1, <1>2, <1>3
     DEF ServicesNext, services, accessVars, AccessNext, RevokeSome, AccessStep,
         AskLogin, AskRefresh, AskEnd, Asks, AnswerArrives, AccessRollsBack

(* An ended session is never renewed, and whoever asks one thing at a time *)
(* keeps the token of theirs: for any sessions, requests, tokens lost or   *)
(* replaced, and ends by anybody at any moment (sessions.py).              *)
THEOREM SessionsAreLasting == ServicesSpec => SessionsLast
<1>1. AccessInv => AccessTypeOK
  BY DEF AccessInv
<1>2. AccessInv => UndisturbedStaysIn
  <2> SUFFICES ASSUME AccessInv, NEW l \in Logins \ disturbed, access[l].current # NoToken
               PROVE  /\ access[l].ended # "refresh_reuse"
                      /\ access[l].ended = "no" /\ InHandOf(l) = {} =>
                           cookie[l] = access[l].current
    BY DEF UndisturbedStaysIn
  <2>1. Undisturbed(l)
    BY DEF AccessInv, AccessIsServed
  <2>2. \A s \in Sessions : Serves(s, l) <=> s \in InHandOf(l)
    BY DEF Serves, InHandOf, IsIdle
  <2> QED
    BY <2>1, <2>2 DEF Undisturbed, HoldsToken
<1>3. AccessInv /\ [ServicesNext]_services => EndsForGood
  BY EndsAreFinal
<1>4. ServicesSpec => [][EndsForGood]_access
  BY <1>3, AccessInvHolds, PTL DEF ServicesSpec, services, accessVars
<1>5. ServicesSpec => EndedStaysEnded
  BY <1>4 DEF EndsForGood, EndedStaysEnded
<1> QED
  BY <1>1, <1>2, <1>5, AccessInvHolds, PTL DEF SessionsLast

-----------------------------------------------------------------------------
(* The quotes                                                              *)

QuoteRows == [status : {"absent", "draft", "selected", "superseded"}, content : Contents,
              version : Nat, option : Options \cup {NoOption}, reason : BOOLEAN]

(* The order of the selection that s is making.                            *)
OrderOf(s) == Quote[Option[tx[s].x]]

Choosing(s) ==
  /\ tx[s].x \in Options /\ tx[s].reason \in BOOLEAN /\ tx[s].version \in Nat
  /\ tx[s].version <= quote[Option[tx[s].x]].version
  /\ (~tx[s].reason /\ Option[tx[s].x] \in Selected(OrderOf(s))) =>
         tx[s].version < quote[Option[tx[s].x]].version

(* What a selection supersedes, it holds.                                  *)
Superseding(s) ==
  LET others == tx[s].others IN
    /\ ~tx[s].reason => DOMAIN others = {}
    /\ DOMAIN others \subseteq QuotesOf(OrderOf(s))
    /\ \A r \in DOMAIN others :
         /\ others[r] \in QuoteRows /\ others[r].status = "superseded"
         /\ others[r].version = quote[r].version
         /\ QuoteRow(r) \in tx[s].locks

(* A choice about to be stored is the only one of its order, and whoever   *)
(* gives no reason replaces none.                                          *)
StoresChoice(s, q) ==
  /\ q \in DOMAIN tx[s].quote /\ IndexRow(Quote[q]) \in tx[s].locks
  /\ tx[s].quote[q].status = "selected"
  /\ DOMAIN tx[s].quote \subseteq QuotesOf(Quote[q])
  /\ Selected(Quote[q]) \subseteq DOMAIN tx[s].quote
  /\ \A r \in DOMAIN tx[s].quote \ {q} : tx[s].quote[r].status = "superseded"
  /\ tx[s].quote[q].version > quote[q].version
  /\ ~tx[s].quote[q].reason => Selected(Quote[q]) = {}

StoresDraft(s) ==
  \A r \in DOMAIN tx[s].quote :
    quote[r].status = "absent" /\ tx[s].quote[r].status = "draft"

Storing(s) ==
  /\ DOMAIN tx[s].quote \subseteq Quotes
  /\ \A r \in DOMAIN tx[s].quote :
       /\ tx[s].quote[r] \in QuoteRows
       /\ tx[s].quote[r].version >= quote[r].version
       /\ QuoteRow(r) \in tx[s].locks
  /\ DOMAIN tx[s].option \subseteq Options
  /\ \A x \in DOMAIN tx[s].option : tx[s].option[x] = "valid"
  /\ StoresDraft(s) \/ \E q \in Quotes : StoresChoice(s, q)

ShippingRequest(s) ==
  \/ tx[s] = NoTransaction
  \/ /\ tx[s].do = "select" /\ tx[s].locks = {} /\ Choosing(s)
     /\ tx[s].replaces \in BOOLEAN /\ (~tx[s].reason => ~tx[s].replaces)
  \/ tx[s].do = "claim" /\ Choosing(s) /\ Superseding(s)
  \/ tx[s].do = "ship" /\ Storing(s)

LocksApart ==
  \A s, t \in Sessions : s # t => tx[s].locks \cap tx[t].locks = {}

OneSelected ==
  \A o \in Sales : \A p, q \in Selected(o) : p = q

QuotesAreServed ==
  /\ DOMAIN tx = Sessions
  /\ DOMAIN sale = Sales /\ \A o \in Sales : sale[o] \in Contents
  /\ LocksApart
  /\ \A s \in Sessions : ShippingRequest(s)

ShippingInv ==
  /\ quote \in [Quotes -> QuoteRows]
  /\ option \in [Options -> {"absent", "valid", "expired"}]
  /\ OneSelected
  /\ focus = "shipping" => QuotesAreServed

LEMMA ShippingInitHolds == ServicesInit => ShippingInv
<1> SUFFICES ASSUME ServicesInit PROVE ShippingInv
  OBVIOUS
<1>1. NoQuotes \/ Quoted(Quotes, Options)
  BY DEF ServicesInit, ShippingInit
<1>2. PICK Q, X : Quoted(Q, X)
  BY <1>1 DEF NoQuotes
<1>3. \A q \in Quotes : FirstContent[Quote[q]] \in Contents
  BY QuotesTyped, ContentsTyped
<1>4. quote \in [Quotes -> QuoteRows]
  BY <1>2, <1>3 DEF Quoted, QuoteRows
<1>5. option \in [Options -> {"absent", "valid", "expired"}]
  BY <1>2 DEF Quoted
<1>6. \A q \in Quotes : quote[q].status # "selected"
  BY <1>2 DEF Quoted
<1>7. OneSelected
  BY <1>6 DEF OneSelected, Selected, QuotesOf
<1>8. /\ tx = [s \in Sessions |-> NoTransaction] /\ sale = FirstContent
  BY DEF ServicesInit, EmptyLedgers, SalesInit
<1>9. QuotesAreServed
  BY <1>8, ContentsTyped DEF QuotesAreServed, LocksApart, ShippingRequest, NoTransaction, Sales
<1> QED
  BY <1>4, <1>5, <1>7, <1>9 DEF ShippingInv

(* Rows that are locked by different transactions differ.                  *)
LEMMA RowNames ==
  /\ \A q, r : QuoteRow(q) = QuoteRow(r) => q = r
  /\ \A o, p : IndexRow(o) = IndexRow(p) => o = p
BY DEF QuoteRow, IndexRow

(* What a request knows stays true while its quotes stand.                 *)
LEMMA RequestStays ==
  ASSUME NEW t \in Sessions, tx'[t] = tx[t], quote' = quote, ShippingRequest(t)
  PROVE  ShippingRequest(t)'
<1>1. \A o : Selected(o)' = Selected(o) /\ QuotesOf(o)' = QuotesOf(o)
  BY DEF Selected, QuotesOf
<1>2. OrderOf(t)' = OrderOf(t)
  BY DEF OrderOf
<1>3. Selected(OrderOf(t))' = Selected(OrderOf(t))
  BY <1>2 DEF Selected, QuotesOf
<1>4. Choosing(t) => Choosing(t)'
  BY <1>3 DEF Choosing
<1>5. Superseding(t) => Superseding(t)'
  BY <1>2 DEF Superseding, QuotesOf
<1>6. \A q \in Quotes : StoresChoice(t, q) => StoresChoice(t, q)'
  BY <1>1 DEF StoresChoice
<1>7. StoresDraft(t) => StoresDraft(t)'
  BY DEF StoresDraft
<1>8. Storing(t) => Storing(t)'
  BY <1>6, <1>7 DEF Storing
<1> QED
  BY <1>4, <1>5, <1>8 DEF ShippingRequest

LEMMA OneMoves ==
  ASSUME ShippingInv, QuotesAreServed, focus' = "shipping", NEW s \in Sessions, NEW after,
         tx' = [tx EXCEPT ![s] = after],
         \A t \in Sessions \ {s} : tx[t].locks \cap after.locks = {},
         quote' = quote, option' \in [Options -> {"absent", "valid", "expired"}],
         sale' = sale, ShippingRequest(s)'
  PROVE  ShippingInv'
<1>1. DOMAIN tx' = Sessions /\ tx'[s] = after /\ \A t \in Sessions \ {s} : tx'[t] = tx[t]
  BY DEF QuotesAreServed
<1>2. \A t \in Sessions : ShippingRequest(t)'
  BY <1>1, RequestStays DEF QuotesAreServed
<1>3. LocksApart'
  <2> SUFFICES ASSUME NEW t \in Sessions, NEW u \in Sessions, t # u
               PROVE  tx'[t].locks \cap tx'[u].locks = {}
    BY DEF LocksApart
  <2>1. t # s /\ u # s => tx[t].locks \cap tx[u].locks = {}
    BY DEF QuotesAreServed, LocksApart
  <2> QED
    BY <1>1, <2>1
<1>4. OneSelected'
  BY DEF ShippingInv, OneSelected, Selected, QuotesOf
<1> QED
  BY <1>1, <1>2, <1>3, <1>4 DEF ShippingInv, QuotesAreServed

LEMMA CreateQuoteHolds ==
  ASSUME ShippingInv, focus = "shipping", focus' = "shipping",
         NEW s \in Sessions, NEW q \in Quotes, CreateQuote(s, q)
  PROVE  ShippingInv'
<1> DEFINE row == [quote[q] EXCEPT !.status = "draft", !.content = sale[Quote[q]]]
           after == Stores({QuoteRow(q)}, OneRow(q, row), NoRows)
<1>0. QuotesAreServed /\ quote[q] \in QuoteRows /\ Quote[q] \in Sales
  BY QuotesTyped DEF ShippingInv
<1>1. /\ quote[q].status = "absent" /\ Free(s, {QuoteRow(q)})
      /\ tx' = [tx EXCEPT ![s] = after] /\ UNCHANGED <<sale, quote, option>>
  BY DEF CreateQuote, Starts, shippingTables
<1>2. row \in QuoteRows /\ row.status = "draft" /\ row.version = quote[q].version
  BY <1>0 DEF QuoteRows, QuotesAreServed
<1>3. tx'[s] = after
  BY <1>0, <1>1 DEF QuotesAreServed
<1>4. /\ tx'[s].do = "ship" /\ tx'[s].locks = {QuoteRow(q)}
      /\ DOMAIN tx'[s].quote = {q} /\ tx'[s].quote[q] = row
      /\ DOMAIN tx'[s].option = {}
  BY <1>3 DEF Stores, OneRow, NoRows
<1>5. quote[q].version \in Nat
  BY <1>0 DEF QuoteRows
<1>6. Storing(s)'
  <2> HIDE DEF row, after
  <2>1. StoresDraft(s)'
    BY <1>1, <1>2, <1>4 DEF StoresDraft
  <2>2. \A r \in DOMAIN tx'[s].quote : r = q /\ tx'[s].quote[r] = row
    BY <1>4
  <2>3. quote'[q] = quote[q] /\ row.version >= quote[q].version
    BY <1>1, <1>2, <1>5
  <2> QED
    BY <2>1, <2>2, <2>3, <1>2, <1>4 DEF Storing
<1>7. ShippingRequest(s)'
  BY <1>4, <1>6 DEF ShippingRequest
<1>8. \A t \in Sessions \ {s} : tx[t].locks \cap after.locks = {}
  BY <1>1 DEF Free, Stores
<1>9. option' \in [Options -> {"absent", "valid", "expired"}]
  BY <1>1 DEF ShippingInv
<1> QED
  BY <1>0, <1>1, <1>7, <1>8, <1>9, OneMoves

LEMMA AddOptionHolds ==
  ASSUME ShippingInv, focus = "shipping", focus' = "shipping",
         NEW s \in Sessions, NEW x \in Options, AddOption(s, x)
  PROVE  ShippingInv'
<1> DEFINE after == Stores({}, NoRows, OneRow(x, "valid"))
<1>0. QuotesAreServed
  BY DEF ShippingInv
<1>1. tx' = [tx EXCEPT ![s] = after] /\ UNCHANGED <<sale, quote, option>>
  BY DEF AddOption, Starts, shippingTables
<1>2. tx'[s] = after
  BY <1>0, <1>1 DEF QuotesAreServed
<1>3. /\ tx'[s].do = "ship" /\ DOMAIN tx'[s].quote = {}
      /\ DOMAIN tx'[s].option = {x} /\ tx'[s].option[x] = "valid"
  BY <1>2 DEF Stores, OneRow, NoRows
<1>4. ShippingRequest(s)'
  BY <1>3 DEF Storing, StoresDraft, ShippingRequest
<1>5. \A t \in Sessions \ {s} : tx[t].locks \cap after.locks = {}
  BY DEF Stores
<1>6. option' \in [Options -> {"absent", "valid", "expired"}]
  BY <1>1 DEF ShippingInv
<1> QED
  BY <1>0, <1>1, <1>4, <1>5, <1>6, OneMoves

LEMMA SelectReadHolds ==
  ASSUME ShippingInv, focus = "shipping", focus' = "shipping",
         NEW s \in Sessions, NEW x \in Options, NEW reason \in BOOLEAN,
         SelectRead(s, x, reason)
  PROVE  ShippingInv'
<1> DEFINE q == Option[x]
           replaces == Selected(Quote[q]) \ {q} # {}
           after == [do |-> "select", locks |-> {}, x |-> x, reason |-> reason,
                     version |-> quote[q].version, replaces |-> replaces]
<1>0. QuotesAreServed /\ q \in Quotes /\ quote[q] \in QuoteRows /\ quote[q].version \in Nat
  BY QuotesTyped DEF ShippingInv, QuoteRows
<1>1. /\ ReplacesChoice(q) => reason
      /\ tx' = [tx EXCEPT ![s] = after] /\ UNCHANGED <<sale, quote, option>>
  BY DEF SelectRead, Starts, shippingTables
<1>2. tx'[s] = after
  BY <1>0, <1>1 DEF QuotesAreServed
<1>3. ~reason => Selected(Quote[q]) = {}
  BY <1>1 DEF ReplacesChoice
<1>4. Choosing(s)'
  <2>1. tx'[s].x = x /\ tx'[s].reason = reason /\ tx'[s].version = quote'[q].version
    BY <1>1, <1>2
  <2>2. Selected(Quote[q])' = Selected(Quote[q])
    BY <1>1 DEF Selected, QuotesOf
  <2> QED
    BY <2>1, <2>2, <1>0, <1>1, <1>3 DEF Choosing, OrderOf
<1>5. /\ tx'[s].do = "select" /\ tx'[s].locks = {} /\ tx'[s].replaces = replaces
      /\ tx'[s].reason = reason
  BY <1>2
<1>6. replaces \in BOOLEAN /\ (~reason => ~replaces)
  BY <1>3
<1>7. ShippingRequest(s)'
  <2> HIDE DEF after, replaces
  <2> QED
    BY <1>4, <1>5, <1>6 DEF ShippingRequest
<1>8. \A t \in Sessions \ {s} : tx[t].locks \cap after.locks = {}
  OBVIOUS
<1>9. option' \in [Options -> {"absent", "valid", "expired"}]
  BY <1>1 DEF ShippingInv
<1> QED
  BY <1>0, <1>1, <1>7, <1>8, <1>9, OneMoves

LEMMA SupersedeHolds ==
  ASSUME ShippingInv, focus = "shipping", focus' = "shipping",
         NEW s \in Sessions, SupersedeOthers(s)
  PROVE  ShippingInv'
<1>x. PICK x, q, o : x = tx[s].x /\ q = Option[x] /\ o = Quote[q]
  OBVIOUS
<1> DEFINE others == IF tx[s].replaces THEN Selected(o) \ {q} ELSE {}
           rows == [r \in others |-> [quote[r] EXCEPT !.status = "superseded"]]
           locks == {QuoteRow(r) : r \in others}
           after == [do |-> "claim", locks |-> locks, x |-> x,
                     reason |-> tx[s].reason, version |-> tx[s].version, others |-> rows]
<1>0. QuotesAreServed
  BY DEF ShippingInv
<1>1. /\ tx[s].do = "select" /\ Free(s, locks)
      /\ tx' = [tx EXCEPT ![s] = after] /\ UNCHANGED <<sale, quote, option>>
  BY <1>x DEF SupersedeOthers, shippingTables
<1>2. Choosing(s) /\ tx[s].replaces \in BOOLEAN /\ (~tx[s].reason => ~tx[s].replaces)
  BY <1>0, <1>1 DEF QuotesAreServed, ShippingRequest, NoTransaction, Storing
<1>3. tx'[s] = after
  BY <1>0, <1>1 DEF QuotesAreServed
<1>4. /\ tx'[s].do = "claim" /\ tx'[s].locks = locks /\ tx'[s].x = x
      /\ tx'[s].reason = tx[s].reason /\ tx'[s].version = tx[s].version
      /\ tx'[s].others = rows
  BY <1>3
<1>5. others \subseteq QuotesOf(o) /\ others \subseteq Quotes
  BY DEF Selected, QuotesOf
<1>6. \A r \in others : /\ rows[r] \in QuoteRows /\ rows[r].status = "superseded"
                        /\ rows[r].version = quote[r].version
                        /\ QuoteRow(r) \in locks
  <2> SUFFICES ASSUME NEW r \in others
               PROVE  /\ rows[r] \in QuoteRows /\ rows[r].status = "superseded"
                      /\ rows[r].version = quote[r].version
    OBVIOUS
  <2>1. quote[r] \in QuoteRows
    BY <1>5 DEF ShippingInv
  <2> QED
    BY <2>1 DEF QuoteRows
<1>7. ~tx[s].reason => others = {}
  BY <1>2
<1>8. DOMAIN rows = others
  OBVIOUS
<1>9. Choosing(s)'
  <2>1. quote' = quote /\ (Selected(o))' = Selected(o)
    BY <1>1 DEF Selected, QuotesOf
  <2> HIDE DEF after, locks, rows
  <2> QED
    BY <1>x, <1>2, <1>4, <2>1 DEF Choosing, OrderOf
<1>10. Superseding(s)'
  <2> HIDE DEF after, locks, rows, others
  <2>1. OrderOf(s)' = o
    BY <1>x, <1>4 DEF OrderOf
  <2>2. quote' = quote
    BY <1>1
  <2>3. QuotesOf(OrderOf(s))' = QuotesOf(o)
    BY <2>1 DEF QuotesOf
  <2> QED
    BY <1>4, <1>5, <1>6, <1>7, <1>8, <2>2, <2>3 DEF Superseding
<1>11. ShippingRequest(s)'
  <2> HIDE DEF after, locks, rows, others
  <2> QED
    BY <1>4, <1>9, <1>10 DEF ShippingRequest
<1>12. \A t \in Sessions \ {s} : tx[t].locks \cap after.locks = {}
  BY <1>1 DEF Free
<1>13. option' \in [Options -> {"absent", "valid", "expired"}]
  BY <1>1 DEF ShippingInv
<1> QED
  BY <1>0, <1>1, <1>11, <1>12, <1>13, OneMoves

LEMMA ClaimHolds ==
  ASSUME ShippingInv, focus = "shipping", focus' = "shipping",
         NEW s \in Sessions, ClaimQuote(s)
  PROVE  ShippingInv'
<1>x. PICK x, q, o : x = tx[s].x /\ q = Option[x] /\ o = Quote[q]
  OBVIOUS
<1> DEFINE row == [quote[q] EXCEPT !.status = "selected", !.option = x,
                                   !.reason = tx[s].reason, !.version = quote[q].version + 1]
           others == tx[s].others
           rows == [r \in {q} \cup DOMAIN others |-> IF r = q THEN row ELSE others[r]]
           locks == {QuoteRow(q), IndexRow(o)}
           after == Stores(tx[s].locks \cup locks, rows, NoRows)
<1>0. QuotesAreServed
  BY DEF ShippingInv
<1>1. /\ tx[s].do = "claim" /\ Free(s, locks)
      /\ quote[q].version = tx[s].version /\ Selected(o) \subseteq {q} \cup DOMAIN others
      /\ tx' = [tx EXCEPT ![s] = after] /\ UNCHANGED <<sale, quote, option>>
  BY <1>x DEF ClaimQuote, CanClaim, IndexAdmits, shippingTables
<1>2. Choosing(s) /\ Superseding(s)
  BY <1>0, <1>1 DEF QuotesAreServed, ShippingRequest, NoTransaction
<1>3. /\ x \in Options /\ q \in Quotes /\ quote[q] \in QuoteRows /\ tx[s].reason \in BOOLEAN
      /\ OrderOf(s) = o
  BY <1>x, <1>2, QuotesTyped DEF Choosing, ShippingInv, OrderOf
<1>4. /\ row \in QuoteRows /\ row.status = "selected" /\ row.reason = tx[s].reason
      /\ row.version > quote[q].version
  <2>1. /\ quote[q].version \in Nat /\ quote[q].content \in Contents
        /\ quote[q].version + 1 \in Nat /\ quote[q].version + 1 > quote[q].version
    BY <1>3 DEF QuoteRows
  <2>2. row = [status |-> "selected", content |-> quote[q].content,
               version |-> quote[q].version + 1, option |-> x, reason |-> tx[s].reason]
    <3>1. PICK r : r = quote[q] /\ r \in QuoteRows
      BY <1>3
    <3>2. row = [r EXCEPT !.status = "selected", !.option = x,
                          !.reason = tx[s].reason, !.version = quote[q].version + 1]
      BY <3>1
    <3> HIDE DEF row
    <3> QED
      BY <3>1, <3>2 DEF QuoteRows
  <2>3. row \in QuoteRows
    <3> HIDE DEF row
    <3> QED
      BY <1>3, <2>1, <2>2 DEF QuoteRows
  <2> HIDE DEF row
  <2> QED
    BY <2>1, <2>2, <2>3
<1>5. tx'[s] = after
  BY <1>0, <1>1 DEF QuotesAreServed
<1>6. /\ tx'[s].do = "ship" /\ tx'[s].locks = tx[s].locks \cup locks
      /\ tx'[s].quote = rows /\ DOMAIN tx'[s].option = {}
  BY <1>5 DEF Stores, NoRows
<1>7. /\ DOMAIN rows = {q} \cup DOMAIN others /\ rows[q] = row
      /\ \A r \in DOMAIN rows \ {q} : r \in DOMAIN others /\ rows[r] = others[r]
  OBVIOUS
<1>8. /\ DOMAIN rows \subseteq QuotesOf(o) /\ DOMAIN rows \subseteq Quotes
      /\ \A r \in DOMAIN rows \ {q} : rows[r].status = "superseded"
      /\ ~row.reason => Selected(o) = {}
  <2> HIDE DEF rows, row
  <2>1. /\ ~tx[s].reason => DOMAIN others = {}
        /\ DOMAIN others \subseteq QuotesOf(o)
        /\ \A r \in DOMAIN others : others[r].status = "superseded"
    BY <1>2, <1>3 DEF Superseding
  <2>2. q \in QuotesOf(o)
    BY <1>x, <1>3 DEF QuotesOf
  <2>3. ASSUME ~tx[s].reason, q \in Selected(o) PROVE FALSE
    <3>1. tx[s].version < quote[q].version /\ tx[s].version \in Nat
      BY <2>3, <1>x, <1>2, <1>3 DEF Choosing
    <3> QED
      BY <3>1, <1>1
  <2>4. QuotesOf(o) \subseteq Quotes
    BY DEF QuotesOf
  <2> QED
    BY <2>1, <2>2, <2>3, <2>4, <1>1, <1>4, <1>7
<1>9. \A r \in DOMAIN rows :
        /\ rows[r] \in QuoteRows /\ rows[r].version >= quote[r].version
        /\ QuoteRow(r) \in tx[s].locks \cup locks
  <2> HIDE DEF rows, row
  <2> SUFFICES ASSUME NEW r \in DOMAIN rows
               PROVE  /\ rows[r] \in QuoteRows /\ rows[r].version >= quote[r].version
                      /\ QuoteRow(r) \in tx[s].locks \cup locks
    OBVIOUS
  <2>1. quote[r].version \in Nat /\ row.version \in Nat
    BY <1>4, <1>8 DEF ShippingInv, QuoteRows
  <2>2. CASE r = q
    BY <2>1, <2>2, <1>4, <1>7
  <2>3. CASE r # q
    BY <2>1, <2>3, <1>2, <1>7 DEF Superseding
  <2> QED
    BY <2>2, <2>3
<1>10. Storing(s)'
  <2> HIDE DEF rows, row, locks, after
  <2>1. IndexRow(o) \in tx'[s].locks
    BY <1>6 DEF locks
  <2>2. (Selected(Quote[q]))' = Selected(o) /\ (QuotesOf(Quote[q]))' = QuotesOf(o) /\ quote' = quote
    BY <1>x, <1>1 DEF Selected, QuotesOf
  <2>3. Selected(o) \subseteq DOMAIN rows
    BY <1>1, <1>7
  <2>4. StoresChoice(s, q)'
    BY <2>1, <2>2, <2>3, <1>x, <1>4, <1>6, <1>7, <1>8 DEF StoresChoice
  <2> QED
    BY <2>2, <2>4, <1>3, <1>6, <1>8, <1>9 DEF Storing
<1>11. ShippingRequest(s)'
  BY <1>6, <1>10 DEF ShippingRequest
<1>12. \A t \in Sessions \ {s} : tx[t].locks \cap after.locks = {}
  <2>1. after.locks = tx[s].locks \cup locks
    BY DEF Stores
  <2> HIDE DEF after, locks
  <2> QED
    BY <2>1, <1>0, <1>1 DEF Free, QuotesAreServed, LocksApart
<1>13. option' \in [Options -> {"absent", "valid", "expired"}]
  BY <1>1 DEF ShippingInv
<1> QED
  BY <1>0, <1>1, <1>11, <1>12, <1>13, OneMoves

LEMMA GivesUpHolds ==
  ASSUME ShippingInv, focus = "shipping", focus' = "shipping",
         NEW s \in Sessions, RollsBack(s), UNCHANGED <<sale, shippingTables>>
  PROVE  ShippingInv'
<1>0. QuotesAreServed
  BY DEF ShippingInv
<1>1. tx' = [tx EXCEPT ![s] = NoTransaction] /\ UNCHANGED <<sale, quote, option>>
  BY DEF RollsBack, shippingTables
<1>2. ShippingRequest(s)'
  BY <1>0, <1>1 DEF QuotesAreServed, ShippingRequest
<1>3. \A t \in Sessions \ {s} : tx[t].locks \cap NoTransaction.locks = {}
  BY DEF NoTransaction
<1>4. option' \in [Options -> {"absent", "valid", "expired"}]
  BY <1>1 DEF ShippingInv
<1> QED
  BY <1>0, <1>1, <1>2, <1>3, <1>4, OneMoves

LEMMA SurroundingsHold ==
  ASSUME ShippingInv, focus = "shipping", focus' = "shipping",
         tx' = tx, quote' = quote,
         option' \in [Options -> {"absent", "valid", "expired"}],
         DOMAIN sale' = Sales, \A o \in Sales : sale'[o] \in Contents
  PROVE  ShippingInv'
<1>1. \A t \in Sessions : ShippingRequest(t)'
  BY RequestStays DEF ShippingInv, QuotesAreServed
<1>2. OneSelected'
  BY DEF ShippingInv, OneSelected, Selected, QuotesOf
<1>3. LocksApart'
  BY DEF ShippingInv, QuotesAreServed, LocksApart
<1> QED
  BY <1>1, <1>2, <1>3 DEF ShippingInv, QuotesAreServed

-----------------------------------------------------------------------------
(* The commit of quotes                                                    *)

(* What a commit does to the quotes, as the others see it.                 *)
LEMMA Stored ==
  ASSUME ShippingInv, focus = "shipping", NEW s \in Sessions, CommitShipping(s)
  PROVE  /\ Storing(s) /\ tx[s].do = "ship"
         /\ \A r \in Quotes : quote'[r] = IF r \in DOMAIN tx[s].quote
                                            THEN tx[s].quote[r] ELSE quote[r]
         /\ quote' \in [Quotes -> QuoteRows]
         /\ \A r \in Quotes : /\ quote[r].version \in Nat /\ quote'[r].version \in Nat
                              /\ quote'[r].version >= quote[r].version
<1>1. tx[s].do = "ship" /\ quote' = Written(quote, tx[s].quote)
  BY DEF CommitShipping
<1>2. Storing(s)
  BY <1>1 DEF ShippingInv, QuotesAreServed, ShippingRequest, NoTransaction
<1>3. \A r \in Quotes : quote'[r] = IF r \in DOMAIN tx[s].quote
                                      THEN tx[s].quote[r] ELSE quote[r]
  BY <1>1 DEF Written, ShippingInv
<1>4. quote' \in [Quotes -> QuoteRows]
  BY <1>1, <1>2 DEF Written, ShippingInv, Storing
<1>5. \A r \in Quotes : /\ quote[r].version \in Nat /\ quote'[r].version \in Nat
                        /\ quote'[r].version >= quote[r].version
  <2> SUFFICES ASSUME NEW r \in Quotes
               PROVE  /\ quote[r].version \in Nat /\ quote'[r].version \in Nat
                      /\ quote'[r].version >= quote[r].version
    OBVIOUS
  <2>1. quote[r].version \in Nat /\ quote'[r].version \in Nat
    BY <1>4 DEF ShippingInv, QuoteRows
  <2> QED
    BY <2>1, <1>2, <1>3 DEF Storing
<1> QED
  BY <1>1, <1>2, <1>3, <1>4, <1>5

(* A commit of a draft selects nothing; a commit of a choice leaves it the *)
(* only one of its order, and the other orders as they were.               *)
LEMMA Selections ==
  ASSUME ShippingInv, focus = "shipping", NEW s \in Sessions, CommitShipping(s)
  PROVE  \/ \A o \in Sales :
              Selected(o)' = Selected(o) /\ \A r \in Selected(o) : quote'[r] = quote[r]
         \/ \E q \in Quotes :
              /\ StoresChoice(s, q) /\ Selected(Quote[q])' = {q}
              /\ quote'[q] = tx[s].quote[q]
              /\ \A o \in Sales \ {Quote[q]} :
                   /\ Selected(o)' = Selected(o)
                   /\ \A r \in QuotesOf(o) : quote'[r] = quote[r]
<1>1. /\ Storing(s)
      /\ \A r \in Quotes : quote'[r] = IF r \in DOMAIN tx[s].quote
                                         THEN tx[s].quote[r] ELSE quote[r]
  BY Stored
<1>2. CASE StoresDraft(s)
  <2>1. \A r \in Quotes : /\ quote'[r].status = "selected" <=> quote[r].status = "selected"
                          /\ quote[r].status = "selected" => quote'[r] = quote[r]
    BY <1>1, <1>2 DEF StoresDraft
  <2> QED
    BY <2>1 DEF Selected, QuotesOf
<1>3. ASSUME NEW q \in Quotes, StoresChoice(s, q)
      PROVE  /\ Selected(Quote[q])' = {q} /\ quote'[q] = tx[s].quote[q]
             /\ \A o \in Sales \ {Quote[q]} :
                  /\ Selected(o)' = Selected(o)
                  /\ \A r \in QuotesOf(o) : quote'[r] = quote[r]
  <2>1. /\ q \in DOMAIN tx[s].quote /\ tx[s].quote[q].status = "selected"
        /\ DOMAIN tx[s].quote \subseteq QuotesOf(Quote[q])
        /\ Selected(Quote[q]) \subseteq DOMAIN tx[s].quote
        /\ \A r \in DOMAIN tx[s].quote \ {q} : tx[s].quote[r].status = "superseded"
    BY <1>3 DEF StoresChoice
  <2>2. \A r \in QuotesOf(Quote[q]) : quote'[r].status = "selected" <=> r = q
    BY <1>1, <2>1 DEF QuotesOf, Selected
  <2>3. Selected(Quote[q])' = {q}
    BY <2>2 DEF Selected, QuotesOf
  <2>4. ASSUME NEW o \in Sales \ {Quote[q]}
        PROVE  \A r \in QuotesOf(o) : quote'[r] = quote[r]
    BY <1>1, <2>1 DEF QuotesOf
  <2>5. ASSUME NEW o \in Sales \ {Quote[q]}
        PROVE  Selected(o)' = Selected(o)
    BY <2>4 DEF Selected, QuotesOf
  <2> QED
    BY <1>1, <2>1, <2>3, <2>4, <2>5
<1> QED
  BY <1>1, <1>2, <1>3 DEF Storing

(* What another request knows survives a commit.                           *)
LEMMA OthersStay ==
  ASSUME ShippingInv, focus = "shipping", NEW s \in Sessions, CommitShipping(s),
         NEW t \in Sessions \ {s}, tx'[t] = tx[t]
  PROVE  ShippingRequest(t)'
<1>0. ShippingRequest(t) /\ tx[s].locks \cap tx[t].locks = {}
  BY DEF ShippingInv, QuotesAreServed, LocksApart
<1>1. /\ Storing(s)
      /\ \A r \in Quotes : quote'[r] = IF r \in DOMAIN tx[s].quote
                                         THEN tx[s].quote[r] ELSE quote[r]
      /\ \A r \in Quotes : /\ quote[r].version \in Nat /\ quote'[r].version \in Nat
                           /\ quote'[r].version >= quote[r].version
  BY Stored
<1>2. \A r \in Quotes : QuoteRow(r) \in tx[t].locks => quote'[r] = quote[r]
  BY <1>0, <1>1 DEF Storing
<1>3. \A q \in Quotes : q \in Selected(Quote[q])' =>
        \/ q \in Selected(Quote[q]) /\ quote'[q] = quote[q]
        \/ quote'[q].version > quote[q].version
  <2> SUFFICES ASSUME NEW q \in Quotes, q \in Selected(Quote[q])'
               PROVE  \/ q \in Selected(Quote[q]) /\ quote'[q] = quote[q]
                      \/ quote'[q].version > quote[q].version
    OBVIOUS
  <2>0. Quote[q] \in Sales
    BY QuotesTyped
  <2>1. CASE \A o \in Sales : Selected(o)' = Selected(o)
                              /\ \A r \in Selected(o) : quote'[r] = quote[r]
    BY <2>0, <2>1
  <2>2. ASSUME NEW k \in Quotes, StoresChoice(s, k), Selected(Quote[k])' = {k},
               quote'[k] = tx[s].quote[k],
               \A o \in Sales \ {Quote[k]} : /\ Selected(o)' = Selected(o)
                                             /\ \A r \in QuotesOf(o) : quote'[r] = quote[r]
        PROVE  \/ q \in Selected(Quote[q]) /\ quote'[q] = quote[q]
               \/ quote'[q].version > quote[q].version
    <3>1. CASE Quote[q] = Quote[k]
      <4>1. q = k
        BY <2>2, <3>1
      <4> QED
        BY <4>1, <2>2 DEF StoresChoice
    <3>2. CASE Quote[q] # Quote[k]
      BY <2>0, <2>2, <3>2 DEF QuotesOf
    <3> QED
      BY <3>1, <3>2
  <2> QED
    BY <2>1, <2>2, Selections
<1>4. \A o \in Sales : IndexRow(o) \in tx[t].locks => Selected(o)' = Selected(o)
  <2> SUFFICES ASSUME NEW o \in Sales, IndexRow(o) \in tx[t].locks
               PROVE  Selected(o)' = Selected(o)
    OBVIOUS
  <2>1. ASSUME NEW q \in Quotes, StoresChoice(s, q) PROVE Quote[q] # o
    BY <1>0, <2>1 DEF StoresChoice
  <2> QED
    BY <2>1, Selections
<1>5. Choosing(t) => Choosing(t)'
  <2> SUFFICES ASSUME Choosing(t) PROVE Choosing(t)'
    OBVIOUS
  <2>x. PICK x, q, v : x = tx[t].x /\ q = Option[x] /\ v = tx[t].version
    OBVIOUS
  <2>1. /\ x \in Options /\ q \in Quotes /\ tx[t].reason \in BOOLEAN /\ v \in Nat
        /\ v <= quote[q].version
        /\ (~tx[t].reason /\ q \in Selected(Quote[q])) => v < quote[q].version
    BY <2>x, QuotesTyped DEF Choosing, OrderOf
  <2>2. v <= quote'[q].version
    BY <1>1, <2>1
  <2>3. (~tx[t].reason /\ q \in Selected(Quote[q])') => v < quote'[q].version
    BY <1>1, <1>3, <2>1
  <2> QED
    BY <2>x, <2>1, <2>2, <2>3 DEF Choosing, OrderOf
<1>6. Superseding(t) => Superseding(t)'
  <2> SUFFICES ASSUME Superseding(t) PROVE Superseding(t)'
    OBVIOUS
  <2>1. OrderOf(t)' = OrderOf(t)
    BY DEF OrderOf
  <2>2. QuotesOf(OrderOf(t))' = QuotesOf(OrderOf(t))
    BY <2>1 DEF QuotesOf
  <2>3. \A r \in DOMAIN tx[t].others : quote'[r] = quote[r]
    BY <1>2 DEF Superseding, QuotesOf
  <2> QED
    BY <2>1, <2>2, <2>3 DEF Superseding
<1>7. Storing(t) => Storing(t)'
  <2> SUFFICES ASSUME Storing(t) PROVE Storing(t)'
    OBVIOUS
  <2>1. \A r \in DOMAIN tx[t].quote : quote'[r] = quote[r]
    BY <1>2 DEF Storing
  <2>2. StoresDraft(t) => StoresDraft(t)'
    BY <2>1 DEF StoresDraft
  <2>3. ASSUME NEW q \in Quotes, StoresChoice(t, q) PROVE StoresChoice(t, q)'
    <3>1. Quote[q] \in Sales /\ q \in DOMAIN tx[t].quote /\ IndexRow(Quote[q]) \in tx[t].locks
      BY <2>3, QuotesTyped DEF StoresChoice
    <3>2. Selected(Quote[q])' = Selected(Quote[q]) /\ quote'[q] = quote[q]
      BY <3>1, <1>4, <2>1
    <3> QED
      BY <2>3, <3>2 DEF StoresChoice, QuotesOf
  <2> QED
    BY <2>1, <2>2, <2>3 DEF Storing
<1> QED
  BY <1>0, <1>5, <1>6, <1>7 DEF ShippingRequest

LEMMA CommitShippingHolds ==
  ASSUME ShippingInv, focus = "shipping", focus' = "shipping",
         NEW s \in Sessions, CommitShipping(s)
  PROVE  ShippingInv'
<1>0. QuotesAreServed
  BY DEF ShippingInv
<1>1. /\ Storing(s) /\ quote' \in [Quotes -> QuoteRows]
  BY Stored
<1>2. /\ tx' = [tx EXCEPT ![s] = NoTransaction] /\ sale' = sale
      /\ option' = Written(option, tx[s].option)
  BY DEF CommitShipping, Commits
<1>3. /\ DOMAIN tx' = Sessions /\ tx'[s] = NoTransaction
      /\ \A t \in Sessions \ {s} : tx'[t] = tx[t]
  BY <1>0, <1>2 DEF QuotesAreServed
<1>4. \A t \in Sessions : ShippingRequest(t)'
  BY <1>3, OthersStay DEF ShippingRequest
<1>5. LocksApart'
  <2> SUFFICES ASSUME NEW t \in Sessions, NEW u \in Sessions, t # u
               PROVE  tx'[t].locks \cap tx'[u].locks = {}
    BY DEF LocksApart
  <2>1. t # s /\ u # s => tx[t].locks \cap tx[u].locks = {}
    BY <1>0 DEF QuotesAreServed, LocksApart
  <2>2. NoTransaction.locks = {}
    BY DEF NoTransaction
  <2> QED
    BY <1>3, <2>1, <2>2
<1>6. option' \in [Options -> {"absent", "valid", "expired"}]
  BY <1>1, <1>2 DEF Written, Storing, ShippingInv
<1>7. OneSelected'
  <2> SUFFICES ASSUME NEW o \in Sales, NEW p \in Selected(o)', NEW q \in Selected(o)'
               PROVE  p = q
    BY DEF OneSelected
  <2> QED
    BY Selections DEF ShippingInv, OneSelected
<1> QED
  BY <1>0, <1>1, <1>2, <1>3, <1>4, <1>5, <1>6, <1>7 DEF ShippingInv, QuotesAreServed

LEMMA ShippingStepHolds ==
  ASSUME ShippingInv, focus = "shipping", focus' = "shipping", ShippingNext
  PROVE  ShippingInv'
<1>1. ASSUME NEW s \in Sessions, ShippingStep(s) PROVE ShippingInv'
  <2>1. CASE ClaimRefused(s)
    BY <2>1, GivesUpHolds DEF ClaimRefused
  <2> QED
    BY <1>1, <2>1, CreateQuoteHolds, AddOptionHolds, SelectReadHolds, SupersedeHolds,
       ClaimHolds, CommitShippingHolds
       DEF ShippingStep
<1>2. ASSUME NEW x \in Options, Expire(x) PROVE ShippingInv'
  <2>1. /\ tx' = tx /\ quote' = quote /\ sale' = sale
        /\ option' = [option EXCEPT ![x] = "expired"]
    BY <1>2 DEF Expire
  <2>2. option' \in [Options -> {"absent", "valid", "expired"}]
    BY <2>1 DEF ShippingInv
  <2> QED
    BY <2>1, <2>2, SurroundingsHold DEF ShippingInv, QuotesAreServed
<1>3. ASSUME OrderChanges, UNCHANGED shippingTables PROVE ShippingInv'
  <2>1. PICK o \in Sales, c \in Contents : Resync(o, c)
    BY <1>3 DEF OrderChanges
  <2>2. /\ tx' = tx /\ quote' = quote /\ option' = option
        /\ sale' = [sale EXCEPT ![o] = c]
    BY <1>3, <2>1 DEF Resync, shippingTables
  <2>3. DOMAIN sale' = Sales /\ \A p \in Sales : sale'[p] \in Contents
    BY <2>2 DEF ShippingInv, QuotesAreServed
  <2> QED
    BY <2>2, <2>3, SurroundingsHold DEF ShippingInv
<1>4. ASSUME GivesUp, UNCHANGED <<sale, shippingTables>> PROVE ShippingInv'
  BY <1>4, GivesUpHolds DEF GivesUp
<1> QED
  BY <1>1, <1>2, <1>3, <1>4 DEF ShippingNext

LEMMA ShippingInvHolds == ServicesSpec => []ShippingInv
<1>1. ShippingInv /\ [ServicesNext]_services => ShippingInv'
  <2> SUFFICES ASSUME ShippingInv, [ServicesNext]_services PROVE ShippingInv'
    OBVIOUS
  <2>1. CASE focus = "shipping" /\ focus' = "shipping" /\ ShippingNext
    BY <2>1, ShippingStepHolds
  <2>2. CASE focus # "shipping" /\ focus' = focus /\ UNCHANGED shippingTables
    BY <2>2 DEF shippingTables, ShippingInv, OneSelected, Selected, QuotesOf
  <2>3. CASE UNCHANGED services
    <3>1. UNCHANGED <<focus, quote, option, tx, sale>>
      BY <2>3 DEF services, ledgers, shippingTables
    <3>2. CASE focus # "shipping"
      BY <3>1, <3>2 DEF ShippingInv, OneSelected, Selected, QuotesOf
    <3>3. CASE focus = "shipping"
      BY <3>1, <3>3, SurroundingsHold DEF ShippingInv, QuotesAreServed
    <3> QED
      BY <3>2, <3>3
  <2> QED
    BY <2>1, <2>2, <2>3 DEF ServicesNext
<1> QED
  BY <1>1, ShippingInitHolds, PTL DEF ServicesSpec

(* What a step does to the selections of the orders.                       *)
SelectionKept ==
  \A o \in Sales : Selected(o) # {} =>
    /\ Cardinality(Selected(o)') = 1
    /\ \A p \in Selected(o), q \in Selected(o)' :
         (p # q \/ quote[p].option # quote'[q].option) => quote'[q].reason

LEMMA OneKept ==
  ASSUME OneSelected, NEW o \in Sales, Selected(o) # {},
         Selected(o)' = Selected(o), \A r \in Selected(o) : quote'[r] = quote[r]
  PROVE  /\ Cardinality(Selected(o)') = 1
         /\ \A p \in Selected(o), q \in Selected(o)' :
              (p # q \/ quote[p].option # quote'[q].option) => quote'[q].reason
<1>1. PICK p \in Selected(o) : Selected(o) = {p}
  BY DEF OneSelected
<1>2. Cardinality({p}) = 1
  BY FS_Singleton
<1> QED
  BY <1>1, <1>2

LEMMA CommitKeeps ==
  ASSUME ShippingInv, focus = "shipping", NEW s \in Sessions, CommitShipping(s)
  PROVE  SelectionKept
<1>1. OneSelected
  BY DEF ShippingInv
<1>2. CASE \A o \in Sales :
              Selected(o)' = Selected(o) /\ \A r \in Selected(o) : quote'[r] = quote[r]
  BY <1>1, <1>2, OneKept DEF SelectionKept
<1>3. ASSUME NEW k \in Quotes, StoresChoice(s, k), Selected(Quote[k])' = {k},
             quote'[k] = tx[s].quote[k],
             \A o \in Sales \ {Quote[k]} : /\ Selected(o)' = Selected(o)
                                           /\ \A r \in QuotesOf(o) : quote'[r] = quote[r]
      PROVE  SelectionKept
  <2>1. ASSUME Selected(Quote[k]) # {}
        PROVE  /\ Cardinality(Selected(Quote[k])') = 1
               /\ \A q \in Selected(Quote[k])' : quote'[q].reason
    <3>1. quote' \in [Quotes -> QuoteRows]
      BY Stored
    <3>2. quote'[k].reason \in BOOLEAN /\ ~(~quote'[k].reason)
      BY <3>1, <2>1, <1>3 DEF QuoteRows, StoresChoice
    <3>3. Cardinality({k}) = 1
      BY FS_Singleton
    <3> QED
      BY <3>2, <3>3, <1>3
  <2>2. ASSUME NEW o \in Sales \ {Quote[k]}, Selected(o) # {}
        PROVE  /\ Cardinality(Selected(o)') = 1
               /\ \A p \in Selected(o), q \in Selected(o)' :
                    (p # q \/ quote[p].option # quote'[q].option) => quote'[q].reason
    <3>1. Selected(o)' = Selected(o) /\ \A r \in Selected(o) : quote'[r] = quote[r]
      BY <1>3 DEF Selected
    <3> QED
      BY <3>1, <2>2, <1>1, OneKept
  <2> QED
    BY <2>1, <2>2 DEF SelectionKept
<1> QED
  BY <1>2, <1>3, Selections

(* Once freight was selected for an order exactly one quote is, ever after,*)
(* and whoever replaced a choice gave a reason: for any orders, quotes,    *)
(* options and overlapping requests, although nothing is locked while it   *)
(* is read (shipping.py:10-12).                                            *)
THEOREM SelectionsStand == ServicesSpec => SelectionStands
<1>1. ShippingInv /\ [ServicesNext]_services => [SelectionKept]_quote
  <2> SUFFICES ASSUME ShippingInv, [ServicesNext]_services, quote' # quote
               PROVE  SelectionKept
    OBVIOUS
  <2>1. PICK s \in Sessions : focus = "shipping" /\ CommitShipping(s)
    BY DEF ServicesNext, ShippingNext, ShippingStep, CreateQuote, AddOption, SelectRead,
           SupersedeOthers, ClaimQuote, ClaimRefused, Expire, services, shippingTables
  <2> QED
    BY <2>1, CommitKeeps
<1>2. ServicesSpec => [][SelectionKept]_quote
  BY <1>1, ShippingInvHolds, PTL DEF ServicesSpec
<1> QED
  BY <1>2 DEF SelectionKept, SelectionStands

(* A set of quotes that is not empty has a latest one.                     *)
LEMMA LatestExists ==
  ASSUME NEW S \in SUBSET Quotes, S # {}
  PROVE  \E q \in S : \A r \in S : r <= q
<1>1. Quotes \subseteq Nat /\ IsFiniteSet(Quotes)
  BY QuotesTyped
<1>2. IsFiniteSet(S)
  BY <1>1, FS_Subset
<1> DEFINE Counted(n) == {T \in SUBSET S : T # {} /\ Cardinality(T) = n
                                           /\ ~\E q \in T : \A r \in T : r <= q}
           Bad == {n \in Nat : Counted(n) # {}}
<1>3. CASE Bad = {}
  <2>1. Cardinality(S) \in Nat
    BY <1>2, FS_CardinalityType
  <2>2. Counted(Cardinality(S)) = {}
    BY <2>1, <1>3
  <2> QED
    BY <2>2
<1>4. CASE Bad # {}
  <2>1. PICK n \in Bad : \A m \in Bad : ~(<<m, n>> \in OpToRel(<, Nat))
    BY <1>4, NatLessThanWellFounded, WFMin
  <2>2. \A m \in Bad : ~(m < n)
    BY <2>1 DEF OpToRel
  <2>3. PICK T \in SUBSET S : /\ T # {} /\ Cardinality(T) = n
                              /\ ~\E q \in T : \A r \in T : r <= q
    BY <2>1
  <2>4. PICK x \in T : TRUE
    BY <2>3
  <2>5. IsFiniteSet(T) /\ T \subseteq Nat
    BY <1>1, <1>2, FS_Subset
  <2>6. IsFiniteSet(T \ {x}) /\ Cardinality(T \ {x}) = n - 1
    BY <2>3, <2>5, FS_RemoveElement
  <2>7. Cardinality(T \ {x}) \in Nat
    BY <2>6, FS_CardinalityType
  <2>8. CASE T \ {x} = {}
    <3>1. T = {x}
      BY <2>8, <2>4
    <3> QED
      BY <3>1, <2>3, <2>5
  <2>9. CASE T \ {x} # {}
    <3>1. \E q \in T \ {x} : \A r \in T \ {x} : r <= q
      <4> SUFFICES ASSUME ~\E q \in T \ {x} : \A r \in T \ {x} : r <= q PROVE FALSE
        OBVIOUS
      <4>1. T \ {x} \in Counted(n - 1)
        BY <2>6, <2>9
      <4>2. n - 1 \in Nat /\ n \in Nat
        BY <2>6, <2>7
      <4>3. Counted(n - 1) # {}
        BY <4>1
      <4> HIDE DEF Counted
      <4>4. n - 1 \in Bad
        BY <4>2, <4>3
      <4>5. n - 1 < n
        BY <4>2
      <4> QED
        BY <2>2, <4>4, <4>5
    <3>2. PICK q \in T \ {x} : \A r \in T \ {x} : r <= q
      BY <3>1
    <3>3. q \in Nat /\ x \in Nat
      BY <2>5
    <3>4. \A r \in T : r \in Nat /\ (r = x \/ r <= q)
      BY <2>5, <3>2
    <3>5. CASE x <= q
      BY <3>4, <3>5, <2>3
    <3>6. CASE q <= x
      <4>1. \A r \in T : r <= x
        BY <3>3, <3>4, <3>6
      <4> QED
        BY <4>1, <2>3
    <3> QED
      BY <3>3, <3>5, <3>6
  <2> QED
    BY <2>8, <2>9
<1> QED
  BY <1>3, <1>4

(* An order is found under the filter of the state its page shows, as far  *)
(* as its freight goes (shipping.py, state_provider and filter_provider).  *)
THEOREM OrdersAreFound == ServicesSpec => []FoundUnderItsState
<1>1. ShippingInv => FoundUnderItsState
  <2> SUFFICES ASSUME ShippingInv, NEW o \in Sales
               PROVE  ShippingFilter(o, ShippingState(o))
    BY DEF FoundUnderItsState
  <2>1. Live(o) \subseteq Quotes /\ Selected(o) \subseteq Live(o)
    BY DEF Live, Selected, QuotesOf
  <2>2. CASE Live(o) = {}
    BY <2>2 DEF ShippingState, ShippingFilter
  <2>3. CASE Live(o) # {}
    <3> DEFINE q == Shown(o)
    <3>1. /\ q \in Live(o)
          /\ Selected(o) # {} => q \in Selected(o) /\ \A r \in Selected(o) : r = q
      <4>1. CASE Selected(o) # {}
        <5>1. \E m \in Selected(o) : \A r \in Selected(o) : r <= m
          BY <2>1, <4>1, LatestExists
        <5>2. q \in Selected(o)
          BY <4>1, <5>1 DEF Shown
        <5> QED
          BY <5>2, <2>1 DEF ShippingInv, OneSelected
      <4>2. CASE Selected(o) = {}
        <5>1. \E m \in Live(o) : \A r \in Live(o) : r <= m
          BY <2>1, <2>3, LatestExists
        <5> QED
          BY <4>2, <5>1 DEF Shown
      <4> QED
        BY <4>1, <4>2
    <3>2. quote[q].status \in {"draft", "selected"}
          /\ (quote[q].status = "selected" <=> q \in Selected(o))
      BY <3>1 DEF Live, Selected
    <3> HIDE DEF q
    <3>3. CASE StaleQuote(q)
      <4>1. ShippingState(o) = "stale"
        BY <2>3, <3>3 DEF ShippingState, q
      <4> QED
        BY <4>1, <3>1, <3>3 DEF ShippingFilter
    <3>4. CASE ~StaleQuote(q)
      <4>1. ShippingState(o) = quote[q].status
        BY <2>3, <3>4 DEF ShippingState, q
      <4>2. CASE quote[q].status = "selected"
        BY <4>1, <4>2, <3>1, <3>2, <3>4 DEF ShippingFilter
      <4>3. CASE quote[q].status = "draft"
        BY <4>1, <4>3, <3>1, <3>2, <3>4 DEF ShippingFilter
      <4> QED
        BY <4>2, <4>3, <3>2
    <3> QED
      BY <3>3, <3>4
  <2> QED
    BY <2>2, <2>3
<1> QED
  BY <1>1, ShippingInvHolds, PTL

===============================================================================
