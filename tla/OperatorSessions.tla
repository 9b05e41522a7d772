--------------------------- MODULE OperatorSessions ---------------------------
(***************************************************************************)
(* The sessions of an operator of the ERP (app/erp/sessions.py): a session *)
(* is renewed by a token that is replaced at each use, and ended by its    *)
(* owner, by an administrator or when a replaced token comes back.  The    *)
(* row is read without a lock; of it only the changed columns are written. *)
(* The end of a session by its age, and the count of failed logins, are    *)
(* left out.                                                               *)
(***************************************************************************)
EXTENDS Transactions

CONSTANT Logins   (* the sessions that may be opened, each in its browser *)

NoToken == 0

VARIABLES
  active,     (* erp_operators: the operator is *)
  access,     (* erp_sessions: [current, previous, ended], NoToken before it is *)
  cookie,     (* the token the browser of each session holds *)
  disturbed   (* history: sessions with overlapping requests or a lost answer *)

accessVars == <<active, access, cookie, disturbed>>

AccessInit ==
  /\ active = TRUE
  /\ access = [l \in Logins |->
                 [current |-> NoToken, previous |-> NoToken, ended |-> "no"]]
  /\ cookie = [l \in Logins |-> NoToken]
  /\ disturbed = {}

(* A new token: tokens are the numbers of the commits that made them.      *)
NewToken == commits + 1

InHandOf(l) == {s \in Sessions : ~IsIdle(s) /\ tx[s].session = l}

(* A request about session l begins, perhaps while another is under way.   *)
Asks(s, l, what) ==
  /\ Starts(s, [do |-> what, locks |-> {}, session |-> l, read |-> access[l]])
  /\ disturbed' = IF InHandOf(l) = {} THEN disturbed ELSE disturbed \cup {l}
  /\ UNCHANGED <<active, access, cookie>>

-----------------------------------------------------------------------------
(* login *)
AskLogin(s, l) ==
  /\ access[l].current = NoToken /\ InHandOf(l) = {}
  /\ active
  /\ Asks(s, l, "login")

(* What the renewal of a session does, by the row that was read: a token   *)
(* that is not the current one is refused, and ends the session when it is *)
(* the one before.                                                         *)
Renewal(row, token) ==
  CASE row.ended # "no" \/ token \notin {row.current, row.previous} -> "refuse"
    [] row.ended = "no" /\ token = row.current ->
         IF active THEN "rotate" ELSE "operator_inactive"
    [] row.ended = "no" /\ token # row.current /\ token = row.previous -> "refresh_reuse"

(* refresh.  What is refused changes nothing.                              *)
AskRefresh(s, l) ==
  /\ cookie[l] # NoToken
  /\ LET does == Renewal(access[l], cookie[l]) IN
       /\ does # "refuse"
       /\ Asks(s, l, does)

(* logout, and revoke_my_session from another browser (revoke).            *)
AskEnd(s, l, reason) ==
  /\ reason = "logout" => cookie[l] # NoToken
  /\ access[l].current # NoToken /\ access[l].ended = "no"
  /\ Asks(s, l, reason)

-----------------------------------------------------------------------------
(* Mutant: the row is written back as it was read.                         *)
RotatedWhole(s) ==
  [tx[s].read EXCEPT !.previous = tx[s].read.current, !.current = NewToken]

(* The columns that a renewal sets.                                        *)
Rotated(s) ==
  [access[tx[s].session] EXCEPT !.previous = tx[s].read.current,
                                !.current = NewToken]

Becomes(s) ==
  CASE tx[s].do = "login"  -> [access[tx[s].session] EXCEPT !.current = NewToken]
    [] tx[s].do = "rotate" -> Rotated(s)
    [] OTHER               -> [access[tx[s].session] EXCEPT !.ended = tx[s].do]

(* The commit; a token that was made is answered afterwards.               *)
CommitAccess(s) ==
  LET l == tx[s].session IN
    /\ ~IsIdle(s) /\ tx[s].do # "answer"
    /\ access' = [access EXCEPT ![l] = Becomes(s)]
    /\ commits' = commits + 1
    /\ tx' = [tx EXCEPT ![s] =
         IF tx[s].do \in {"login", "rotate"}
           THEN [do |-> "answer", locks |-> {}, session |-> l, token |-> NewToken]
           ELSE NoTransaction]
    /\ cookie' = [cookie EXCEPT ![l] = IF tx[s].do = "logout" THEN NoToken ELSE @]
    /\ UNCHANGED <<active, disturbed>>

(* _set_cookie, in the order in which the answers arrive.                  *)
AnswerArrives(s) ==
  /\ tx[s].do = "answer"
  /\ cookie' = [cookie EXCEPT ![tx[s].session] = tx[s].token]
  /\ tx' = [tx EXCEPT ![s] = NoTransaction]
  /\ UNCHANGED <<commits, active, access, disturbed>>

(* The connection fails, before the commit or with the answer.             *)
AccessRollsBack(s) ==
  /\ RollsBack(s)
  /\ disturbed' = IF tx[s].do = "answer" THEN disturbed \cup {tx[s].session}
                                         ELSE disturbed
  /\ UNCHANGED <<active, access, cookie>>

(* revoke_all, one UPDATE, but for the session that is kept: a password is *)
(* set, an administrator ends the sessions or deactivates the operator.    *)
RevokeAll(kept, stays) ==
  /\ commits < MaxCommits
  /\ access' = [l \in Logins |->
       IF l \in kept \/ access[l].current = NoToken \/ access[l].ended # "no"
         THEN access[l] ELSE [access[l] EXCEPT !.ended = "all"]]
  /\ active' = stays
  /\ commits' = commits + 1
  /\ UNCHANGED <<tx, cookie, disturbed>>

RevokeSome ==
  \/ \E kept \in {{}} \cup {{l} : l \in Logins} : RevokeAll(kept, active)
  \/ RevokeAll({}, FALSE)
  \/ ~active /\ RevokeAll(Logins, TRUE)

AccessStep(s) ==
  \/ \E l \in Logins : \/ AskLogin(s, l) \/ AskRefresh(s, l)
                       \/ \E reason \in {"logout", "revoked_by_user"} : AskEnd(s, l, reason)
  \/ CommitAccess(s) \/ AnswerArrives(s) \/ AccessRollsBack(s)

-----------------------------------------------------------------------------
(* Properties *)

AccessTypeOK ==
  /\ active \in BOOLEAN
  /\ access \in [Logins -> [current : Nat, previous : Nat,
        ended : {"no", "all", "logout", "revoked_by_user", "operator_inactive",
                 "refresh_reuse"}]]
  /\ cookie \in [Logins -> Nat] /\ disturbed \subseteq Logins

(* A session that ended stays ended: a renewal that had read it before     *)
(* does not bring it back (sessions.py:138-161, 189-194).                  *)
EndedStaysEnded ==
  [][\A l \in Logins : access[l].ended # "no" => access'[l].ended # "no"]_access

(* Whoever asks one thing at a time and gets every answer holds the        *)
(* current token as long as the session lasts, and never loses it for      *)
(* showing an old one (sessions.py:172-182).                               *)
UndisturbedStaysIn ==
  \A l \in Logins \ disturbed :
    access[l].current # NoToken =>
      /\ access[l].ended # "refresh_reuse"
      /\ access[l].ended = "no" /\ InHandOf(l) = {} => cookie[l] = access[l].current

(* Sessions end for good, and only when somebody ends them or the renewals *)
(* of one were disturbed.                                                  *)
SessionsLast == []AccessTypeOK /\ EndedStaysEnded /\ []UndisturbedStaysIn

===============================================================================
