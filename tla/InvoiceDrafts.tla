---------------------------- MODULE InvoiceDrafts ----------------------------
(***************************************************************************)
(* The planning of invoices (app/erp/services/invoice_drafts.py): drafts   *)
(* that allot quantities of an order's items, towards a target value.      *)
(* A draft is read before the order is locked; the order's lock and the    *)
(* version of the draft then decide.  Money is in cents; what Decimal      *)
(* rounds is rounded here.                                                 *)
(***************************************************************************)
EXTENDS SalesOrders

CONSTANTS
  Draft,      (* the drafts that may be created: their order *)
  Percents    (* the percentages a person may ask for *)

Drafts == DOMAIN Draft

ASSUME DraftsTyped ==
  (\A d \in Drafts : Draft[d] \in Sales) /\ Percents \subseteq 1..100

ASSUME DraftsAreFinite == IsFiniteSet(Drafts)

VARIABLE draft   (* erp_invoice_drafts and their items: [status, content,
                    version, total, percent, target, allotted]; an item's
                    snapshot is that of the draft's content *)

-----------------------------------------------------------------------------
(* Values                                                                  *)

(* a / b to the nearest cent, halves up (q2).                              *)
HalfUp(a, b) == (2 * a + b) \div (2 * b)

Target(total, percent) == HalfUp(total * percent, 100)

(* line_value_for with unit_value: the whole item costs its exact total.   *)
LineValue(item, quantity) ==
  CASE quantity <= 0 -> 0
    [] quantity > 0 /\ quantity = item.quantity -> item.total
    [] quantity > 0 /\ quantity # item.quantity ->
         HalfUp(quantity * item.total, item.quantity)

(* How many units fit in what remains.  The unit value is a quotient of 28 *)
(* digits: when the units fit exactly it may be rounded up, and then one   *)
(* fits less.                                                              *)
Fits(item, remaining, roundedUp) ==
  LET n == (remaining * item.quantity) \div item.total IN
    IF roundedUp /\ n * item.total = remaining * item.quantity THEN n - 1 ELSE n

(* What is taken of one item (the body of the loop of _organize).          *)
Take(item, remaining, available, roundedUp) ==
  IF item.total = 0 \/ remaining <= 0 \/ available <= 0 THEN 0
    ELSE LET n == Fits(item, remaining, roundedUp)
         IN IF available < n THEN available ELSE n

(* _organize: the items in their order, each as much as fits.              *)
Organized(items, target, available, roundedUp) ==
  LET left[i \in 0..Len(items)] ==
        IF i = 0 THEN target
          ELSE left[i - 1] - LineValue(items[i],
                 Take(items[i], left[i - 1], available[i], roundedUp))
  IN [i \in 1..Len(items) |->
        Take(items[i], left[i - 1], available[i], roundedUp)]

ValueOf(items, allotted) ==
  SumFunction([i \in DOMAIN items |-> LineValue(items[i], allotted[i])])

-----------------------------------------------------------------------------
(* The drafts                                                              *)

Keys(c) == {Sale[c].items[i].key : i \in DOMAIN Sale[c].items}
AllKeys == UNION {Keys(c) : c \in Contents}
QuantityIn(c, key) ==
  SumFunction([i \in DOMAIN Sale[c].items |->
                 IF Sale[c].items[i].key = key THEN Sale[c].items[i].quantity ELSE 0])

(* current_items: the items of an order by their source key, each once; no *)
(* quantity or total of an order is below zero at the source.              *)
ASSUME OrderItemsTyped ==
  \A c \in Contents :
    /\ Sale[c].items \in Seq([key : Keys(c), quantity : Nat, total : Nat])
    /\ \A i, j \in DOMAIN Sale[c].items :
         Sale[c].items[i].key = Sale[c].items[j].key => i = j

NothingAllotted == [k \in AllKeys |-> 0]

DraftsInit ==
  draft = [d \in Drafts |-> [status |-> "absent", content |-> FirstContent[Draft[d]],
                             version |-> 1, total |-> 0, percent |-> 1, target |-> 0,
                             allotted |-> NothingAllotted]]

DraftRow(d) == <<"draft", d>>

OtherDrafts(d) ==
  {e \in Drafts \ {d} : Draft[e] = Draft[d] /\ draft[e].status = "draft"}

(* Mutant: only the documents of the same content are counted.             *)
ElsewhereFresh(d, key) ==
  SumFunction([e \in {x \in OtherDrafts(d) : draft[x].content = draft[d].content} |->
                 draft[e].allotted[key]])

(* What the order's other live drafts allot, outdated ones included.       *)
Elsewhere(d, key) == SumFunction([e \in OtherDrafts(d) |-> draft[e].allotted[key]])

AvailableIn(d, c) ==
  [i \in DOMAIN Sale[c].items |->
     Sale[c].items[i].quantity - Elsewhere(d, Sale[c].items[i].key)]

OrganizedDraft(d, c, target, roundedUp) ==
  LET items == Sale[c].items
      taken == Organized(items, target, AvailableIn(d, c), roundedUp)
  IN [k \in AllKeys |->
        SumFunction([i \in DOMAIN items |-> IF items[i].key = k THEN taken[i] ELSE 0])]

StaleDraft(d) == draft[d].content # sale[Draft[d]]

Saves(s, d, row, how) ==
  [do |-> "draft", locks |-> {SaleRow(Draft[d]), DraftRow(d)},
   draft |-> OneRow(d, row), how |-> how]

(* create_draft: the order is locked first.                                *)
CreateDraft(s, d, percent, organize, roundedUp) ==
  LET c      == sale[Draft[d]]
      target == Target(Sale[c].total, percent)
  IN /\ draft[d].status = "absent"
     /\ Free(s, {SaleRow(Draft[d]), DraftRow(d)})
     /\ Allowed(c, "invoice")
     /\ Sale[c].items # <<>>
     /\ Starts(s, Saves(s, d,
          [status |-> "draft", content |-> c, version |-> 1,
           total |-> Sale[c].total, percent |-> percent, target |-> target,
           allotted |-> IF organize THEN OrganizedDraft(d, c, target, roundedUp)
                                    ELSE NothingAllotted],
          IF organize THEN "organized" ELSE "created"))
     /\ UNCHANGED <<sale, draft>>

(* Any edit begins by reading the draft, without a lock.                   *)
ReadDraft(s, d) ==
  /\ draft[d].status = "draft"
  /\ Starts(s, [do |-> "edit", locks |-> {}, d |-> d, seen |-> [content |-> draft[d].content, version |-> draft[d].version]])
  /\ UNCHANGED <<sale, draft>>

(* Mutant: the version of the draft is not compared.                       *)
ClaimAnyVersion(s) == TRUE

(* _claim, under the lock of the order: nobody edited the draft since.     *)
ClaimDraft(s) == draft[tx[s].d].version = tx[s].seen.version

MayWork(s, d) ==
  /\ tx[s].do = "edit"
  /\ d = tx[s].d
  /\ Free(s, {SaleRow(Draft[d]), DraftRow(d)})
  /\ ClaimDraft(s)

Edited(s, d, row, how) ==
  /\ tx' = [tx EXCEPT ![s] =
       Saves(s, d, [row EXCEPT !.version = tx[s].seen.version + 1], how)]
  /\ UNCHANGED <<commits, sale, draft>>

(* _rebase: the snapshot follows the order, the allotment is cut down.     *)
Rebased(d) ==
  LET c == sale[Draft[d]]
      room(k) == LET r == QuantityIn(c, k) - Elsewhere(d, k)
                 IN IF r < 0 THEN 0 ELSE r
      old   == draft[d].allotted
      total == IF Sale[c].total > 0 THEN Sale[c].total ELSE draft[d].total
  IN [draft[d] EXCEPT
        !.content = c,
        !.total = total,
        !.target = IF Sale[c].total > 0 THEN Target(total, draft[d].percent) ELSE @,
        !.allotted = [k \in AllKeys |-> IF old[k] < room(k) THEN old[k] ELSE room(k)]]

(* patch_draft: a review if the order changed, then the edit of a quantity *)
(* (several are checked one by one) ...                                    *)
PatchDraft(s, d, acknowledged, key, quantity) ==
  LET stale == tx[s].seen.content # sale[Draft[d]]
      row   == IF stale THEN Rebased(d) ELSE draft[d]
  IN /\ MayWork(s, d)
     /\ stale => acknowledged
     /\ key \in Keys(row.content)
     /\ quantity <= QuantityIn(row.content, key) - Elsewhere(d, key)
     /\ Edited(s, d, [row EXCEPT !.allotted[key] = quantity], "patched")

(* ... or of the percentage.                                               *)
PatchPercent(s, d, acknowledged, percent) ==
  LET stale == tx[s].seen.content # sale[Draft[d]]
      row   == IF stale THEN Rebased(d) ELSE draft[d]
  IN /\ MayWork(s, d)
     /\ stale => acknowledged
     /\ Edited(s, d, [row EXCEPT !.percent = percent,
                                 !.target = Target(row.total, percent)], "patched")

(* organize_draft, never on an outdated draft.                             *)
OrganizeDraft(s, d, roundedUp) ==
  /\ MayWork(s, d)
  /\ tx[s].seen.content = sale[Draft[d]]
  /\ Edited(s, d, [draft[d] EXCEPT !.allotted =
       OrganizedDraft(d, draft[d].content, draft[d].target, roundedUp)], "organized")

(* cancel_draft                                                            *)
CancelDraft(s, d) ==
  /\ MayWork(s, d)
  /\ Edited(s, d, [draft[d] EXCEPT !.status = "cancelled"], "cancelled")

(* 409: closed, outdated, another version, or more than is left.           *)
CommitDraft(s) ==
  /\ tx[s].do = "draft"
  /\ draft' = Written(draft, tx[s].draft)
  /\ Commits(s)
  /\ UNCHANGED sale

DraftStep(s) ==
  \/ \E d \in Drafts, p \in Percents, organize, up \in BOOLEAN :
       CreateDraft(s, d, p, organize, up)
  \/ \E d \in Drafts : ReadDraft(s, d) \/ CancelDraft(s, d)
  \/ \E d \in Drafts, up \in BOOLEAN : OrganizeDraft(s, d, up)
  \/ \E d \in Drafts, ack \in BOOLEAN, p \in Percents : PatchPercent(s, d, ack, p)
  \/ \E d \in Drafts, ack \in BOOLEAN, k \in AllKeys : \E n \in 0..QuantityIn(sale[Draft[d]], k) :
       PatchDraft(s, d, ack, k, n)
  \/ CommitDraft(s)

-----------------------------------------------------------------------------
(* state_provider and filter_provider                                      *)

LiveDrafts(o) == {d \in Drafts : Draft[d] = o /\ draft[d].status = "draft"}

(* The loop over an order's drafts: an outdated one is never covered.      *)
InvoiceState(o) ==
  CASE LiveDrafts(o) = {} -> "none"
    [] \E d \in LiveDrafts(o) : StaleDraft(d) -> "stale"
    [] LiveDrafts(o) # {} /\ \A d \in LiveDrafts(o) : ~StaleDraft(d) -> "draft"

-----------------------------------------------------------------------------
(* Properties *)

DraftsTypeOK ==
  draft \in [Drafts -> [status : {"absent", "draft", "cancelled"}, content : Contents,
                        version : Nat, total : Nat, percent : 1..100, target : Nat,
                        allotted : [AllKeys -> Nat]]]

(* No quantity of an item is allotted twice: together, the live drafts     *)
(* made from one content of an order never allot more of an item than that *)
(* content has, whoever edits, organises, reviews or cancels, and however  *)
(* the order changes and changes back (invoice_drafts.py:11-12).           *)
NeverAllottedTwice ==
  /\ DraftsTypeOK
  /\ \A o \in Sales, c \in Contents, k \in AllKeys :
       SumFunction([d \in {e \in LiveDrafts(o) : draft[e].content = c} |->
                      draft[d].allotted[k]]) <= QuantityIn(c, k)

(* A draft that is organised comes out within its target and within what   *)
(* was left of every item when it is committed (invoice_drafts.py:13-14).  *)
FitsItsTarget(d) ==
  LET items == Sale[draft[d].content].items IN
    /\ ValueOf(items, [i \in DOMAIN items |-> draft[d].allotted[items[i].key]])
         <= draft[d].target
    /\ \A k \in AllKeys : draft[d].allotted[k] > 0 =>
         draft[d].allotted[k] + Elsewhere(d, k) <= QuantityIn(draft[d].content, k)

(* Nobody's edit is lost: a draft's version moves by one and only the one  *)
(* who saw the version before wrote over it (_claim); and what is          *)
(* organised fits.                                                         *)
EditsAreSound ==
  [][\A d \in Drafts :
       (draft[d].status = "draft" /\ draft'[d] # draft[d]) =>
         /\ draft'[d].version = draft[d].version + 1
         /\ (\E s \in Sessions : /\ tx[s].do = "draft" /\ tx[s].how = "organized"
                                 /\ d \in DOMAIN tx[s].draft /\ tx'[s] # tx[s])
              => FitsItsTarget(d)']_draft

===============================================================================
