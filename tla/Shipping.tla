------------------------------ MODULE Shipping ------------------------------
(***************************************************************************)
(* The local shipping quotes of an order (app/erp/services/shipping.py).   *)
(* Nothing is locked before it is written: a selection reads the quote,    *)
(* the order, the option and the other quotes, then supersedes what is     *)
(* selected and claims the quote by its version, inside a savepoint, under *)
(* a partial unique index of one selected quote per order.                 *)
(***************************************************************************)
EXTENDS SalesOrders

CONSTANTS
  Quote,      (* the quotes that may be created, by id: their order *)
  Option      (* the options that may be registered: their quote *)

Quotes == DOMAIN Quote
Options == DOMAIN Option
NoOption == "no option"

ASSUME QuotesTyped ==
  /\ Quotes \subseteq Nat /\ IsFiniteSet(Quotes)
  /\ \A q \in Quotes : Quote[q] \in Sales
  /\ \A x \in Options : Option[x] \in Quotes
  /\ NoOption \notin Options

VARIABLES
  quote,      (* erp_shipping_quotes: [status, content, version, option, reason] *)
  option      (* erp_shipping_options: absent, valid or expired *)

shippingTables == <<quote, option>>

(* The quotes Q of the first contents, with the options X.                 *)
Quoted(Q, X) ==
  /\ quote = [q \in Quotes |-> [status |-> IF q \in Q THEN "draft" ELSE "absent",
                                content |-> FirstContent[Quote[q]], version |-> 1,
                                option |-> NoOption, reason |-> FALSE]]
  /\ option = [x \in Options |-> IF x \in X THEN "valid" ELSE "absent"]

NoQuotes == Quoted({}, {})

(* Nothing was quoted yet, or the quotes and options are already there.    *)
ShippingInit == NoQuotes \/ Quoted(Quotes, Options)

QuoteRow(q) == <<"quote", q>>
(* The entry of order o in the partial unique index.                       *)
IndexRow(o) == <<"selected quote", o>>

QuotesOf(o) == {q \in Quotes : Quote[q] = o}
Selected(o) == {q \in QuotesOf(o) : quote[q].status = "selected"}

(* is_stale: the order changed after the quote.                            *)
StaleQuote(q) == quote[q].content # sale[Quote[q]]

Stores(locks, quotes, options) ==
  [do |-> "ship", locks |-> locks, quote |-> quotes, option |-> options]

-----------------------------------------------------------------------------
(* create_quote, add_option                                                *)

CreateQuote(s, q) ==
  /\ quote[q].status = "absent"
  /\ Free(s, {QuoteRow(q)})
  /\ Allowed(sale[Quote[q]], "shipping")
  /\ Starts(s, Stores({QuoteRow(q)},
       OneRow(q, [quote[q] EXCEPT !.status = "draft", !.content = sale[Quote[q]]]),
       NoRows))
  /\ UNCHANGED <<sale, shippingTables>>

AddOption(s, x) ==
  /\ option[x] = "absent"
  /\ quote[Option[x]].status \in {"draft", "selected"}
  /\ ~StaleQuote(Option[x])
  /\ Starts(s, Stores({}, NoRows, OneRow(x, "valid")))
  /\ UNCHANGED <<sale, shippingTables>>

Expire(x) ==
  /\ option[x] = "valid"
  /\ option' = [option EXCEPT ![x] = "expired"]
  /\ UNCHANGED <<tx, commits, sale, quote>>

-----------------------------------------------------------------------------
(* select_option                                                           *)

(* Another choice stands: this quote's, or that of another quote.          *)
ReplacesChoice(q) == Selected(Quote[q]) # {}

(* Everything is read, nothing is locked.  A person sends the version they *)
(* saw; only the current one passes.                                       *)
SelectRead(s, x, reason) ==
  LET q == Option[x] IN
    /\ option[x] = "valid"
    /\ quote[q].status \in {"draft", "selected"}
    /\ ~StaleQuote(q)
    /\ quote[q].option # x
    /\ ReplacesChoice(q) => reason
    /\ Starts(s, [do |-> "select", locks |-> {}, x |-> x, reason |-> reason,
                  version |-> quote[q].version,
                  replaces |-> Selected(Quote[q]) \ {q} # {}])
    /\ UNCHANGED <<sale, shippingTables>>

(* UPDATE ... SET superseded of whatever other quote is selected by now,   *)
(* only if one was seen; the version of those rows is not touched.         *)
SupersedeOthers(s) ==
  LET q      == Option[tx[s].x]
      others == IF tx[s].replaces THEN Selected(Quote[q]) \ {q} ELSE {}
      locks  == {QuoteRow(r) : r \in others}
  IN /\ tx[s].do = "select"
     /\ Free(s, locks)
     /\ tx' = [tx EXCEPT ![s] =
          [do |-> "claim", locks |-> locks, x |-> tx[s].x,
           reason |-> tx[s].reason, version |-> tx[s].version,
           others |-> [r \in others |-> [quote[r] EXCEPT !.status = "superseded"]]]]
     /\ UNCHANGED <<commits, sale, shippingTables>>

(* The unique index admits q beside the rows this transaction supersedes.  *)
IndexAdmits(s, q) == Selected(Quote[q]) \subseteq {q} \cup DOMAIN tx[s].others

(* Mutant: the versions alone decide.                                      *)
ClaimWithoutIndex(s) == quote[Option[tx[s].x]].version = tx[s].version

CanClaim(s) ==
  LET q == Option[tx[s].x] IN
    quote[q].version = tx[s].version /\ IndexAdmits(s, q)

(* UPDATE ... WHERE id AND version: the status is not looked at again.     *)
ClaimQuote(s) ==
  LET q     == Option[tx[s].x]
      locks == {QuoteRow(q), IndexRow(Quote[q])}
      row   == [quote[q] EXCEPT !.status = "selected", !.option = tx[s].x,
                                !.reason = tx[s].reason, !.version = @ + 1]
      others == tx[s].others
  IN /\ tx[s].do = "claim"
     /\ Free(s, locks)
     /\ CanClaim(s)
     /\ tx' = [tx EXCEPT ![s] = Stores(tx[s].locks \cup locks,
          [r \in {q} \cup DOMAIN others |-> IF r = q THEN row ELSE others[r]],
          NoRows)]
     /\ UNCHANGED <<commits, sale, shippingTables>>

(* 409: the savepoint undoes both updates.                                 *)
ClaimRefused(s) ==
  /\ tx[s].do = "claim"
  /\ Free(s, {QuoteRow(Option[tx[s].x]), IndexRow(Quote[Option[tx[s].x]])})
  /\ ~CanClaim(s)
  /\ RollsBack(s)
  /\ UNCHANGED <<sale, shippingTables>>

CommitShipping(s) ==
  /\ tx[s].do = "ship"
  /\ quote' = Written(quote, tx[s].quote)
  /\ option' = Written(option, tx[s].option)
  /\ Commits(s)
  /\ UNCHANGED sale

ShippingStep(s) ==
  \/ \E q \in Quotes : CreateQuote(s, q)
  \/ \E x \in Options : AddOption(s, x)
  \/ \E x \in Options, reason \in BOOLEAN : SelectRead(s, x, reason)
  \/ SupersedeOthers(s) \/ ClaimQuote(s) \/ ClaimRefused(s) \/ CommitShipping(s)

-----------------------------------------------------------------------------
(* state_provider and filter_provider: what the list of orders shows       *)

Live(o) == {q \in QuotesOf(o) : quote[q].status \in {"draft", "selected"}}

(* The selected quote, else the latest draft.                              *)
Shown(o) ==
  IF Selected(o) # {} THEN CHOOSE q \in Selected(o) : \A r \in Selected(o) : r <= q
                      ELSE CHOOSE q \in Live(o) : \A r \in Live(o) : r <= q

ShippingState(o) ==
  CASE Live(o) = {} -> "none"
    [] Live(o) # {} /\ StaleQuote(Shown(o)) -> "stale"
    [] Live(o) # {} /\ ~StaleQuote(Shown(o)) -> quote[Shown(o)].status

ShippingFilter(o, value) ==
  CASE value = "none" -> Live(o) = {}
    [] value = "stale" -> \E q \in Live(o) : StaleQuote(q)
    [] value = "selected" -> \E q \in Selected(o) : ~StaleQuote(q)
    [] value = "draft" -> /\ \E q \in Live(o) \ Selected(o) : ~StaleQuote(q)
                          /\ \A q \in Selected(o) : StaleQuote(q)

-----------------------------------------------------------------------------
(* Properties *)

ShippingTypeOK ==
  /\ quote \in [Quotes ->
       [status : {"absent", "draft", "selected", "superseded"}, content : Contents,
        version : Nat, option : Options \cup {NoOption}, reason : BOOLEAN]]
  /\ option \in [Options -> {"absent", "valid", "expired"}]

(* Once freight was selected for an order, exactly one quote is selected   *)
(* for it ever after: overlapping selections neither leave two nor, when   *)
(* one of them loses, none; and whoever replaces a selection, another      *)
(* person's included, gave a reason (shipping.py:10-12).                   *)
SelectionStands ==
  [][\A o \in Sales : Selected(o) # {} =>
       /\ Cardinality(Selected(o)') = 1
       /\ \A p \in Selected(o), q \in Selected(o)' :
            (p # q \/ quote[p].option # quote'[q].option) => quote'[q].reason]_quote

(* An order of the list is found again under the filter of the state it    *)
(* shows (the state of the page and the counts of the summary come from    *)
(* two different queries).                                                 *)
FoundUnderItsState == \A o \in Sales : ShippingFilter(o, ShippingState(o))

===============================================================================
