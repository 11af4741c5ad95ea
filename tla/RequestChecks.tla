----------------------------- MODULE RequestChecks -----------------------------
(***************************************************************************)
(* The request bodies and filters that the SDK checks before it sends      *)
(* them: how their constructors and builders fill them in and what their   *)
(* validate() lets through (trading/requests.rs, broker/requests.rs and    *)
(* the smaller families beside them); and batch journals, which have no    *)
(* check at all.  A request is its kind, what each of its fields holds,    *)
(* and its list of parts: legs, weights, documents, ...  Of an amount only *)
(* the sign matters, of another field whether it is set.                   *)
(***************************************************************************)
EXTENDS Naturals, Sequences, Functions

Sign == {"negative", "zero", "positive"}

Prices == {"limit_price", "stop_price", "trail_price", "trail_percent"}
Exits == {"take_profit", "stop_loss"}
Address == {"country", "state_province", "postal_code", "city", "street_address"}

\* What CreateAccountRequest must hold besides its agreements.
Application ==
  {"contact.email_address", "contact.street_address", "contact.city",
   "identity.given_name", "identity.family_name", "identity.date_of_birth",
   "identity.tax_id_type", "identity.country_of_tax_residence",
   "identity.funding_source", "disclosures.is_control_person",
   "disclosures.is_affiliated_exchange_or_finra",
   "disclosures.is_politically_exposed", "disclosures.immediate_family_exposed"}

Identifiers == {"client_account_id", "client_external_account_id", "client_id"}

\* The fields of each kind of request that its checks or its builders look at, and
\* the amounts and documents among those that nobody looks at: the quantity of a
\* redeem callback and the documents of an application.
FieldsOf ==
  [order       |-> {"symbol", "side", "qty", "notional", "order_type", "order_class"}
                     \cup Prices \cup Exits,
   replacement |-> {"qty", "limit_price", "stop_price", "trail"},
   activities  |-> {"category", "activity_types"},
   watchlist   |-> {"name", "symbols"},
   announcements |-> {"window"},
   statements  |-> {"window"},
   mint        |-> {"qty"},
   callback    |-> Identifiers,
   redeem      |-> Identifiers \cup {"qty"},
   locate      |-> {"qty", "limit_price"},
   account     |-> Application \cup {"documents"},
   bank        |-> {"bank_code_type"} \cup Address,
   transfer    |-> {"amount"},
   journal     |-> {"entry_type", "amount", "symbol", "qty"},
   advance     |-> {"amount"},
   withdrawal  |-> {"amount"},
   documents   |-> {}, weights |-> {}, advances |-> {}, settlement |-> {}, batch |-> {}]

Kinds == DOMAIN FieldsOf
Fields == UNION {FieldsOf[k] : k \in Kinds}

Amounts == {"qty", "notional", "amount", "trail"} \cup Prices

\* What a field may hold; "absent" is None, or an empty string, and documents are
\* "unsound" when ValidDocument fails for one of them.
Holds(f) ==
  CASE f \in Amounts -> Sign \cup {"absent"}
    [] f = "documents" -> {"absent", "sound", "unsound"}
    [] f = "order_type" -> {"market", "limit", "stop", "stop_limit", "trailing_stop"}
    [] f = "order_class" -> {"absent", "simple", "mleg", "bracket", "oco", "oto"}
    [] f = "bank_code_type" -> {"ABA", "BIC", "unknown"}
    [] f = "entry_type" -> {"JNLC", "JNLS", "unknown"}
    [] f = "window" -> {"reversed", "short", "long"}
    [] OTHER -> {"absent", "set"}

Set(r, f) == r.value[f] # "absent"
AllPositive(r, fs) == \A f \in fs : r.value[f] \in {"absent", "positive"}

Blank(kind) == [kind |-> kind, value |-> [f \in Fields |-> "absent"], parts |-> <<>>]

\* Request r with the fields of w assigned.
With(r, w) ==
  [kind |-> r.kind, parts |-> r.parts,
   value |-> [f \in Fields |-> IF f \in DOMAIN w THEN w[f] ELSE r.value[f]]]

(***************************************************************************)
(* Orders.                                                                 *)
(***************************************************************************)
\* The prices each type is constructed with.
PricesOf ==
  [market |-> {{}}, limit |-> {{"limit_price"}}, stop |-> {{"stop_price"}},
   stop_limit |-> {{"stop_price", "limit_price"}},
   trailing_stop |-> {{"trail_price"}, {"trail_percent"}}]

\* OrderRequest::market, limit, stop, stop_limit and trailing_stop.
SingleLeg(type, amount, prices) ==
  With(With(Blank("order"), [symbol |-> "set", side |-> "set", order_type |-> type]),
       [f \in {amount} \cup prices |-> "positive"])

\* OrderRequest::multi_leg
MultiLeg(legs, limit) ==
  [With(Blank("order"),
        [order_class |-> "mleg", qty |-> "positive", limit_price |-> limit,
         order_type |-> IF limit = "absent" THEN "market" ELSE "limit"])
     EXCEPT !.parts = legs]

Orders(legLists) ==
  {SingleLeg(x[1], x[2], x[3]) :
     x \in UNION {{t} \X {"qty", "notional"} \X PricesOf[t] : t \in DOMAIN PricesOf}}
  \cup {MultiLeg(legs, limit) : legs \in legLists, limit \in {"absent", "positive"}}

Bracket(o) == With(o, [order_class |-> "bracket", take_profit |-> "set", stop_loss |-> "set"])
Oco(o) == With(o, [order_class |-> "oco", take_profit |-> "set", stop_loss |-> "set"])

\* A bug to catch: the other exit is kept.
OtoTakeProfit_Adds(o) == With(o, [order_class |-> "oto", take_profit |-> "set"])

OtoTakeProfit(o) == With(o, [order_class |-> "oto", take_profit |-> "set", stop_loss |-> "absent"])
OtoStopLoss(o) == With(o, [order_class |-> "oto", stop_loss |-> "set", take_profit |-> "absent"])

\* Bugs to catch: two exits pass for one; the symbol is only asked for of the
\* classes that are known to need it.
ValidExits_AnyOfOto(o) ==
  /\ o.value["order_class"] \in {"bracket", "oco"} => \A e \in Exits : Set(o, e)
  /\ o.value["order_class"] = "oto" => \E e \in Exits : Set(o, e)
ValidSubject_OfSimple(o) ==
  o.value["order_class"] \in {"absent", "simple"} => Set(o, "symbol") /\ Set(o, "side")

\* OrderRequest::validate, in its two halves.
ValidExits(o) ==
  /\ o.value["order_class"] \in {"bracket", "oco"} => \A e \in Exits : Set(o, e)
  /\ o.value["order_class"] = "oto" => Set(o, "take_profit") # Set(o, "stop_loss")

ValidSubject(o) ==
  IF o.value["order_class"] = "mleg"
  THEN /\ o.value["order_type"] \in {"market", "limit"}
       /\ Set(o, "qty")
       /\ Len(o.parts) \in 2..4
       /\ IsInjective(o.parts)
  ELSE Set(o, "symbol") /\ Set(o, "side")

ValidOrder(o) == ValidExits(o) /\ ValidSubject(o)

\* ReplaceOrderRequest::validate
ValidReplacement(r) == AllPositive(r, {"qty", "stop_price", "trail"})

(***************************************************************************)
(* Other requests of the trading client.                                   *)
(***************************************************************************)
ValidActivities(r) == ~(Set(r, "category") /\ Set(r, "activity_types"))
ValidWatchlist(r) == Set(r, "name") \/ Set(r, "symbols")
ValidAnnouncements(r) == r.value["window"] # "long"
ValidMint(r) == AllPositive(r, {"qty"})
ValidLocate(r) == AllPositive(r, {"qty"}) /\ r.value["limit_price"] # "negative"

\* A bug to catch: the deprecated name is forgotten.
ValidCallback_WithoutAlias(r) ==
  Set(r, "client_account_id") # Set(r, "client_external_account_id")

\* exactly_one_account, where the deprecated client_id counts as the external id.
\* It is all that is asked of a mint callback and of a redeem request.
ValidCallback(r) ==
  Set(r, "client_account_id") # (Set(r, "client_external_account_id") \/ Set(r, "client_id"))

(***************************************************************************)
(* Requests of the broker client.                                          *)
(***************************************************************************)
\* CreateAccountRequest::validate, which leaves the documents alone; a part is
\* whether an agreement has its ip_address.
ValidAccount(r) ==
  /\ \A f \in Application : Set(r, f)
  /\ r.parts # <<>>
  /\ \A i \in DOMAIN r.parts : r.parts[i]

ValidBank(r) == r.value["bank_code_type"] = "ABA" => \A f \in Address : ~Set(r, f)
ValidTransfer(r) == AllPositive(r, {"amount"})
ValidStatements(r) == r.value["window"] # "reversed"
ValidAdvance(r) == AllPositive(r, {"amount"})
ValidWithdrawal(r) == AllPositive(r, {"amount"})

\* CreateJournalRequest::validate: what is set must fit the type, whatever its sign.
ValidJournal(r) ==
  /\ r.value["entry_type"] = "JNLC" =>
       ~Set(r, "symbol") /\ ~Set(r, "qty") /\ Set(r, "amount")
  /\ r.value["entry_type"] = "JNLS" =>
       ~Set(r, "amount") /\ Set(r, "symbol") /\ Set(r, "qty")

\* UploadDocument: any file, or a W-8BEN as content or as fields.
Files == [form : {"Document"}, claimsW8Ben : BOOLEAN]
W8Bens == [form : {"W8Ben"}, content : BOOLEAN, contentData : BOOLEAN,
           json : BOOLEAN, taxId : BOOLEAN, typeKept : BOOLEAN]

\* UploadDocument::validate with the two it calls, and W8BenDocument::validate.
ValidDocument(d) ==
  \/ d \in Files /\ ~d.claimsW8Ben
  \/ /\ d \in W8Bens
     /\ d.content # d.contentData
     /\ d.contentData => d.json /\ d.taxId
     /\ d.typeKept

\* upload_documents_to_account: all of them before any is sent.
ValidDocuments(r) == \A i \in DOMAIN r.parts : ValidDocument(r.parts[i])

\* Weight: an asset names its symbol, and every percentage is positive.
Weights == [type : {"cash", "asset"}, symbol : BOOLEAN, percent : Sign]
ValidWeight(w) == w.percent = "positive" /\ (w.type = "asset" => w.symbol)

\* CreatePortfolioRequest, UpdatePortfolioRequest and CreateRunRequest.
ValidWeights(r) == \A i \in DOMAIN r.parts : ValidWeight(r.parts[i])

\* CreateInstantFundingSettlementRequest and CreateJitSettlementRequest.
ValidAdvances(r) == r.parts # <<>>

\* A bug to catch: only the first account is looked at.
ValidSettlement_First(r) == r.parts # <<>> /\ r.parts[1] = "positive"

ValidSettlement(r) == r.parts # <<>> /\ \A i \in DOMAIN r.parts : r.parts[i] = "positive"

(***************************************************************************)
(* The check each kind goes through on its way out; the batch journals are *)
(* sent as they are.                                                       *)
(***************************************************************************)
Valid(r) ==
  \/ r.kind = "order" /\ ValidOrder(r)
  \/ r.kind = "replacement" /\ ValidReplacement(r)
  \/ r.kind = "activities" /\ ValidActivities(r)
  \/ r.kind = "watchlist" /\ ValidWatchlist(r)
  \/ r.kind = "announcements" /\ ValidAnnouncements(r)
  \/ r.kind = "statements" /\ ValidStatements(r)
  \/ r.kind = "mint" /\ ValidMint(r)
  \/ r.kind \in {"callback", "redeem"} /\ ValidCallback(r)
  \/ r.kind = "locate" /\ ValidLocate(r)
  \/ r.kind = "account" /\ ValidAccount(r)
  \/ r.kind = "bank" /\ ValidBank(r)
  \/ r.kind = "transfer" /\ ValidTransfer(r)
  \/ r.kind = "journal" /\ ValidJournal(r)
  \/ r.kind = "advance" /\ ValidAdvance(r)
  \/ r.kind = "withdrawal" /\ ValidWithdrawal(r)
  \/ r.kind = "documents" /\ ValidDocuments(r)
  \/ r.kind = "weights" /\ ValidWeights(r)
  \/ r.kind = "advances" /\ ValidAdvances(r)
  \/ r.kind = "settlement" /\ ValidSettlement(r)
  \/ r.kind = "batch"
=============================================================================
