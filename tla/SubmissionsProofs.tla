--------------------------- MODULE SubmissionsProofs ---------------------------
(***************************************************************************)
(* Theorems about Submissions, for all lists of parts and any number of    *)
(* fields assigned by hand.                                                *)
(***************************************************************************)
EXTENDS Submissions, TLAPS

LEMMA ExitFields == Exits \subseteq Fields /\ "order_class" \in Fields
BY DEF Exits, Fields, Kinds, FieldsOf

\* Whatever was built and assigned before it, an order has the exits that the
\* last of bracket, oco, oto_take_profit and oto_stop_loss asked for.
THEOREM ExitsOfLastBuilder == Spec => []LastBuilderWins
<1>1. Init => LastBuilderWins
  BY DEF Init, LastBuilderWins
<1>2. LastBuilderWins /\ [Next]_vars => LastBuilderWins'
  <2> SUFFICES ASSUME LastBuilderWins, [Next]_vars PROVE LastBuilderWins'
    OBVIOUS
  <2>1. CASE Build(Bracket(request), Exits)
    BY <2>1, ExitFields DEF Build, Bracket, With, LastBuilderWins, ExitsOf, Set, Exits
  <2>2. CASE Build(Oco(request), Exits)
    BY <2>2, ExitFields DEF Build, Oco, With, LastBuilderWins, ExitsOf, Set, Exits
  <2>3. CASE Build(OtoTakeProfit(request), {"take_profit"})
    BY <2>3, ExitFields DEF Build, OtoTakeProfit, With, LastBuilderWins, ExitsOf, Set, Exits
  <2>4. CASE Build(OtoStopLoss(request), {"stop_loss"})
    BY <2>4, ExitFields DEF Build, OtoStopLoss, With, LastBuilderWins, ExitsOf, Set, Exits
  <2>5. CASE \E f \in Fields : \E v \in Holds(f) : Assign(f, v)
    BY <2>5 DEF Assign, LastBuilderWins
  <2>6. CASE Submit
    BY <2>6 DEF Submit, LastBuilderWins, ExitsOf, Set
  <2>7. CASE UNCHANGED vars
    BY <2>7 DEF vars, LastBuilderWins, ExitsOf, Set
  <2> QED
    BY <2>1, <2>2, <2>3, <2>4, <2>5, <2>6, <2>7 DEF Next
<1> QED
  BY <1>1, <1>2, PTL DEF Spec

\* A valid request holds at most one of two rivals.
LEMMA ValidChooses ==
  ASSUME NEW r, Valid(r), ~Exempt(r), NEW p \in Rivals, p[1] = r.kind
  PROVE  ~(Set(r, p[2]) /\ Set(r, p[3]))
<1>1. CASE r.kind = "order"
  BY <1>1 DEF Valid, ValidOrder, ValidExits, Rivals, Exempt, Set
<1>2. CASE r.kind = "journal"
  BY <1>2 DEF Valid, ValidJournal, Rivals, Exempt
<1>3. CASE r.kind = "activities"
  BY <1>3 DEF Valid, ValidActivities, Rivals
<1>4. CASE r.kind \in {"callback", "redeem"}
  BY <1>4 DEF Valid, ValidCallback, Rivals, Identifiers, Set
<1> QED
  BY <1>1, <1>2, <1>3, <1>4 DEF Rivals

\* The amounts of a valid request are not zero or negative, unless it is of a
\* kind whose amounts are not checked.
LEMMA ValidAmounts ==
  ASSUME NEW r, Valid(r), r.kind \notin AmountsUnchecked
  PROVE  SignsOf(r) \cap {"negative", "zero"} = {}
<1>1. ASSUME NEW f \in FieldsOf[r.kind] \cap (Amounts \ {"limit_price"})
      PROVE  r.value[f] \notin {"negative", "zero"}
  BY <1>1 DEF Valid, AmountsUnchecked, FieldsOf, Amounts, Prices, Application, Address, Identifiers,
     AllPositive, ValidReplacement, ValidMint, ValidLocate, ValidTransfer, ValidAdvance,
     ValidWithdrawal
<1>2. ASSUME NEW i \in DOMAIN r.parts, r.kind \in {"settlement", "batch"}
      PROVE  r.parts[i] = "positive"
  BY <1>2 DEF Valid, AmountsUnchecked, ValidSettlement
<1>3. ASSUME NEW i \in DOMAIN r.parts, r.kind = "weights"
      PROVE  r.parts[i].percent = "positive"
  BY <1>3 DEF Valid, ValidWeights, ValidWeight
<1> QED
  BY <1>1, <1>2, <1>3 DEF SignsOf

\* A valid upload has every W-8BEN in exactly one form.
LEMMA ValidUploads ==
  ASSUME NEW r, Valid(r), r.kind = "documents",
         NEW i \in DOMAIN r.parts, r.parts[i].form = "W8Ben"
  PROVE  r.parts[i].content # r.parts[i].contentData
<1>1. ValidDocument(r.parts[i])
  BY DEF Valid, ValidDocuments
<1>2. r.parts[i] \notin Files
  BY DEF Files
<1> QED
  BY <1>1, <1>2 DEF ValidDocument

\* No sequence of builders and assignments gets past the checks what they are
\* there for: two rivals, an amount that is not positive in a kind whose amounts
\* are checked, or an uploaded W-8BEN in two forms or in none.
THEOREM ChecksAreKept == Spec => []ChecksHold
<1>1. Init => ChecksHold
  BY DEF Init, ChecksHold
<1>2. ChecksHold /\ [Next]_vars => ChecksHold'
  <2> SUFFICES ASSUME ChecksHold, [Next]_vars PROVE ChecksHold'
    OBVIOUS
  <2>1. CASE Submit
    <3> SUFFICES ASSUME Valid(request), request' = request PROVE ChecksHold'
      BY <2>1 DEF Submit, ChecksHold
    <3>1. \A p \in Rivals : p[1] = request.kind /\ ~Exempt(request) =>
            ~(Set(request, p[2]) /\ Set(request, p[3]))
      BY ValidChooses
    <3>2. request.kind \notin AmountsUnchecked =>
            SignsOf(request) \cap {"negative", "zero"} = {}
      BY ValidAmounts
    <3>3. request.kind = "documents" =>
            \A i \in DOMAIN request.parts :
              request.parts[i].form = "W8Ben" =>
                request.parts[i].content # request.parts[i].contentData
      BY ValidUploads
    <3> QED
      BY <3>1, <3>2, <3>3 DEF ChecksHold, Exempt, Set, SignsOf
  <2>2. CASE UNCHANGED vars
    BY <2>2 DEF vars, ChecksHold, Exempt, Set, SignsOf
  <2>3. CASE stage' = "building"
    BY <2>3 DEF ChecksHold
  <2>4. ASSUME NEW f, NEW v, Assign(f, v) PROVE stage' = "building"
    BY <2>4 DEF Assign
  <2> QED
    BY <2>1, <2>2, <2>3, <2>4 DEF Next, Build
<1> QED
  BY <1>1, <1>2, PTL DEF Spec

(***************************************************************************)
(* What is built without assignments by hand is as it should be all along. *)
(***************************************************************************)
SingleLegged(o) ==
  Set(o, "symbol") /\ Set(o, "side") /\ o.value["order_class"] # "mleg"
MultiLegged(o) ==
  /\ ~Set(o, "symbol") /\ o.value["order_class"] = "mleg"
  /\ o.value["order_type"] \in {"market", "limit"} /\ Set(o, "qty")
Reclassed(o) == ~Set(o, "symbol") /\ o.value["order_class"] # "mleg"

AsBuilt ==
  edits \in Nat /\ (edits = 0 =>
    /\ request.kind = "order" =>
         /\ ValidExits(request)
         /\ \/ SingleLegged(request)
            \/ MultiLegged(request) /\ exits = {}
            \/ Reclassed(request) /\ exits # {}
    /\ request.kind \in {"bank", "journal", "replacement", "activities"} => Valid(request)
    /\ request.kind \in {"watchlist", "callback", "redeem"} => ~Valid(request))

LEMMA NamedFields ==
  {"symbol", "side", "qty", "amount", "trail", "stop_price", "order_type", "order_class",
   "take_profit", "stop_loss", "category", "activity_types", "name", "symbols",
   "client_account_id", "client_external_account_id", "client_id", "bank_code_type",
   "country", "state_province", "postal_code", "city", "street_address", "entry_type"}
    \subseteq Fields
BY DEF Fields, Kinds, FieldsOf, Exits, Prices, Address, Identifiers

\* A single-leg order has its symbol and its side, and no exit without a class.
LEMMA SingleLegIsBuilt ==
  ASSUME NEW t, NEW a \in {"qty", "notional"}, NEW ps \in SUBSET Prices
  PROVE  LET o == SingleLeg(t, a, ps) IN
         o.kind = "order" /\ ValidExits(o) /\ SingleLegged(o)
BY NamedFields DEF SingleLeg, With, Blank, ValidExits, SingleLegged, Set, Prices, Exits

LEMMA MultiLegIsBuilt ==
  ASSUME NEW legs, NEW limit \in {"absent", "positive"}
  PROVE  LET o == MultiLeg(legs, limit) IN
         o.kind = "order" /\ ValidExits(o) /\ MultiLegged(o)
BY NamedFields DEF MultiLeg, With, Blank, ValidExits, MultiLegged, Set, Exits

\* A change or a filter that asks for nothing yet is fine; an update or a
\* callback that names nothing is not.
LEMMA BlanksAreBuilt ==
  /\ Valid(Blank("replacement")) /\ Valid(Blank("activities"))
  /\ ~Valid(Blank("watchlist")) /\ ~Valid(Blank("callback"))
<1>1. \A k : Blank(k).kind = k
  BY DEF Blank
<1>2. \A k : \A f \in Fields : ~Set(Blank(k), f) /\ Blank(k).value[f] = "absent"
  BY DEF Blank, Set
<1>3. ValidReplacement(Blank("replacement"))
  BY <1>2, NamedFields DEF ValidReplacement, AllPositive
<1>4. ValidActivities(Blank("activities"))
  BY <1>2, NamedFields DEF ValidActivities
<1>5. ~ValidWatchlist(Blank("watchlist"))
  BY <1>2, NamedFields DEF ValidWatchlist
<1>6. ~ValidCallback(Blank("callback"))
  BY <1>2, NamedFields DEF ValidCallback, Set
<1>7. Valid(Blank("replacement")) /\ Valid(Blank("activities"))
  BY <1>1, <1>3, <1>4 DEF Valid
<1>8. ~Valid(Blank("watchlist"))
  BY <1>1, <1>5 DEF Valid
<1>9. ~Valid(Blank("callback"))
  BY <1>1, <1>6 DEF Valid
<1> QED
  BY <1>7, <1>8, <1>9

LEMMA BanksAreBuilt ==
  ASSUME NEW r \in Banks PROVE r.kind = "bank" /\ Valid(r)
<1>1. r.kind = "bank"
  BY DEF Banks, With, Blank
<1>2. CASE r = With(Blank("bank"), [bank_code_type |-> "ABA"])
  <2>1. \A f \in Address : ~Set(r, f)
    BY <1>2, NamedFields DEF With, Blank, Set, Address
  <2> QED
    BY <1>1, <2>1 DEF Valid, ValidBank
<1>3. CASE r # With(Blank("bank"), [bank_code_type |-> "ABA"])
  <2> DEFINE w == [f \in FieldsOf.bank |-> IF f = "bank_code_type" THEN "BIC" ELSE "set"]
  <2>1. r = With(Blank("bank"), w)
    BY <1>3 DEF Banks
  <2>2. "bank_code_type" \in DOMAIN w /\ w["bank_code_type"] = "BIC"
    BY DEF FieldsOf
  <2> HIDE DEF w
  <2>3. r.value["bank_code_type"] = "BIC"
    BY <2>1, <2>2, NamedFields DEF With
  <2> QED
    BY <1>1, <2>3 DEF Valid, ValidBank
<1> QED
  BY <1>2, <1>3

LEMMA JournalsAreBuilt ==
  ASSUME NEW r \in Journals PROVE r.kind = "journal" /\ Valid(r)
BY NamedFields DEF Journals, With, Blank, Valid, ValidJournal, Set

\* A redeem callback that names no account is not fine either, for any quantity.
LEMMA RedeemsAreBuilt ==
  ASSUME NEW r \in OfAmount("redeem", "qty") PROVE r.kind = "redeem" /\ ~Valid(r)
<1>1. r.kind = "redeem"
  BY DEF OfAmount, With, Blank
<1>2. \A f \in Identifiers : ~Set(r, f)
  BY NamedFields DEF OfAmount, With, Blank, Set, Identifiers
<1>3. ~ValidCallback(r)
  BY <1>2 DEF ValidCallback, Identifiers, Set
<1> QED
  BY <1>1, <1>3 DEF Valid

\* No other constructor makes an order, a bank, a journal, a redeem callback or
\* one of the blanks.
LEMMA ConstructedAsBuilt ==
  ASSUME NEW r \in Constructed
  PROVE  /\ r.kind = "order" => r \in Orders(Lists["order"])
         /\ r.kind = "bank" => r \in Banks
         /\ r.kind = "journal" => r \in Journals
         /\ r.kind = "redeem" => r \in OfAmount("redeem", "qty")
         /\ r.kind \in {"replacement", "activities", "watchlist", "callback"} =>
              r = Blank(r.kind)
<1>1. \A k : Blank(k).kind = k
  BY DEF Blank
<1>2. \A b, w : With(b, w).kind = b.kind
  BY DEF With
<1>3. \A k : \A x \in OfParts(k) : x.kind = k
  BY DEF OfParts, Blank
<1>4. \A k, f : \A x \in OfAmount(k, f) : x.kind = k
  BY <1>1, <1>2 DEF OfAmount
<1>5. \A k : \A x \in Windows(k) : x.kind = k
  BY <1>1, <1>2 DEF Windows
<1>6. \A x \in Accounts : x.kind = "account"
  <2>1. \A gap, ps : Applied(gap, ps).kind = "account"
    BY DEF Applied, With, Blank
  <2> QED
    BY <2>1 DEF Accounts
<1>7. \A x \in Orders(Lists["order"]) : x.kind = "order"
  <2>1. \A t, a, ps : SingleLeg(t, a, ps).kind = "order"
    BY <1>1, <1>2 DEF SingleLeg
  <2>2. \A legs, limit : MultiLeg(legs, limit).kind = "order"
    BY DEF MultiLeg, With, Blank
  <2> QED
    BY <2>1, <2>2 DEF Orders
<1>8. CASE r \in Orders(Lists["order"])
  BY <1>7, <1>8
<1>9. CASE r \in Banks \cup Journals
  BY <1>9, BanksAreBuilt, JournalsAreBuilt
<1>10. CASE r \in {Blank(k) : k \in {"replacement", "activities", "watchlist", "callback"}}
  BY <1>1, <1>10
<1>11. CASE r \in Accounts
  BY <1>6, <1>11
<1>12. CASE r \in UNION {Windows(k) : k \in {"announcements", "statements"}}
  BY <1>5, <1>12
<1>13. CASE \/ r \in UNION {OfAmount(k, "qty") : k \in {"mint", "locate", "redeem"}}
            \/ r \in UNION {OfAmount(k, "amount") : k \in {"transfer", "advance", "withdrawal"}}
  BY <1>4, <1>13
<1>14. CASE r \in UNION {OfParts(k) : k \in {"documents", "weights", "advances", "settlement", "batch"}}
  BY <1>3, <1>14
<1> QED
  BY <1>8, <1>9, <1>10, <1>11, <1>12, <1>13, <1>14 DEF Constructed

LEMMA AsBuiltInit == Init => AsBuilt
<1> SUFFICES ASSUME Init PROVE AsBuilt
  OBVIOUS
<1>1. request \in Constructed
  BY DEF Init
<1>2. ASSUME request.kind = "order"
      PROVE  ValidExits(request) /\ (SingleLegged(request) \/ (MultiLegged(request) /\ exits = {}))
  <2>1. request \in Orders(Lists["order"])
    BY <1>1, <1>2, ConstructedAsBuilt
  <2>2. PICK t, a, ps, legs, limit :
          \/ /\ request = SingleLeg(t, a, ps)
             /\ a \in {"qty", "notional"} /\ ps \in SUBSET Prices
          \/ request = MultiLeg(legs, limit) /\ limit \in {"absent", "positive"}
    <3>1. \A t \in DOMAIN PricesOf : PricesOf[t] \subseteq SUBSET Prices
      BY DEF PricesOf, Prices
    <3> QED
      BY <2>1, <3>1 DEF Orders
  <2>3. CASE request = MultiLeg(legs, limit) /\ limit \in {"absent", "positive"}
    BY <2>3, MultiLegIsBuilt DEF Init
  <2>4. CASE request = SingleLeg(t, a, ps) /\ a \in {"qty", "notional"} /\ ps \in SUBSET Prices
    BY <2>4, SingleLegIsBuilt
  <2> QED
    BY <2>2, <2>3, <2>4
<1> QED
  BY <1>1, <1>2, ConstructedAsBuilt, BlanksAreBuilt, BanksAreBuilt, JournalsAreBuilt,
     RedeemsAreBuilt
  DEF AsBuilt, Init

\* A class builder leaves an order with the exits of its class, and no longer a
\* multi-leg one.
LEMMA BuilderIsBuilt ==
  ASSUME NEW o, NEW n \in {Bracket(o), Oco(o), OtoTakeProfit(o), OtoStopLoss(o)}
  PROVE  /\ n.kind = o.kind /\ ValidExits(n) /\ n.value["order_class"] # "mleg"
         /\ \A f \in {"symbol", "side"} : Set(n, f) <=> Set(o, f)
BY NamedFields DEF Bracket, Oco, OtoTakeProfit, OtoStopLoss, With, ValidExits, Set, Exits

\* Untouched by hand, a single-leg order is sent under every class, a multi-leg
\* order exactly when it has two to four different legs and no builder gave it
\* another class; banks, journals, blank replacements and blank filters are sent,
\* blank updates of a watchlist and callbacks without an account refused.
THEOREM BuiltIsAccepted == Spec => []AcceptedAsBuilt
<1>1. Init => AsBuilt /\ AcceptedAsBuilt
  BY AsBuiltInit DEF Init, AcceptedAsBuilt
<1>2. AsBuilt /\ AcceptedAsBuilt /\ [Next]_vars => (AsBuilt /\ AcceptedAsBuilt)'
  <2> SUFFICES ASSUME AsBuilt, AcceptedAsBuilt, [Next]_vars
               PROVE  AsBuilt' /\ AcceptedAsBuilt'
    OBVIOUS
  <2>1. CASE Submit
    <3>1. AsBuilt'
      BY <2>1 DEF Submit, AsBuilt, SingleLegged, MultiLegged, Reclassed, ValidExits, Set, Valid,
         ValidReplacement, ValidActivities, ValidWatchlist, ValidCallback
    <3>2. ASSUME edits = 0, request.kind = "order"
          PROVE  Valid(request) <=>
                   \/ Set(request, "symbol")
                   \/ exits = {} /\ Len(request.parts) \in 2..4 /\ IsInjective(request.parts)
      <4>1. Valid(request) <=> ValidSubject(request)
        BY <3>2 DEF Valid, ValidOrder, AsBuilt
      <4> QED
        BY <3>2, <4>1 DEF AsBuilt, ValidSubject, SingleLegged, MultiLegged, Reclassed
    <3>3. AcceptedAsBuilt'
      BY <2>1, <3>2 DEF Submit, AcceptedAsBuilt, AsBuilt, Set
    <3> QED
      BY <3>1, <3>3
  <2>2. ASSUME NEW asked, asked # {}, stage = "building", stage' = stage,
               request.kind = "order", exits' = asked, edits' = edits,
               request' \in {Bracket(request), Oco(request), OtoTakeProfit(request), OtoStopLoss(request)}
        PROVE  AsBuilt' /\ AcceptedAsBuilt'
    <3>1. /\ request'.kind = "order" /\ ValidExits(request') /\ request'.value["order_class"] # "mleg"
          /\ \A f \in {"symbol", "side"} : Set(request', f) <=> Set(request, f)
      BY <2>2, BuilderIsBuilt
    <3>2. edits = 0 => SingleLegged(request') \/ (Reclassed(request') /\ exits' # {})
      BY <2>2, <3>1 DEF AsBuilt, SingleLegged, MultiLegged, Reclassed
    <3> QED
      BY <2>2, <3>1, <3>2 DEF AsBuilt, AcceptedAsBuilt, SingleLegged, Reclassed, ValidExits, Set
  <2>3. ASSUME NEW f, NEW v, Assign(f, v) PROVE AsBuilt' /\ AcceptedAsBuilt'
    BY <2>3 DEF Assign, AsBuilt, AcceptedAsBuilt
  <2>4. CASE UNCHANGED vars
    BY <2>4 DEF vars, AsBuilt, AcceptedAsBuilt, SingleLegged, MultiLegged, Reclassed, ValidExits, Set,
       Valid
  <2> QED
    BY <2>1, <2>2, <2>3, <2>4 DEF Next, Build, Exits
<1> QED
  BY <1>1, <1>2, PTL DEF Spec
=============================================================================
