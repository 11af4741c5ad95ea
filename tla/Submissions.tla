------------------------------ MODULE Submissions ------------------------------
(***************************************************************************)
(* A caller makes a request with a constructor, chains builders, assigns   *)
(* public fields in between, and hands it to a client method, which checks *)
(* it and either sends it or refuses it without sending anything.          *)
(***************************************************************************)
EXTENDS RequestChecks

CONSTANTS Lists,    \* Lists[kind]: the lists of parts a caller may give
          MaxEdits  \* bound: fields assigned by hand

ASSUME SubmissionAssumption ==
  /\ DOMAIN Lists = {"order", "account", "documents", "weights", "advances", "settlement", "batch"}
  /\ MaxEdits \in Nat

VARIABLES
  request,  \* the request
  stage,    \* "building", "sent" or "refused"
  exits,    \* the exits the last class builder asked for, or "edited"
  edits     \* how many fields were assigned by hand

vars == <<request, stage, exits, edits>>

(***************************************************************************)
(* What the constructors make.                                             *)
(***************************************************************************)
OfParts(kind) == {[Blank(kind) EXCEPT !.parts = ps] : ps \in Lists[kind]}

OfAmount(kind, f) == {With(Blank(kind), [x \in {f} |-> v]) : v \in Sign}

\* The agreements of an application are the caller's; at most one field is missing.
Applied(gap, agreements) ==
  [With(Blank("account"), [f \in Application \ {gap} |-> "set"]) EXCEPT !.parts = agreements]
Accounts == {Applied(gap, ps) : gap \in Application \cup {"none"}, ps \in Lists["account"]}

Banks == {With(Blank("bank"), [bank_code_type |-> "ABA"]),
          With(Blank("bank"), [f \in FieldsOf.bank |-> IF f = "bank_code_type" THEN "BIC" ELSE "set"])}

\* CreateJournalRequest::cash and security
Journals == {With(Blank("journal"), [entry_type |-> "JNLC", amount |-> "positive"]),
             With(Blank("journal"), [entry_type |-> "JNLS", symbol |-> "set", qty |-> "positive"])}

Windows(kind) == {With(Blank(kind), [window |-> w]) : w \in Holds("window")}

Constructed ==
  UNION {Orders(Lists["order"]), Accounts, Banks, Journals,
         {Blank(k) : k \in {"replacement", "activities", "watchlist", "callback"}},
         UNION {Windows(k) : k \in {"announcements", "statements"}},
         UNION {OfAmount(k, "qty") : k \in {"mint", "locate", "redeem"}},
         UNION {OfAmount(k, "amount") : k \in {"transfer", "advance", "withdrawal"}},
         UNION {OfParts(k) : k \in {"documents", "weights", "advances", "settlement", "batch"}}}

Init ==
  /\ request \in Constructed
  /\ stage = "building"
  /\ exits = {}
  /\ edits = 0

(***************************************************************************)
(* What the caller may do with it.                                         *)
(***************************************************************************)
\* A class builder of an order, which takes it by value and gives it back.
Build(built, asked) ==
  /\ stage = "building"
  /\ request.kind = "order"
  /\ request' = built
  /\ exits' = asked
  /\ UNCHANGED <<stage, edits>>

\* A public field, or the setter of one.  The amounts that are no Option cannot
\* be taken back.
Assign(f, v) ==
  /\ stage = "building"
  /\ edits < MaxEdits
  /\ f \in FieldsOf[request.kind]
  /\ v = "absent" => \/ request.kind \notin {"mint", "locate", "redeem", "transfer", "advance"}
                   \/ f \in {"limit_price"} \cup Identifiers
  /\ request' = With(request, [x \in {f} |-> v])
  /\ exits' = {"edited"}
  /\ edits' = edits + 1
  /\ UNCHANGED stage

\* A client method: the check, then one request to the server.
Submit ==
  /\ stage = "building"
  /\ stage' = IF Valid(request) THEN "sent" ELSE "refused"
  /\ UNCHANGED <<request, exits, edits>>

Next ==
  \/ Build(Bracket(request), Exits)
  \/ Build(Oco(request), Exits)
  \/ Build(OtoTakeProfit(request), {"take_profit"})
  \/ Build(OtoStopLoss(request), {"stop_loss"})
  \/ \E f \in Fields : \E v \in Holds(f) : Assign(f, v)
  \/ Submit

Spec == Init /\ [][Next]_vars

(***************************************************************************)
(* Properties.                                                             *)
(***************************************************************************)
ExitsOf(r) == {e \in Exits : Set(r, e)}

\* However builders were chained and fields assigned before it, the last class
\* builder alone decides which exits the order has.
LastBuilderWins ==
  request.kind = "order" /\ exits # {} /\ exits # {"edited"} => ExitsOf(request) = exits

\* What constructors and builders make of sensible values is sent, and nothing
\* else of them is: a single-leg order under every class, a multi-leg order of
\* two to four different contracts as long as no builder gave it another class,
\* banks, journals, and changes and filters that ask for nothing yet; but no
\* update of a watchlist and no callback that does not say what it is about.
AcceptedAsBuilt ==
  edits = 0 /\ stage # "building" =>
    /\ request.kind = "order" =>
         (stage = "sent" <=>
            \/ Set(request, "symbol")
            \/ exits = {} /\ Len(request.parts) \in 2..4 /\ IsInjective(request.parts))
    /\ request.kind \in {"bank", "journal", "replacement", "activities"} => stage = "sent"
    /\ request.kind \in {"watchlist", "callback", "redeem"} => stage = "refused"

\* Pairs of fields of which a request of that kind may hold one.
Rivals ==
  {<<"order", "take_profit", "stop_loss">>,
   <<"journal", "amount", "symbol">>, <<"journal", "amount", "qty">>,
   <<"activities", "category", "activity_types">>}
  \cup {<<kind, "client_account_id", other>> :
          kind \in {"callback", "redeem"}, other \in Identifiers \ {"client_account_id"}}

\* Orders of the other classes may have both exits, and a journal of a type
\* that Alpaca added since is for Alpaca to judge.
Exempt(r) == \/ r.kind = "order" /\ r.value["order_class"] # "oto"
             \/ r.kind = "journal" /\ r.value["entry_type"] \notin {"JNLC", "JNLS"}

\* The kinds whose amounts may be anything: no check looks at their sign.
AmountsUnchecked == {"order", "journal", "batch", "redeem"}

\* The signs of all that a request moves, resizes or shares out by, the prices
\* it waits for included.  Limit prices are left out: only a locate's is checked,
\* and it may be zero.
SignsOf(r) ==
  {r.value[f] : f \in FieldsOf[r.kind] \cap (Amounts \ {"limit_price"})}
  \cup {r.parts[i] : i \in {j \in DOMAIN r.parts : r.kind \in {"settlement", "batch"}}}
  \cup {r.parts[i].percent : i \in {j \in DOMAIN r.parts : r.kind = "weights"}}

\* What the checks are worth against fields assigned by hand, each kind as far
\* as it has a check.  Of two rivals at most one is set: the exits of an oto order,
\* what cash and security journals move, the two ways to filter activities, the
\* names of an account in both callbacks.  Amounts are positive, where they are
\* set, in mints, locates, transfers, advances, withdrawals, replacements,
\* settlements and weights; orders, journals, batch journals and redeem callbacks
\* may go out with any.  A W-8BEN that is uploaded to an account has one form; one
\* in an application, whose documents create_account does not check, may have two
\* or none.
ChecksHold ==
  stage = "sent" =>
    /\ \A p \in Rivals : p[1] = request.kind /\ ~Exempt(request) =>
         ~(Set(request, p[2]) /\ Set(request, p[3]))
    /\ request.kind \notin AmountsUnchecked =>
         SignsOf(request) \cap {"negative", "zero"} = {}
    /\ request.kind = "documents" =>
         \A i \in DOMAIN request.parts :
           request.parts[i].form = "W8Ben" =>
             request.parts[i].content # request.parts[i].contentData
=============================================================================
