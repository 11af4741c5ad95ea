---------------------------- MODULE MarketDataPages ----------------------------
(***************************************************************************)
(* get_marketdata in src/data/pagination.rs: the loop that follows the     *)
(* page tokens of every historical market data route and merges the pages  *)
(* into one result, against a server that pages as documented or not.      *)
(*                                                                         *)
(* An item is the place it has in the server's listing; what is served     *)
(* under a key is a list, which pages extend, a single value, which they   *)
(* overwrite, or null for a symbol there is nothing for.                   *)
(***************************************************************************)
EXTENDS Integers, Sequences, FiniteSetsExt, Functions, Backoff

CONSTANTS
  Keys,       \* the symbols a response is keyed by
  Orderly,    \* whether the server pages as documented, or anyhow: a set of BOOLEANs
  PageLimit,  \* page_limit, which is also the page_size of every sized route
  Limits,     \* the values of limit in the caller's query
  Starts,     \* the page tokens the caller may start from
  None,       \* no limit; no token; nothing under a key
  Null,       \* JSON's null
  Longest,    \* bound: items listed, and tokens there are
  Erratic     \* the same bound for a server that does not page as documented

\* A token tells how many items come before the page.
Tokens == 0..Longest

ASSUME PagesAssumption ==
  /\ IsFiniteSet(Keys)
  /\ Orderly \subseteq BOOLEAN
  /\ PageLimit \in Nat \ {0}
  /\ None \notin Nat /\ Null \notin Nat \cup {None}
  /\ Limits \subseteq Nat \cup {None}
  /\ Longest \in Nat /\ Erratic \in 0..Longest
  /\ Starts \subseteq Tokens \cup {None}

(***************************************************************************)
(* The routes that go through the loop, by client: Paged ones take a page  *)
(* size and serve lists, Latest ones take none and serve single values,    *)
(* and two option routes page over single values.                          *)
(***************************************************************************)
Paged(names) == [name : names, sized : {TRUE}, payload : {"lists"}]
PagedValues(names) == [name : names, sized : {TRUE}, payload : {"values"}]
Latest(names) == [name : names, sized : {FALSE}, payload : {"values"}]

StockRoutes ==
  Paged({"get_stock_bars", "get_stock_quotes", "get_stock_trades", "get_stock_auctions"})
    \cup Latest({"get_stock_latest_trade", "get_stock_latest_quote", "get_stock_latest_bar",
                 "get_stock_snapshot"})

StockSymbolRoutes ==
  Paged({"get_stock_bars_for_symbol", "get_stock_quotes_for_symbol",
         "get_stock_trades_for_symbol", "get_stock_auctions_for_symbol"})

StockLatestForSymbol ==
  Latest({"get_stock_latest_bar_for_symbol", "get_stock_latest_quote_for_symbol",
          "get_stock_latest_trade_for_symbol", "get_stock_snapshot_for_symbol"})

CryptoRoutes ==
  Paged({"get_crypto_bars", "get_crypto_quotes", "get_crypto_trades"})
    \cup Latest({"get_crypto_latest_trade", "get_crypto_latest_quote", "get_crypto_latest_bar",
                 "get_crypto_latest_orderbook", "get_crypto_snapshot"})

OptionRoutes ==
  Paged({"get_option_bars", "get_option_trades"})
    \cup Latest({"get_option_latest_quote", "get_option_latest_trade"})
    \cup PagedValues({"get_option_snapshot", "get_option_chain"})

ForexRoutes == Paged({"get_forex_rates"}) \cup Latest({"get_forex_latest_rates"})

NewsRoutes == Paged({"get_news"})

CorporateActionRoutes == Paged({"get_corporate_actions"})

\* What the loop needs to know of a route.
Shapes ==
  {[sized |-> r.sized, payload |-> r.payload] :
     r \in StockRoutes \cup StockSymbolRoutes \cup StockLatestForSymbol \cup CryptoRoutes
             \cup OptionRoutes \cup ForexRoutes \cup NewsRoutes \cup CorporateActionRoutes}

VARIABLES
  query,    \* [limit, start, blank]: the caller's, blank if it names no symbol
  route,    \* the shape of the route
  server,   \* [orderly, listing]
  phase,    \* "checking", "asking", "done" or "failed"
  token,    \* page_token
  seen,     \* seen_tokens
  lists,    \* lists[k]: the items of the lists collected for k
  merged,   \* merged[k]: what is held for k that is no list, or None
  asked     \* the tokens of the requests sent

given == <<query, route, server>>
vars == <<given, phase, token, seen, lists, merged, asked>>

\* Listings of single values have one for a symbol.
Listings(orderly) ==
  {l \in UNION {[1..n -> Keys] : n \in 0..(IF orderly THEN Longest ELSE Erratic)} :
     route.payload = "values" => IsInjective(l)}

Queries == [limit : Limits, start : Starts, blank : BOOLEAN]

\* The requests of the routes that page over single values have no limit; those
\* of the latest routes may have one, which the loop drops.  Only the news
\* request, which asks for a list, carries a token.
Limitless(r) == r.sized /\ r.payload = "values"

\* A bug to catch: the caller's own token is not remembered.
Seeded_Empty(start) == {}

Seeded(start) == {start} \ {None}

Init ==
  /\ query \in Queries /\ route \in Shapes
  /\ Limitless(route) => query.limit = None
  /\ route.payload = "values" => query.start = None
  /\ server \in UNION {[orderly : {o}, listing : Listings(o)] : o \in Orderly}
  /\ phase = "checking"
  /\ token = query.start
  /\ seen = Seeded(query.start)
  /\ lists = [k \in Keys |-> <<>>] /\ merged = [k \in Keys |-> None]
  /\ asked = {}

\* user_limit: a limit means nothing to a route without a page size.
UserLimit == IF route.sized THEN query.limit ELSE None

\* A bug to catch: the limit is taken to be one for each key.
Counted_Longest == Max({Len(lists[k]) : k \in Keys})

\* total_items: what the lists hold, over all keys.
Counted == SumFunctionOnSet([k \in Keys |-> Len(lists[k])], Keys)

\* A bug to catch: a server that sends more than was asked for is not expected.
Satisfied_Exactly == UserLimit = Counted

Satisfied == UserLimit # None /\ UserLimit <= Counted

\* actual_limit.
AskedFor == IF ~route.sized THEN None
            ELSE IF UserLimit = None THEN PageLimit
            ELSE Least(UserLimit - Counted, PageLimit)

\* What is known of the state; the limit sent is never none nor more than a page.
TypeOK ==
  /\ query \in Queries
  /\ route \in Shapes
  /\ server.orderly \in Orderly
  /\ phase \in {"checking", "asking", "done", "failed"}
  /\ token \in Tokens \cup {None}
  /\ seen \subseteq Tokens
  /\ lists \in [Keys -> Seq(1..Longest)]
  /\ merged \in [Keys -> (1..Longest) \cup {None, Null}]
  /\ asked \subseteq Tokens \cup {None}
  /\ phase = "asking" /\ ~Satisfied /\ route.sized => AskedFor \in 1..PageLimit

(***************************************************************************)
(* The server's answer: the items of a page, and a token.                  *)
(***************************************************************************)
Skipped(t) == IF t = None THEN 0 ELSE t

Upto(t) == LET end == Len(server.listing)
           IN  IF AskedFor = None THEN end ELSE Least(Skipped(t) + AskedFor, end)

Items(t) == (Skipped(t) + 1)..Upto(t)

\* A set of places as a sequence: the j-th has j - 1 before it.
Nth(S, j) == CHOOSE i \in S : Cardinality({x \in S : x < i}) = j - 1

Ascending(S) == [j \in 1..Cardinality(S) |-> Nth(S, j)]

\* A page's items under key k, in order.
ItemsOf(k, items) == Ascending({i \in items \cap DOMAIN server.listing : server.listing[i] = k})

\* The symbols a page may answer null for: those it has nothing for.
Missing(items) ==
  {k \in Keys : ItemsOf(k, IF route.payload = "lists" THEN items ELSE DOMAIN server.listing) = <<>>}

Answers ==
  IF server.orderly
  THEN [items : {Items(token)}, nulls : SUBSET Missing(Items(token)),
        next : {IF Upto(token) < Len(server.listing) THEN Upto(token) ELSE None}]
  ELSE [items : SUBSET DOMAIN server.listing, nulls : SUBSET Keys, next : 0..Erratic \cup {None}]

(***************************************************************************)
(* The loop.                                                               *)
(***************************************************************************)
Stop(how) == phase' = how /\ UNCHANGED <<given, token, seen, lists, merged, asked>>

\* A query that names an empty list of symbols is refused before it is sent.
RefuseBlank == phase = "checking" /\ query.blank /\ Stop("failed")

Begin == phase = "checking" /\ ~query.blank /\ Stop("asking")

ReachLimit == phase = "asking" /\ Satisfied /\ Stop("done")

\* The transport failed, or the payload is under no known key, or under two.
FetchFails == phase = "asking" /\ ~Satisfied /\ Stop("failed")

Extended(k, items) == lists[k] \o ItemsOf(k, items)

\* A bug to catch: only the token just followed is recognised.
Repeated_JustFollowed(t) == t = token

Repeated(t) == t \in seen

Fetch ==
  /\ phase = "asking"
  /\ ~Satisfied
  /\ asked' = asked \cup {token}
  /\ \E a \in Answers :
       /\ lists' = [k \in Keys |-> IF route.payload = "lists" /\ k \notin a.nulls
                                    THEN Extended(k, a.items) ELSE lists[k]]
       /\ merged' = [k \in Keys |-> IF k \in a.nulls THEN Null
                                    ELSE IF route.payload = "values" /\ ItemsOf(k, a.items) # <<>>
                                    THEN ItemsOf(k, a.items)[1] ELSE merged[k]]
       /\ IF a.next = None \/ Repeated(a.next)
          THEN phase' = "done" /\ UNCHANGED <<token, seen>>
          ELSE phase' = phase /\ token' = a.next /\ seen' = seen \cup {a.next}
  /\ UNCHANGED given

Next == RefuseBlank \/ Begin \/ ReachLimit \/ FetchFails \/ Fetch

Spec == Init /\ [][Next]_vars

\* Every request returns (RestRetry), and the caller polls the call.
FairSpec == Spec /\ WF_vars(Next)

\* into_sets and into_latest: what the caller is given for k once the lists have
\* joined the rest.  Nothing stands for a symbol that is left out.
Result(k) ==
  IF lists[k] # <<>> THEN lists[k]
  ELSE IF merged[k] \in {None, Null} THEN <<>> ELSE <<merged[k]>>

(***************************************************************************)
(* Properties.                                                             *)
(***************************************************************************)
\* No page is asked for twice, whatever tokens the server makes up, the token
\* the caller started from included.
NoPageTwice == [][Fetch => token \notin asked]_vars

\* From a server that pages as documented, the result is exactly the items
\* from the caller's token on, up to the caller's limit counted over all keys,
\* complete and in order for each key, however they fall on the pages and
\* whichever symbols are answered with null on the way.
ExactlyWhatWasAsked ==
  phase = "done" /\ server.orderly =>
    LET from == Skipped(query.start)
        end == Len(server.listing)
        to == IF UserLimit = None THEN end ELSE Least(from + UserLimit, end)
    IN  \A k \in Keys : Result(k) = ItemsOf(k, (from + 1)..to)

\* No server keeps the loop going for ever.
PagesEnd == <>(phase \in {"done", "failed"})
=============================================================================
