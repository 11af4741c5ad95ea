--------------------------------- MODULE Walks ---------------------------------
(***************************************************************************)
(* The helpers that walk a whole listing page by page: walk_orders in      *)
(* src/trading/client.rs, which both order walks share, and the walks over *)
(* transfers, account activities, subscriptions and rebalancing runs in    *)
(* src/broker/client.rs.  Between two requests the listing may grow, and   *)
(* the server answers each request as it sees fit.                         *)
(*                                                                         *)
(* Items are numbered in the order they come to exist; a listing shows the *)
(* newest first.                                                           *)
(***************************************************************************)
EXTENDS Integers, Sequences, FiniteSets, Functions, Backoff

CONSTANTS
  Walkers,   \* the walks considered
  PageSize,  \* the page size a walk starts with
  NoCap,     \* a max_items of None
  Caps,      \* the values of max_items
  MaxU32,    \* u32::MAX in small: the largest offset there is
  Servers,   \* the servers a walk may meet: how they page, their own page cap
  Before,    \* bound: items listed when the walk begins
  Newest     \* bound: items there are ever

\* Subscriptions and runs are walked alike, by tokens.
Walks == {"orders", "transfers", "activities", "tokens"}

\* A cursor that excludes the item it names, as documented; one that includes
\* it; a server that ignores the position; one whose pages follow no rule.
Paging == {"exclusive", "inclusive", "deaf", "erratic"}

ASSUME WalkAssumption ==
  /\ Walkers \subseteq Walks
  /\ PageSize \in Nat \ {0}
  /\ NoCap \notin Nat
  /\ Caps \subseteq Nat \cup {NoCap}
  /\ MaxU32 \in Nat
  /\ Servers \subseteq [pages : Paging, cap : Nat \ {0}]
  /\ Before \in Nat /\ Newest \in Nat

VARIABLES
  walk,       \* which walk it is
  maxItems,   \* its max_items
  server,     \* the server it meets
  first,      \* items listed when it began
  newest,     \* items listed now
  phase,      \* "asking", "filing" a page, "done", or "failed" with an error
  size,       \* the page size in the filter, as narrowed so far
  position,   \* the cursor, token or offset in the filter; 0 for none
  rows,       \* rows the server has handed over
  page,       \* what is left to file of the last page
  next,       \* the cursor or token that came with it; 0 for no token
  collected,  \* the result so far; what it holds is what has been seen
  held,       \* its length when the last page came
  requests    \* requests sent

given == <<walk, maxItems, server, first>>
vars == <<given, newest, phase, size, position, rows, page, next, collected, held, requests>>

TypeOK ==
  /\ walk \in Walkers /\ maxItems \in Caps /\ server \in Servers
  /\ first \in 0..Before /\ newest \in Nat
  /\ phase \in {"asking", "filing", "done", "failed"}
  /\ size \in 0..PageSize
  /\ position \in Nat /\ (walk = "transfers" => position <= MaxU32)
  /\ rows \in Nat
  /\ page \in Seq(1..newest)
  /\ next \in 0..newest
  /\ collected \in Seq(1..newest)
  /\ held \in Nat
  /\ requests \in Nat

Init ==
  /\ walk \in Walkers /\ maxItems \in Caps /\ server \in Servers
  /\ first \in 0..Before /\ newest = first
  /\ phase = "asking"
  /\ size = PageSize /\ position = 0 /\ rows = 0
  /\ page = <<>> /\ next = 0
  /\ collected = <<>> /\ held = 0
  /\ requests = 0

(***************************************************************************)
(* The server's answer.                                                    *)
(***************************************************************************)
\* What a position leaves of the listing is all items up to some number.
Top(at) == IF walk = "transfers" THEN newest - at
           ELSE IF at = 0 THEN newest
           ELSE IF server.pages = "inclusive" /\ walk # "tokens" THEN at
           ELSE at - 1

NewestFirst(top, n) == [i \in 1..(IF top < 0 THEN 0 ELSE Least(n, top)) |-> top + 1 - i]

Pages(at, n) ==
  CASE server.pages \in {"exclusive", "inclusive"}
         -> {NewestFirst(Top(at), Least(n, server.cap))}
    [] server.pages = "deaf" -> {NewestFirst(newest, newest)}
    [] server.pages = "erratic" -> UNION {[1..k -> 1..newest] : k \in 0..server.cap}

\* The token of the next page, or the last item's id, which is the cursor.
Onwards(at, p) ==
  IF p = <<>> THEN {0}
  ELSE IF walk # "tokens" THEN {p[Len(p)]}
  ELSE IF server.pages \in {"deaf", "erratic"} THEN 0..newest
  ELSE {IF p[Len(p)] > 1 THEN p[Len(p)] ELSE 0}

(***************************************************************************)
(* The walk.                                                               *)
(***************************************************************************)
\* A bug to catch: only the first request is narrowed.
Narrowed_Once ==
  IF maxItems = NoCap \/ walk = "transfers" \/ requests > 0 THEN size
  ELSE Least(size, maxItems)

\* narrow and page_limit: no more than is still wanted.  The transfers walk
\* leaves the page size alone.
Narrowed ==
  IF maxItems = NoCap \/ walk = "transfers" THEN size
  ELSE Least(size, IF maxItems > Len(collected) THEN maxItems - Len(collected) ELSE 0)

\* A bug to catch: the offset moves by what was asked for.
Offset_ByPageSize == requests * size

Offset == rows

\* Only the order walk looks at max_items before the first request.
WantsNothing == walk = "orders" /\ maxItems = 0

\* A bug to catch: the offset is not checked against its width.
TooFar_Unchecked == FALSE

TooFar == walk = "transfers" /\ Offset > MaxU32

\* A bug to catch: a page shorter than asked for ends the walk.
EndsWith_Short(p, n) == Len(p) < n

EndsWith(p, n) == p = <<>>

Stop(how) == /\ phase' = how
             /\ UNCHANGED <<given, newest, size, position, rows, page, next, held, requests>>

AskForNothing == phase = "asking" /\ WantsNothing /\ Stop("done") /\ UNCHANGED collected

OffsetTooFar == phase = "asking" /\ TooFar /\ Stop("failed") /\ UNCHANGED collected

FetchFails == /\ phase = "asking"
              /\ ~WantsNothing /\ ~TooFar
              /\ Stop("failed")
              /\ UNCHANGED collected

Fetch ==
  /\ phase = "asking"
  /\ ~WantsNothing /\ ~TooFar
  /\ size' = Narrowed
  /\ position' = IF walk = "transfers" THEN Offset ELSE position
  /\ requests' = requests + 1
  /\ \E p \in Pages(position', size') :
       /\ page' = IF EndsWith(p, size') THEN <<>> ELSE p
       /\ phase' = IF EndsWith(p, size') THEN "done" ELSE "filing"
       /\ rows' = rows + Len(p)
       /\ next' \in Onwards(position', p)
  /\ held' = Len(collected)
  /\ UNCHANGED <<given, newest, collected>>

\* A bug to catch: what a page repeats is collected again.
Filed_Again(item) == Append(collected, item)

Filed(item) == IF item \in Range(collected) THEN collected ELSE Append(collected, item)

File == /\ phase = "filing"
        /\ page # <<>>
        /\ collected' = Filed(Head(page))
        /\ page' = Tail(page)
        /\ UNCHANGED <<given, newest, phase, size, position, rows, next, held, requests>>

Full == maxItems # NoCap /\ Len(collected) >= maxItems

\* A bug to catch: progress is movement of the cursor.
Progressed_Cursor == next # position

Progressed == Len(collected) # held

Truncated == SubSeq(collected, 1, maxItems)

ReachesCap == /\ phase = "filing" /\ page = <<>>
              /\ Full
              /\ collected' = Truncated
              /\ Stop("done")

LearnsNothing == /\ phase = "filing" /\ page = <<>>
                 /\ ~Full /\ ~Progressed
                 /\ Stop("done")
                 /\ UNCHANGED collected

LastToken == /\ phase = "filing" /\ page = <<>>
             /\ ~Full /\ Progressed
             /\ walk = "tokens" /\ next = 0
             /\ Stop("done")
             /\ UNCHANGED collected

GoOn == /\ phase = "filing" /\ page = <<>>
        /\ ~Full /\ Progressed
        /\ walk = "tokens" => next # 0
        /\ phase' = "asking"
        /\ position' = IF walk = "transfers" THEN position ELSE next
        /\ UNCHANGED <<given, newest, size, rows, page, next, collected, held, requests>>

\* Somebody places an order, starts a transfer, ...
Arrive == /\ phase \in {"asking", "filing"}
          /\ newest < Newest
          /\ newest' = newest + 1
          /\ UNCHANGED <<given, phase, size, position, rows, page, next, collected, held, requests>>

Walker == \/ AskForNothing \/ OffsetTooFar \/ FetchFails \/ Fetch \/ File
          \/ ReachesCap \/ LearnsNothing \/ LastToken \/ GoOn

Next == Walker \/ Arrive

Spec == Init /\ [][Next]_vars

(***************************************************************************)
(* Properties.                                                             *)
(***************************************************************************)
Sound == server.pages = "exclusive"

\* No item is returned twice, whatever the server answers.
NoDuplicates == IsInjective(collected)

\* max_items bounds what is returned, whatever the server answers.
CapHonoured == phase = "done" /\ maxItems # NoCap => Len(collected) <= maxItems

\* A walk that narrows its pages never fetches more than it was asked for from
\* a server that honours page sizes.
NothingWasted ==
  Sound /\ walk # "transfers" /\ maxItems # NoCap => rows <= maxItems

\* No item that existed when the walk began is passed over: what is collected
\* is newer than what is not, although new items arrive and the server cuts
\* pages short.
NoGaps ==
  Sound => \A i \in 1..first : \A j \in Range(collected) :
             i > j => i \in Range(collected) \/ i \in Range(page)

\* A walk ends with everything that was listed when it began, or with all that
\* was asked for.  Offsets promise it only for a listing that stands still.
Complete ==
  phase = "done" /\ Sound /\ (walk = "transfers" => newest = first) =>
    (1..first \subseteq Range(collected) \/ Full)

\* Every request but the last brings something new, so no server, however it
\* pages, makes a walk send more requests than there are items, and one: a walk
\* whose requests return (RestRetry) ends.
BoundedRequests == requests <= newest + 1

(***************************************************************************)
(* Stated by the source's comments, and not so (see the findings).         *)
(***************************************************************************)
\* The transfers walk returns all transfers, new ones coming in meanwhile.
TransfersAreWhole ==
  phase = "done" /\ walk = "transfers" /\ maxItems = NoCap =>
    1..first \subseteq Range(collected)
=============================================================================
