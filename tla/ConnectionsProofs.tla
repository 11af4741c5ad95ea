---------------------------- MODULE ConnectionsProofs ----------------------------
(***************************************************************************)
(* What an exchange, a caller that resumes an event stream, the settings   *)
(* of a live stream and its subscribe messages promise, for every set of   *)
(* uses, limit, log, duration and symbol; and that Connections, whose runs *)
(* check it, is made of their specifications.                              *)
(***************************************************************************)
EXTENDS Connections, DataLemmas

Results == {"none", "Ok", "Api", "Stream", "Transport", "RetriesExhausted", "Credentials"}

(***************************************************************************)
(* Exchanges: the facade.                                                  *)
(***************************************************************************)
\* What is sent is sent after construction, and what the caller is told after
\* that.
InOrder == /\ use \in Uses
           /\ stage \in {"new", "built", "waiting", "body", "open", "over", "done"}
           /\ stage \in {"new", "built"} => requests = {}
           /\ stage # "done" => outcome = "none"
           /\ result \in Results

\* A call from a worker does not come past its construction.
WorkersWait == use.context.facade /\ use.context.thread = "worker" =>
                 requests = {} /\ stage \in {"new", "built", "done"}

\* A facade that has sent nothing has broken nothing.
LEMMA FacadeInit == XInit => InOrder /\ WorkersWait /\ FacadeIsTransparent
BY DEF XInit, InOrder, WorkersWait, FacadeIsTransparent, Results

\* An exchange takes its stages in order.
LEMMA OrderKept == InOrder /\ [XNext]_xvars => InOrder'
<1> SUFFICES ASSUME InOrder, [XNext]_xvars PROVE InOrder'
  OBVIOUS
<1> USE DEF InOrder, Results
<1>1. CASE Refuse \/ Construct \/ CallRefused \/ Return \/ DropFacade
  BY <1>1 DEF Refuse, Construct, CallRefused, Return, DropFacade
<1>2. CASE Begin \/ Retry
  BY <1>2 DEF Begin, Retry, Send, Over
<1>3. CASE DeadlinePasses \/ RefuseRedirect \/ Reject \/ ReadBody \/ Break
  BY <1>3 DEF DeadlinePasses, RefuseRedirect, Reject, ReadBody, Break, Over, Failure
<1>4. CASE Open \/ Accept \/ \E to \in Targets : FollowRedirect(to)
  BY <1>4 DEF Open, Accept, FollowRedirect
<1>5. CASE UNCHANGED xvars
  BY <1>5 DEF xvars
<1> QED
  BY <1>1, <1>2, <1>3, <1>4, <1>5 DEF XNext, Own, Servers

\* Begin asks tokio first.
LEMMA WorkersKept == InOrder /\ WorkersWait /\ [XNext]_xvars => WorkersWait'
<1> SUFFICES ASSUME InOrder, WorkersWait, [XNext]_xvars,
                    use'.context.facade, use'.context.thread = "worker"
             PROVE  requests' = {} /\ stage' \in {"new", "built", "done"}
  BY DEF WorkersWait
<1>1. use' = use
  BY DEF XNext, Own, Servers, Refuse, Construct, CallRefused, Begin, Open, DeadlinePasses,
    Return, DropFacade, FollowRedirect, RefuseRedirect, Reject, Retry, Accept, ReadBody,
    Break, Send, Over, xvars
<1>2. stage \in {"new", "built", "done"} /\ requests = {}
  BY <1>1 DEF WorkersWait
<1>3. ~Begin
  BY <1>1 DEF Begin, BlockOnPanics
<1>4. CASE Refuse \/ Construct \/ CallRefused \/ DropFacade \/ UNCHANGED xvars
  BY <1>2, <1>4 DEF Refuse, Construct, CallRefused, DropFacade, xvars
<1>5. ~Open /\ ~DeadlinePasses /\ ~Return /\ ~Servers
  BY <1>2 DEF Open, DeadlinePasses, Return, Servers, FollowRedirect, RefuseRedirect, Reject,
    Retry, Accept, ReadBody, Break
<1> QED
  BY <1>3, <1>4, <1>5 DEF XNext, Own

\* What call() does with a panic, and Drop with the runtime.
LEMMA TransparencyKept ==
  InOrder /\ WorkersWait /\ WorkersWait' /\ FacadeIsTransparent /\ [XNext]_xvars
    => FacadeIsTransparent'
<1> SUFFICES ASSUME InOrder, WorkersWait, WorkersWait', FacadeIsTransparent, [XNext]_xvars
             PROVE  FacadeIsTransparent'
  OBVIOUS
<1> USE DEF InOrder, FacadeIsTransparent, WorkersWait
<1>1. CASE Refuse \/ Construct
  BY <1>1 DEF Refuse, Construct
<1>2. CASE CallRefused
  BY <1>2 DEF CallRefused, BlockOnPanics
<1>3. CASE Return
  <2>1. use.context.future \in {"sound", "panics", "nests"}
    BY ExchangeAssumption DEF Use, Contexts
  <2>2. CASE use.context.future = "sound"
    BY <1>3, <2>2 DEF Return, Results
  <2>3. CASE use.context.future = "panics"
    BY <1>3, <2>3 DEF Return, Surfaced, IsNestedRuntimePanic
  <2>4. CASE use.context.future = "nests"
    BY <1>3, <2>4 DEF Return
  <2> QED
    BY <2>1, <2>2, <2>3, <2>4
<1>4. CASE DropFacade
  BY <1>4 DEF DropFacade, DropPanics
<1>5. CASE Begin \/ Retry
  BY <1>5 DEF Begin, Retry, Send, Over
<1>6. CASE DeadlinePasses \/ RefuseRedirect \/ Reject \/ ReadBody \/ Break
  BY <1>6 DEF DeadlinePasses, RefuseRedirect, Reject, ReadBody, Break, Over
<1>7. CASE Open \/ Accept \/ \E to \in Targets : FollowRedirect(to)
  BY <1>7 DEF Open, Accept, FollowRedirect
<1>8. CASE UNCHANGED xvars
  BY <1>8 DEF xvars
<1> QED
  BY <1>1, <1>2, <1>3, <1>4, <1>5, <1>6, <1>7, <1>8 DEF XNext, Own, Servers

\* From any thread, with any future and against any servers the facade adds one
\* refusal to what the exchange comes to and nothing else.
THEOREM FacadeAddsNothing == XSpec => []FacadeIsTransparent
<1> DEFINE Inv == InOrder /\ WorkersWait /\ FacadeIsTransparent
<1>1. XInit => Inv
  BY FacadeInit
<1>2. Inv /\ [XNext]_xvars => Inv'
  BY OrderKept, WorkersKept, TransparencyKept
<1>3. XSpec => []Inv
  BY <1>1, <1>2, PTL DEF XSpec
<1> QED
  BY <1>3, PTL

(***************************************************************************)
(* Exchanges: credentials.                                                 *)
(***************************************************************************)
\* Where a request is and what it shows: only a download leaves the host it was
\* sent to, and what it carries it loses on the way.
KeptHome == /\ stage \in {"waiting", "body", "open", "over"} /\ use.op # "download" =>
                 at = Origin
            /\ stage \in {"waiting", "body", "open"} /\ carried # {} => at \in Trusted
            /\ stage \in {"waiting", "body", "open"} /\ use.op = "download" => carried \subseteq {"Authorization"}

\* into_basic leaves no key pair.
LEMMA BasicHeaders == \A c \in Credentials : AuthHeaders(IntoBasic(c)) = {"Authorization"}
<1> TAKE c \in Credentials
<1>1. IntoBasic(c).form # "KeyPair"
  BY DEF IntoBasic, Credentials, Forms
<1> QED
  BY <1>1 DEF AuthHeaders

\* What ClientOf and Home say of a use: only the client of downloads follows
\* redirects, and it is the broker's, which is given no key headers.
LEMMA ClientsFollow ==
  ASSUME use \in Uses, use.op # "listen"
  PROVE  /\ Http.follows => use.op = "download"
         /\ use.op = "download" => Http.headers \subseteq {"Authorization"}
<1> DEFINE client == ClientOf(use.product, use.credential, use.timeout, use.anonymous)
<1>1. use.op \in DOMAIN client /\ use.product \in Products \ LiveStreams
  BY ExchangeAssumption DEF Use
<1>2. Http = client[use.op]
  BY DEF Http
<1> USE DEF RestHttp, StreamingHttp, DownloadHttp, HttpClient
<1>3. CASE use.product = "trading"
  <2>1. client = TradingClient(use.credential, use.timeout)
    BY <1>3 DEF ClientOf
  <2> QED
    BY <1>1, <1>2, <2>1 DEF TradingClient
<1>4. CASE use.product = "broker"
  <2>1. client = BrokerClient(use.credential, use.timeout)
    BY <1>4 DEF ClientOf
  <2>2. AuthHeaders(IntoBasic(use.credential)) = {"Authorization"}
    BY BasicHeaders, ExchangeAssumption DEF Use
  <2> QED
    BY <1>1, <1>2, <2>1, <2>2 DEF BrokerClient
<1>5. CASE use.product = "crypto"
  <2>1. client = CryptoClient(use.credential, use.timeout, use.anonymous)
    BY <1>5 DEF ClientOf
  <2> QED
    BY <1>1, <1>2, <2>1 DEF CryptoClient
<1>6. CASE use.product = "corporate_actions"
  <2>1. client = CorporateActionsClient(use.credential, use.timeout)
    BY <1>6 DEF ClientOf
  <2> QED
    BY <1>1, <1>2, <2>1 DEF CorporateActionsClient
<1>7. CASE use.product \in DataClients
  <2>1. client = DataClient(use.credential, use.timeout)
    BY <1>7 DEF ClientOf, DataClients
  <2> QED
    BY <1>1, <1>2, <2>1 DEF DataClient
<1> QED
  BY <1>1, <1>3, <1>4, <1>5, <1>6, <1>7 DEF Products

\* The hosts there are to choose from.
LEMMA OriginByProduct ==
  ASSUME use.env # "custom"
  PROVE  \/ Origin \in {HostOf["MarketDataStream"], HostOf["Data"]}
         \/ Origin \in {HostOf[BrokerUrl(use.env = "test")], HostOf[TradingStreamUrl(use.env = "test")],
                        HostOf[TradingUrl(use.env = "test")]}
<1>0. {"broker", "trading"} \cap LiveStreams = {}
  BY DEF LiveStreams, Feeds
<1>1. CASE use.product = "broker"
  <2>1. Origin = HostOf[BrokerUrl(use.env = "test")]
    BY <1>0, <1>1 DEF Origin, Home
  <2> QED
    BY <2>1
<1>2. CASE use.product = "trading" /\ use.op = "listen"
  <2>1. Origin = HostOf[TradingStreamUrl(use.env = "test")]
    BY <1>0, <1>2 DEF Origin, Home
  <2> QED
    BY <2>1
<1>3. CASE use.product = "trading" /\ use.op # "listen"
  <2>1. Origin = HostOf[TradingUrl(use.env = "test")]
    BY <1>0, <1>3 DEF Origin, Home
  <2> QED
    BY <2>1
<1>4. CASE use.product \notin {"broker", "trading"}
  <2>1. Origin \in {HostOf["MarketDataStream"], HostOf["Data"]}
    BY <1>4 DEF Origin, Home
  <2> QED
    BY <2>1
<1> QED
  BY <1>1, <1>2, <1>3, <1>4

\* The host a constructor picks belongs to the environment it was told.
LEMMA OriginTrusted == ASSUME use \in Uses PROVE Origin \in Trusted
<1>1. use.env \in {"test", "real", "custom"}
  BY ExchangeAssumption DEF Use, Environments
<1>2. CASE use.env = "custom"
  BY <1>2 DEF Origin, Home, Trusted
<1>3. CASE use.env = "test"
  <2>1. Trusted = TestHosts \cup SharedHosts
    BY <1>3 DEF Trusted
  <2>2. /\ BrokerUrl(use.env = "test") = "BrokerSandbox"
        /\ TradingStreamUrl(use.env = "test") = "TradingStreamPaper"
        /\ TradingUrl(use.env = "test") = "TradingPaper"
    BY <1>3 DEF BrokerUrl, TradingStreamUrl, TradingUrl
  <2>3. \/ Origin \in {HostOf["MarketDataStream"], HostOf["Data"]}
        \/ Origin \in {HostOf["BrokerSandbox"], HostOf["TradingStreamPaper"], HostOf["TradingPaper"]}
    BY <1>3, <2>2, OriginByProduct
  <2> QED
    BY <2>1, <2>3 DEF TestHosts, SharedHosts
<1>4. CASE use.env = "real"
  <2>1. Trusted = LiveHosts \cup SharedHosts
    BY <1>4 DEF Trusted
  <2>2. /\ BrokerUrl(use.env = "test") = "BrokerProduction"
        /\ TradingStreamUrl(use.env = "test") = "TradingStreamLive"
        /\ TradingUrl(use.env = "test") = "TradingLive"
    BY <1>4 DEF BrokerUrl, TradingStreamUrl, TradingUrl
  <2>3. \/ Origin \in {HostOf["MarketDataStream"], HostOf["Data"]}
        \/ Origin \in {HostOf["BrokerProduction"], HostOf["TradingStreamLive"], HostOf["TradingLive"]}
    BY <1>4, <2>2, OriginByProduct
  <2> QED
    BY <2>1, <2>3 DEF LiveHosts, SharedHosts
<1> QED
  BY <1>1, <1>2, <1>3, <1>4

\* An exchange that has shown nothing has shown nothing abroad.
LEMMA HomeInit == XInit => KeptHome /\ NothingLeavesHome
BY DEF XInit, KeptHome, NothingLeavesHome

\* One step per action that moves it.
LEMMA HomeKept ==
  InOrder /\ KeptHome /\ NothingLeavesHome /\ [XNext]_xvars
    => KeptHome' /\ NothingLeavesHome'
<1> SUFFICES ASSUME InOrder, KeptHome, NothingLeavesHome, [XNext]_xvars
             PROVE  KeptHome' /\ NothingLeavesHome'
  OBVIOUS
<1>1. use' = use /\ use \in Uses
  BY DEF XNext, Own, Servers, Refuse, Construct, CallRefused, Begin, Open, DeadlinePasses,
    Return, DropFacade, FollowRedirect, RefuseRedirect, Reject, Retry, Accept, ReadBody,
    Break, Send, Over, xvars, InOrder
<1>2. Origin' = Origin /\ Trusted' = Trusted
  BY <1>1 DEF Origin, Trusted
<1>3. Origin \in Trusted
  BY <1>1, OriginTrusted
<1> USE DEF KeptHome, NothingLeavesHome
<1>4. CASE Send
  <2>1. use.op = "download" => carried' \subseteq {"Authorization"}
    BY <1>1, <1>4, ClientsFollow DEF Send
  <2> QED
    BY <1>1, <1>2, <1>3, <1>4, <2>1 DEF Send, Shown, InOrder
<1>5. ASSUME NEW to \in Targets, FollowRedirect(to) PROVE KeptHome' /\ NothingLeavesHome'
  <2>1. use.op = "download" /\ carried \subseteq {"Authorization"} /\ stage = "waiting"
    BY <1>1, <1>5, ClientsFollow DEF FollowRedirect
  <2>2. carried' \subseteq {"Authorization"} /\ (carried' # {} => to \in Trusted)
    BY <1>5, <2>1 DEF FollowRedirect, CarriedOver
  <2> QED
    BY <1>1, <1>2, <1>5, <2>1, <2>2 DEF FollowRedirect, Shown, InOrder
<1>6. CASE Open
  BY <1>1, <1>2, <1>3, <1>6 DEF Open, Shown, InOrder
<1>7. CASE Accept
  BY <1>1, <1>2, <1>7 DEF Accept, InOrder
<1>8. CASE Return
  BY <1>1, <1>2, <1>8 DEF Return, InOrder
<1>9. CASE stage \in {"waiting", "body"} /\ \E r \in Results : Over(r)
  BY <1>1, <1>2, <1>9 DEF Over, InOrder
<1>10. CASE Refuse \/ Construct \/ CallRefused \/ DropFacade
  BY <1>1, <1>2, <1>10 DEF Refuse, Construct, CallRefused, DropFacade, Surfaced, InOrder
<1>11. CASE UNCHANGED xvars
  BY <1>1, <1>2, <1>11 DEF xvars
<1>12. CASE Begin \/ Retry
  BY <1>4, <1>9, <1>12 DEF Begin, Retry, Results
<1>13. CASE DeadlinePasses \/ RefuseRedirect \/ Reject \/ ReadBody \/ Break
  BY <1>9, <1>13 DEF DeadlinePasses, RefuseRedirect, Reject, ReadBody, Break, Failure, Results
<1> QED
  BY <1>5, <1>6, <1>7, <1>8, <1>10, <1>11, <1>12, <1>13 DEF XNext, Own, Servers

\* Wherever servers redirect to and however often, no host outside the chosen
\* environment sees credentials.
THEOREM CredentialsStayHome == XSpec => []NothingLeavesHome
<1> DEFINE Inv == InOrder /\ KeptHome /\ NothingLeavesHome
<1>1. XInit => Inv
  BY FacadeInit, HomeInit
<1>2. Inv /\ [XNext]_xvars => Inv'
  BY OrderKept, HomeKept
<1>3. XSpec => []Inv
  BY <1>1, <1>2, PTL DEF XSpec
<1> QED
  BY <1>3, PTL

(***************************************************************************)
(* Event streams: queries.                                                 *)
(***************************************************************************)
\* Only the older filter serves version 1.
LEMMA RouteFilters ==
  \A r \in EventRoutes :
    /\ r.filter \in {"GetEventsRequest", "EventStreamRequest"}
    /\ r.filter = "EventStreamRequest" => r.version # "V1"
BY DEF EventRoutes, BrokerEvents, TradingEvents, CorporateActionEvents, Older, Newer

\* What a server reads under a name that the query gives once.
LEMMA PlaceGiven ==
  ASSUME NEW q, NEW name, NEW p \in q, p.name = name,
         \A x \in q : x.name = name => x.place = p.place
  PROVE  Place(q, name) = p.place
<1> DEFINE ps == {x \in q : x.name = name}
<1>1. (CHOOSE x \in ps : TRUE) \in ps
  <2>1. p \in ps
    OBVIOUS
  <2> QED
    BY <2>1
<1>2. Place(q, name) = (CHOOSE x \in ps : TRUE).place
  BY DEF Place
<1> HIDE DEF ps
<1>3. \A x \in ps : x.place = p.place
  BY DEF ps
<1> QED
  BY <1>1, <1>2, <1>3

\* And under one that it does not give.
LEMMA PlaceMissing ==
  ASSUME NEW q, NEW name, \A x \in q : x.name # name
  PROVE  Place(q, name) = 0
<1>1. {x \in q : x.name = name} = {}
  OBVIOUS
<1> QED
  BY <1>1 DEF Place

(***************************************************************************)
(* Event streams: the state.                                               *)
(***************************************************************************)
ConnStates == [up : BOOLEAN, next : Nat, limit : Nat, lastId : Nat, fresh : BOOLEAN]

Typed ==
  /\ route \in EventRoutes /\ inclusive \in BOOLEAN /\ window \in BOOLEAN
  /\ goal \in Nat /\ cursor \in Nat /\ anchor \in Nat
  /\ log \in Seq(BOOLEAN)
  /\ conn \in ConnStates

\* The query of a subscription, as the server reads it: from the cursor, or
\* from the window if there is one.
AsMeant(q) ==
  /\ Place(q, Understood.from) = cursor
  /\ Place(q, Understood.until) = goal
  /\ window /\ cursor = 0 => \E p \in q : p.name = "since" /\ p.form = Understood.since

\* cursor_params names the cursor for the version that will read it, and query
\* gives the window in the form of the stream's own filter.
LEMMA QueryIsUnderstood == Typed => AsMeant(Query(route, Resumption))
<1> SUFFICES ASSUME Typed PROVE AsMeant(Query(route, Resumption))
  OBVIOUS
<1> DEFINE q == Query(route, Resumption)
           older == route.filter = "GetEventsRequest"
           form == IF older THEN "date" ELSE "timestamp"
<1>1. Understood.since = form
  BY DEF Understood
<1>2. \/ Understood.from = "since_ulid" /\ Understood.until = "until_ulid"
      \/ Understood.from = "since_id" /\ Understood.until = "until_id"
  BY DEF Understood
<1>3. q = Given(window /\ cursor = 0, Param("since", form, 0))
            \cup Given(cursor # 0, Param(Understood.from, "ulid", cursor))
            \cup Given(goal # 0, Param(Understood.until, "ulid", goal))
  BY RouteFilters DEF Query, Resumption, CursorParams, Understood, Typed
<1> HIDE DEF q
<1>4. \A x \in q : \/ x = Param("since", form, 0)
                   \/ x = Param(Understood.from, "ulid", cursor) /\ cursor # 0
                   \/ x = Param(Understood.until, "ulid", goal) /\ goal # 0
  BY <1>3 DEF Given
<1>5. Place(q, Understood.from) = cursor
  <2>1. CASE cursor = 0
    <3>1. \A x \in q : x.name # Understood.from
      BY <1>2, <1>4, <2>1 DEF Param
    <3> QED
      BY <2>1, <3>1, PlaceMissing
  <2>2. CASE cursor # 0
    <3> DEFINE p == Param(Understood.from, "ulid", cursor)
    <3>1. p \in q /\ p.name = Understood.from /\ p.place = cursor
      BY <1>3, <2>2 DEF Given, Param
    <3>2. \A x \in q : x.name = Understood.from => x.place = p.place
      BY <1>2, <1>4 DEF Param
    <3> HIDE DEF p
    <3>3. Place(q, Understood.from) = p.place
      BY <3>1, <3>2, PlaceGiven
    <3> QED
      BY <3>1, <3>3
  <2> QED
    BY <2>1, <2>2
<1>6. Place(q, Understood.until) = goal
  <2>1. CASE goal = 0
    <3>1. \A x \in q : x.name # Understood.until
      BY <1>2, <1>4, <2>1 DEF Param
    <3> QED
      BY <2>1, <3>1, PlaceMissing
  <2>2. CASE goal # 0
    <3> DEFINE p == Param(Understood.until, "ulid", goal)
    <3>1. p \in q /\ p.name = Understood.until /\ p.place = goal
      BY <1>3, <2>2 DEF Given, Param
    <3>2. \A x \in q : x.name = Understood.until => x.place = p.place
      BY <1>2, <1>4 DEF Param
    <3> HIDE DEF p
    <3>3. Place(q, Understood.until) = p.place
      BY <3>1, <3>2, PlaceGiven
    <3> QED
      BY <3>1, <3>3
  <2> QED
    BY <2>1, <2>2
<1>7. ASSUME window, cursor = 0
      PROVE  \E p \in q : p.name = "since" /\ p.form = Understood.since
  <2>1. Param("since", form, 0) \in q
    BY <1>3, <1>7 DEF Given
  <2> QED
    BY <1>1, <2>1 DEF Param
<1>8. AsMeant(q)
  BY <1>5, <1>6, <1>7 DEF AsMeant
<1> QED
  BY <1>8 DEF q

(***************************************************************************)
(* Event streams: what a caller holds when it subscribes again.            *)
(***************************************************************************)
\* Everything up to p that the reader was promised has come, or was dropped.
UpTo(p) == anchor # 0 => anchor..p \subseteq taken \cup lost

\* Before the caller's cursor nothing is missing, nor before the event to be
\* sent next; and the parser holds no id but the cursor.
Resumable ==
  /\ cursor # 0 => anchor # 0 /\ UpTo(cursor)
  /\ cursor = 0 /\ anchor # 0 => window /\ anchor = 1
  /\ conn.up => /\ conn.next # 0 /\ UpTo(conn.next - 1)
                /\ conn.lastId # 0 => conn.lastId = cursor
                /\ conn.fresh => conn.lastId = 0

\* Where a reader begins.
LEMMA InitResumable == EInit => Typed /\ Resumable /\ Reader!LogInit
<1> SUFFICES ASSUME EInit PROVE Typed /\ Resumable /\ Reader!LogInit
  OBVIOUS
<1> USE DEF EInit
<1>1. goal \in Nat
  BY EventAssumption
<1>2. conn \in ConnStates /\ ~conn.up
  BY DEF Down, ConnStates
<1>3. log \in Seq(BOOLEAN) /\ cursor \in Nat /\ anchor \in Nat
  OBVIOUS
<1>4. Reader!LogInit
  BY DEF Reader!LogInit
<1> QED
  BY <1>1, <1>2, <1>3, <1>4 DEF Typed, Resumable, UpTo

\* Every query is answered from a place before which nothing is missing.
LEMMA SubscribeResumes == Typed /\ Resumable /\ Subscribe => Typed' /\ Resumable'
<1> SUFFICES ASSUME Typed, Resumable, Subscribe PROVE Typed' /\ Resumable'
  OBVIOUS
<1> DEFINE q == Query(route, Resumption)
<1>1. /\ conn' = Connected(FirstSent(q), Place(q, Understood.until))
      /\ UNCHANGED <<route, inclusive, window, goal, log, cursor, taken, lost, anchor>>
  BY DEF Subscribe
<1>2. AsMeant(q)
  BY QueryIsUnderstood
<1> HIDE DEF q
<1>3. FirstSent(q) \in Nat \ {0} /\ UpTo(FirstSent(q) - 1)
  <2>1. CASE cursor # 0
    <3>1. FirstSent(q) = IF inclusive THEN cursor ELSE cursor + 1
      BY <1>2, <2>1 DEF AsMeant, FirstSent
    <3> QED
      BY <2>1, <3>1 DEF Typed, Resumable, UpTo
  <2>2. CASE cursor = 0 /\ window
    <3>1. FirstSent(q) = 1
      BY <1>2, <2>2 DEF AsMeant, FirstSent
    <3> QED
      BY <2>2, <3>1 DEF Typed, Resumable, UpTo
  <2>3. CASE cursor = 0 /\ ~window
    <3>1. FirstSent(q) \in {1, Len(log) + 1}
      BY <1>2, <2>3 DEF AsMeant, FirstSent
    <3>2. Len(log) + 1 \in Nat \ {0}
      BY DEF Typed
    <3> QED
      BY <2>3, <3>1, <3>2 DEF Resumable, UpTo
  <2> QED
    BY <2>1, <2>2, <2>3 DEF Typed
<1>4. Place(q, Understood.until) \in Nat
  BY <1>2 DEF AsMeant, Typed
<1>5. conn' \in ConnStates /\ conn'.next = FirstSent(q) /\ conn'.lastId = 0
  BY <1>1, <1>3, <1>4 DEF Connected, ConnStates
<1> QED
  BY <1>1, <1>3, <1>5 DEF Typed, Resumable, UpTo

\* What is delivered comes next, and a duplicate has been taken before.
LEMMA DeliverTakes ==
  Typed /\ Resumable /\ Deliver => Typed' /\ Resumable' /\ [Reader!LogNext]_Reader!logVars
<1> SUFFICES ASSUME Typed, Resumable, Deliver
             PROVE  Typed' /\ Resumable' /\ [Reader!LogNext]_Reader!logVars
  OBVIOUS
<1>1. /\ conn.up /\ conn.next \in 1..Len(log)
      /\ conn' = [conn EXCEPT !.next = @ + 1, !.lastId = SurfacedId, !.fresh = FALSE]
      /\ UNCHANGED <<route, inclusive, window, goal, log, lost>>
  BY DEF Deliver, Due, Typed, Resumable, ConnStates
<1>2. SurfacedId = IF log[conn.next] THEN conn.next ELSE conn.lastId
  BY DEF SurfacedId
<1>3. SurfacedId \in Nat
  BY <1>1, <1>2 DEF Typed, ConnStates
<1>4. /\ conn' \in ConnStates
      /\ conn'.next = conn.next + 1 /\ conn'.lastId = SurfacedId /\ ~conn'.fresh
  <2> DEFINE moved == [conn EXCEPT !.next = @ + 1]
             marked == [moved EXCEPT !.lastId = SurfacedId]
  <2>1. moved \in ConnStates /\ moved.next = conn.next + 1
    BY DEF Typed, ConnStates
  <2>2. conn' = [marked EXCEPT !.fresh = FALSE]
    BY <1>1
  <2> HIDE DEF moved
  <2>3. marked \in ConnStates /\ marked.next = moved.next /\ marked.lastId = SurfacedId
    BY <1>3, <2>1 DEF ConnStates
  <2> HIDE DEF marked
  <2> QED
    BY <2>1, <2>2, <2>3 DEF ConnStates
<1>5. CASE IsDuplicate(SurfacedId)
  <2>1. UNCHANGED <<taken, cursor, anchor>> /\ SurfacedId = cursor /\ cursor # 0
    BY <1>5 DEF Deliver, IsDuplicate
  <2>2. conn.next = cursor
    BY <1>1, <1>2, <1>5, <2>1 DEF IsDuplicate, Resumable
  <2> QED
    BY <1>1, <1>4, <2>1, <2>2 DEF Typed, Resumable, UpTo, Reader!logVars, ConnStates
<1>6. CASE ~IsDuplicate(SurfacedId)
  <2>1. /\ taken' = taken \cup {conn.next}
        /\ cursor' = IF SurfacedId = 0 THEN cursor ELSE SurfacedId
        /\ anchor' = IF anchor = 0 /\ SurfacedId # 0 THEN conn.next ELSE anchor
    BY <1>6 DEF Deliver
  <2>2. anchor = 0 => (SurfacedId # 0 <=> log[conn.next])
    BY <1>1, <1>2 DEF Resumable
  <2>3. SurfacedId # 0 /\ SurfacedId # conn.next => SurfacedId = cursor
    BY <1>1, <1>2 DEF Resumable
  <2>4. Typed'
    BY <1>1, <1>3, <1>4, <2>1 DEF Typed
  <2>5. anchor' # 0 => anchor'..conn.next \subseteq taken' \cup lost'
    BY <1>1, <2>1 DEF Resumable, UpTo, Typed
  <2>6. Resumable'
    BY <1>1, <1>3, <1>4, <2>1, <2>3, <2>5 DEF Resumable, UpTo, Typed
  <2>7. Reader!Take(conn.next)
    BY <1>1, <2>1, <2>2 DEF Reader!Take, Resumable, UpTo
  <2> QED
    BY <1>1, <2>4, <2>6, <2>7 DEF Reader!LogNext
<1> QED
  BY <1>5, <1>6

\* What is dropped comes next, too.
LEMMA DropLoses ==
  Typed /\ Resumable /\ DropMessage => Typed' /\ Resumable' /\ [Reader!LogNext]_Reader!logVars
<1> SUFFICES ASSUME Typed, Resumable, DropMessage
             PROVE  Typed' /\ Resumable' /\ [Reader!LogNext]_Reader!logVars
  OBVIOUS
<1>1. /\ conn.up /\ conn.next \in 1..Len(log)
      /\ conn' = [conn EXCEPT !.next = @ + 1]
      /\ lost' = lost \cup {conn.next}
      /\ UNCHANGED <<route, inclusive, window, goal, log, cursor, taken, anchor>>
  BY DEF DropMessage, Due, Typed, Resumable, ConnStates
<1>2. conn' \in ConnStates /\ conn' = [conn EXCEPT !.next = conn.next + 1]
  BY <1>1 DEF Typed, ConnStates
<1>3. conn'.next = conn.next + 1 /\ conn'.lastId = conn.lastId /\ conn'.fresh = conn.fresh
  BY <1>1 DEF Typed, ConnStates
<1>4. Reader!Lose(conn.next)
  BY <1>1 DEF Reader!Lose
<1> QED
  BY <1>1, <1>2, <1>3, <1>4 DEF Typed, Resumable, UpTo, Reader!LogNext

\* An event emitted, or the end of a connection, moves no reader.
LEMMA OthersKeep ==
  ASSUME Typed, Resumable, (\E id \in BOOLEAN : Emit(id)) \/ Disconnect \/ Close \/ UNCHANGED evars
  PROVE  Typed' /\ Resumable' /\ [Reader!LogNext]_Reader!logVars
<1>1. ASSUME NEW id \in BOOLEAN, Emit(id)
      PROVE  Typed' /\ Resumable' /\ [Reader!LogNext]_Reader!logVars
  <2>1. Reader!Append1(id)
    BY <1>1 DEF Emit, Reader!Append1
  <2>2. log' \in Seq(BOOLEAN)
    BY <1>1 DEF Emit, Typed
  <2> QED
    BY <1>1, <2>1, <2>2 DEF Emit, Typed, Resumable, UpTo, Reader!LogNext
<1>2. CASE Disconnect \/ Close
  <2>1. conn' = Down
    BY <1>2 DEF Disconnect, Close, Ended
  <2>2. Down \in ConnStates /\ ~Down.up
    BY DEF Down, ConnStates
  <2>3. conn' \in ConnStates /\ ~conn'.up
    BY <2>1, <2>2
  <2> QED
    BY <1>2, <2>3 DEF Disconnect, Close, Ended, Typed, Resumable, UpTo, Reader!logVars
<1>3. CASE UNCHANGED evars
  BY <1>3 DEF evars, Typed, Resumable, UpTo, Reader!logVars
<1> QED
  BY <1>1, <1>2, <1>3

\* from_id and the cursor parameters of each version: whatever breaks and
\* however often, resuming skips nothing.
THEOREM ResumingSkipsNothing == ESpec => ImplementsLogReader
<1> DEFINE Inv == Typed /\ Resumable
<1>1. EInit => Inv /\ Reader!LogInit
  BY InitResumable
<1>2. Inv /\ [ENext]_evars => Inv' /\ [Reader!LogNext]_Reader!logVars
  <2> SUFFICES ASSUME Inv, [ENext]_evars PROVE Inv' /\ [Reader!LogNext]_Reader!logVars
    OBVIOUS
  <2>1. CASE Subscribe
    BY <2>1, SubscribeResumes DEF Subscribe, Reader!logVars
  <2>2. CASE Deliver
    BY <2>2, DeliverTakes
  <2>3. CASE DropMessage
    BY <2>3, DropLoses
  <2>4. CASE (\E id \in BOOLEAN : Emit(id)) \/ Disconnect \/ Close \/ UNCHANGED evars
    BY <2>4, OthersKeep
  <2> QED
    BY <2>1, <2>2, <2>3, <2>4 DEF ENext
<1> QED
  BY <1>1, <1>2, PTL DEF ESpec, ImplementsLogReader, Reader!LogSpec

(***************************************************************************)
(* The settings of a live stream.                                          *)
(***************************************************************************)
\* The settings are sound all along, whoever holds the stream: the promise of
\* the defaults, which no setter breaks.
SoundAllAlong ==
  /\ settings \in [min : Nat, max : Nat, timeout : Nat \cup {None}, stable : Nat]
  /\ CheckWindow(settings.min, settings.max)
  /\ settings.timeout # None => CheckDataTimeout(settings.timeout)
  /\ CheckStableSession(settings.stable)

\* The defaults pass the checks that setters make.
LEMMA DefaultsSound == SettingsInit => SoundAllAlong
BY SettingsAssumption DEF SettingsInit, Defaults, SoundAllAlong, None

\* A setter stores all that it was given, once it has passed its check, or
\* nothing.
LEMMA SettersKeep == SoundAllAlong /\ [SettingsNext]_settingsVars => SoundAllAlong'
<1> SUFFICES ASSUME SoundAllAlong, [SettingsNext]_settingsVars PROVE SoundAllAlong'
  OBVIOUS
<1> USE DEF SoundAllAlong, None
<1>1. ASSUME NEW form, NEW d \in Durations, NEW max \in Durations, SetBackoff(form, d, max)
      PROVE  SoundAllAlong'
  BY <1>1, SettingsAssumption DEF SetBackoff, WithBackoff
<1>2. ASSUME NEW form, NEW d \in Durations, SetDataTimeout(form, d)
      PROVE  SoundAllAlong'
  BY <1>2, SettingsAssumption DEF SetDataTimeout, WithDataTimeout
<1>3. ASSUME NEW form, NEW d \in Durations, SetStableSession(form, d)
      PROVE  SoundAllAlong'
  BY <1>3, SettingsAssumption DEF SetStableSession, WithStableSession
<1>4. CASE RunStream \/ UNCHANGED settingsVars
  BY <1>4 DEF RunStream, settingsVars
<1> QED
  BY <1>1, <1>2, <1>3, <1>4 DEF SettingsNext

\* What check_window, check_data_timeout and check_stable_session are for: no
\* sequence of setters, in any form, makes a stream run unsoundly.
THEOREM StreamsRunSoundly == SettingsSpec => []RunsSoundly
<1>1. SoundAllAlong => RunsSoundly
  BY DEF SoundAllAlong, RunsSoundly
<1> QED
  BY <1>1, DefaultsSound, SettersKeep, PTL DEF SettingsSpec

(***************************************************************************)
(* Subscribe messages: the message being built, and what is where.         *)
(***************************************************************************)
\* The message that would be sent now: what is finished for earlier channels,
\* and the batch of the channel at hand.
Building == IF batch = {} THEN current ELSE [current EXCEPT ![FirstOf(Unpacked)] = batch]

\* How many messages name a symbol on a channel.
Count(c, s) == Cardinality(Places(payloads, {m \in Sets : s \in m[c]}))

PackingTyped ==
  /\ phase \in {"registering", "packing", "packed"}
  /\ channels \in Sets /\ todo \in Sets /\ current \in Sets
  /\ batch \in SUBSET Symbols
  /\ payloads \in Seq(Sets)

\* The channel at hand has symbols left and is not in the message yet.
AtHand == /\ phase # "packing" => batch = {}
          /\ Unpacked = {} => batch = {}
          /\ \A c \in Unpacked : current[c] = {}

\* What is to be sent is still to be packed, in the message being built or in
\* one message, and nothing else is anywhere.
Accounted(c, s) ==
  /\ s \in todo[c] => s \in Named(c) /\ s \notin Building[c]
  /\ s \in Building[c] => s \in Named(c)
  /\ Count(c, s) = IF s \in Named(c) \ (todo[c] \cup Building[c]) THEN 1 ELSE 0

Accounting ==
  /\ phase = "registering" => payloads = <<>> /\ current = Nothing
  /\ phase = "packing" => \A c \in Channels, s \in Symbols : Accounted(c, s)

Single(m) == \E c \in Channels, s \in Symbols : m = [Nothing EXCEPT ![c] = {s}]
Fits(m) == EstimatedSize(m) <= MaxFrame \/ Single(m)
SentWell == \A i \in DOMAIN payloads : payloads[i] # Nothing /\ Fits(payloads[i])

PackingSound ==
  /\ PackingTyped /\ AtHand /\ Accounting /\ SentWell
  /\ phase = "packing" => Building = Nothing \/ Fits(Building)
  /\ EverySymbolOnce

(***************************************************************************)
(* Subscribe messages: sizes.                                              *)
(***************************************************************************)
LEMMA SymbolsAdd ==
  ASSUME NEW b \in SUBSET Symbols PROVE SumFunctionOnSet(SymbolSize, b) \in Nat
<1>1. IsFiniteSet(b) /\ \A s \in b : SymbolSize[s] \in Nat
  BY PayloadAssumption, FS_Subset
<1> QED
  BY <1>1, SumIsNat

LEMMA ChannelsAdd ==
  ASSUME NEW m \in Sets
  PROVE  \A c \in Channels : ChannelSizes(m)[c] \in Nat
<1> TAKE c \in Channels
<1>1. SumFunctionOnSet(SymbolSize, m[c]) \in Nat
  BY SymbolsAdd DEF Sets
<1> QED
  BY <1>1, PayloadAssumption DEF ChannelSizes

LEMMA SizeIsNat == ASSUME NEW m \in Sets PROVE EstimatedSize(m) \in Nat
<1>1. IsFiniteSet({c \in Channels : m[c] # {}})
  BY PayloadAssumption, FS_Subset
<1> QED
  BY <1>1, ChannelsAdd, SumIsNat DEF EstimatedSize

\* One more channel costs no more than its estimated batch.
LEMMA ChannelJoins ==
  ASSUME NEW m \in Sets, NEW c \in Channels, m[c] = {}, NEW b \in SUBSET Symbols, b # {}
  PROVE  EstimatedSize([m EXCEPT ![c] = b]) <= EstimatedSize(m) + EstimatedBatch(b)
<1> DEFINE n == [m EXCEPT ![c] = b]
           used == {d \in Channels : m[d] # {}}
           all == {d \in Channels : n[d] # {}}
<1>1. n \in Sets /\ n[c] = b /\ \A d \in Channels \ {c} : n[d] = m[d]
  BY DEF Sets
<1>2. c \in all /\ all \ {c} = used
  BY <1>1
<1>3. IsFiniteSet(all) /\ IsFiniteSet(used)
  BY PayloadAssumption, FS_Subset
<1>4. EstimatedSize(n) = SumFunctionOnSet(ChannelSizes(n), all)
  BY DEF EstimatedSize
<1>5. EstimatedSize(m) = SumFunctionOnSet(ChannelSizes(m), used)
  BY DEF EstimatedSize
<1> HIDE DEF n, used, all
<1>6. \A d \in all : ChannelSizes(n)[d] \in Nat
  BY <1>1, ChannelsAdd DEF all
<1>7. /\ EstimatedSize(n) = ChannelSizes(n)[c] + SumFunctionOnSet(ChannelSizes(n), used)
      /\ SumFunctionOnSet(ChannelSizes(n), used) \in Nat
  BY <1>2, <1>3, <1>4, <1>6, SumSplit
<1>8. \A d \in used : ChannelSizes(n)[d] = ChannelSizes(m)[d] /\ ChannelSizes(n)[d] \in Nat
  BY <1>1, <1>2, <1>6 DEF ChannelSizes, used
<1>9. SumFunctionOnSet(ChannelSizes(n), used) = EstimatedSize(m)
  BY <1>3, <1>5, <1>8, SumsAgree
<1>10. ChannelSizes(n)[c] = KeySize[c] + SumFunctionOnSet(SymbolSize, b) + 2
  BY <1>1 DEF ChannelSizes
<1>11. KeySize[c] \in Nat /\ Overhead \in Nat /\ KeySize[c] + 2 <= Overhead
  BY PayloadAssumption
<1>12. SumFunctionOnSet(SymbolSize, b) \in Nat /\ EstimatedSize(m) \in Nat
  BY SymbolsAdd, SizeIsNat
<1>13. EstimatedSize(n) <= EstimatedSize(m) + EstimatedBatch(b)
  BY <1>7, <1>9, <1>10, <1>11, <1>12 DEF EstimatedBatch
<1> QED
  BY <1>13 DEF n

\* CHOOSE takes the least, and there is one.
LEMMA FirstIsThere == ASSUME NEW S \in SUBSET Nat, S # {} PROVE FirstOf(S) \in S
<1>1. \E x \in S : \A y \in S : x <= y
  BY LeastNumber
<1> QED
  BY <1>1 DEF FirstOf

(***************************************************************************)
(* Subscribe messages: what a message adds.                                *)
(***************************************************************************)
LEMMA NothingIsEmpty == Nothing \in Sets /\ \A c \in Channels : Nothing[c] = {}
BY DEF Nothing, Sets

\* A message sent counts once for what it names; an empty one is not sent.
LEMMA SentCounts ==
  ASSUME PackingTyped, SentWell, NEW m \in Sets, payloads' = Sent(m), m = Nothing \/ Fits(m)
  PROVE  /\ payloads' \in Seq(Sets) /\ SentWell'
         /\ \A c \in Channels, s \in Symbols :
              Count(c, s)' = Count(c, s) + IF s \in m[c] THEN 1 ELSE 0
<1>0. payloads \in Seq(Sets)
  BY DEF PackingTyped
<1>1. CASE m = Nothing
  <2>1. payloads' = payloads
    BY <1>1 DEF Sent
  <2>2. \A c \in Channels, s \in Symbols : Count(c, s) \in Nat
    BY <1>0, PlacesFinite DEF Count
  <2> QED
    BY <1>0, <1>1, <2>1, <2>2, NothingIsEmpty DEF Count, SentWell
<1>2. CASE m # Nothing
  <2>1. payloads' = Append(payloads, m)
    BY <1>2 DEF Sent
  <2>2. ASSUME NEW c \in Channels, NEW s \in Symbols
        PROVE  Count(c, s)' = Count(c, s) + IF s \in m[c] THEN 1 ELSE 0
    <3> DEFINE K == {n \in Sets : s \in n[c]}
    <3>1. m \in K <=> s \in m[c]
      OBVIOUS
    <3>2. Count(c, s) = Cardinality(Places(payloads, K))
      BY DEF Count
    <3>3. Count(c, s)' = Cardinality(Places(Append(payloads, m), K))
      BY <2>1 DEF Count
    <3> HIDE DEF K
    <3>4. Cardinality(Places(Append(payloads, m), K))
            = Cardinality(Places(payloads, K)) + IF m \in K THEN 1 ELSE 0
      BY <1>0, PlacesAppend
    <3> QED
      BY <3>1, <3>2, <3>3, <3>4
  <2>3. payloads' \in Seq(Sets)
    BY <1>0, <2>1
  <2>4. SentWell'
    <3> SUFFICES ASSUME NEW i \in DOMAIN payloads' PROVE payloads'[i] # Nothing /\ Fits(payloads'[i])
      BY DEF SentWell, Fits, Single, EstimatedSize, ChannelSizes, Nothing
    <3>1. (i \in DOMAIN payloads /\ payloads'[i] = payloads[i]) \/ payloads'[i] = m
      BY <1>0, <2>1
    <3> QED
      BY <1>2, <3>1 DEF SentWell
  <2> QED
    BY <2>2, <2>3, <2>4
<1> QED
  BY <1>1, <1>2

(***************************************************************************)
(* Subscribe messages: one step of the packing.                            *)
(***************************************************************************)
LEMMA RegisteringKeeps ==
  ASSUME PackingSound, (\E c \in Channels, s \in Symbols : Add(c, s) \/ Remove(c, s)) \/ Pack
  PROVE  PackingSound'
<1>1. phase = "registering" /\ UNCHANGED <<batch, current, payloads>>
  BY DEF Add, Remove, Pack
<1>2. channels' \in Sets /\ todo' \in Sets /\ phase' \in {"registering", "packing"}
  BY DEF Add, Remove, Pack, PackingSound, PackingTyped, Sets, Named
<1>3. PackingTyped'
  BY <1>1, <1>2 DEF PackingSound, PackingTyped
<1>4. batch = {} /\ payloads = <<>> /\ current = Nothing
  BY <1>1 DEF PackingSound, AtHand, Accounting
<1>5. AtHand' /\ Building' = Nothing
  BY <1>1, <1>4, NothingIsEmpty DEF AtHand, Building, Unpacked
<1>6. SentWell'
  BY <1>1, <1>4 DEF SentWell
<1>7. EverySymbolOnce'
  BY <1>2 DEF EverySymbolOnce
<1>8. Accounting'
  <2>1. phase' = "packing" => \A c \in Channels : todo'[c] = Named(c)'
    <3>1. phase' = "packing" => Pack
      BY <1>1 DEF Add, Remove
    <3> QED
      BY <3>1 DEF Pack, Named
  <2>2. \A c \in Channels, s \in Symbols : Count(c, s)' = 0
    BY <1>1, <1>4, PlacesOfNone DEF Count
  <2> QED
    BY <1>1, <1>4, <1>5, <2>1, <2>2, NothingIsEmpty DEF Accounting, Accounted
<1> QED
  BY <1>3, <1>5, <1>6, <1>7, <1>8 DEF PackingSound

\* How a step of the packing changes the message being built: the symbol joins
\* it, or it is sent and the symbol starts the next.
LEMMA SymbolMoves ==
  ASSUME PackingSound, PackSymbol
  PROVE  \E c \in Channels, s \in Symbols :
           /\ s \in todo[c]
           /\ todo' = [todo EXCEPT ![c] = @ \ {s}]
           /\ Building \in Sets
           /\ PackingTyped' /\ AtHand'
           /\ \/ /\ payloads' = payloads
                 /\ Building' = [Building EXCEPT ![c] = @ \cup {s}]
                 /\ EstimatedSize(Building') <= MaxFrame
              \/ /\ payloads' = Sent(Building)
                 /\ Building' = [Nothing EXCEPT ![c] = {s}]
<1> DEFINE c == FirstOf(Unpacked)
           s == FirstOf(todo[c])
           over == Overflows(batch \cup {s})
           b == IF over THEN {s} ELSE batch \cup {s}
           base == IF over THEN Nothing ELSE current
<1>1. PackingTyped /\ AtHand /\ phase = "packing" /\ Unpacked # {}
  BY DEF PackSymbol, PackingSound
<1>2. /\ todo' = [todo EXCEPT ![c] = @ \ {s}]
      /\ payloads' = IF over THEN Sent(With(c, batch)) ELSE payloads
      /\ \/ todo[c] = {s} /\ batch' = {} /\ current' = [base EXCEPT ![c] = b]
         \/ todo[c] # {s} /\ batch' = b /\ current' = base
      /\ UNCHANGED <<channels, phase>>
  BY DEF PackSymbol, Overflow
<1>3. c \in Unpacked
  <2>1. Unpacked \in SUBSET Nat
    BY PayloadAssumption DEF Unpacked
  <2> QED
    BY <1>1, <2>1, FirstIsThere
<1>4. s \in todo[c]
  <2>1. todo[c] \in SUBSET Nat /\ todo[c] # {}
    BY <1>1, <1>3, PayloadAssumption DEF Unpacked, PackingTyped, Sets
  <2> QED
    BY <2>1, FirstIsThere
<1>5. c \in Channels /\ s \in Symbols
  BY <1>1, <1>3, <1>4 DEF Unpacked, PackingTyped, Sets
<1>6. Building = With(c, batch)
  BY DEF Building, With
<1>7. current \in Sets /\ current[c] = {} /\ batch \in SUBSET Symbols
  BY <1>1, <1>3 DEF AtHand, PackingTyped
<1>8. Building' = [base EXCEPT ![c] = b]
  <2>1. CASE todo[c] = {s}
    BY <1>2, <2>1 DEF Building
  <2>2. CASE todo[c] # {s}
    <3>1. Unpacked' = Unpacked
      BY <1>1, <1>2, <1>4, <1>5, <2>2 DEF Unpacked, PackingTyped, Sets
    <3>2. batch' = b /\ current' = base /\ b # {}
      BY <1>2, <2>2
    <3> HIDE DEF b, base
    <3> QED
      BY <3>1, <3>2 DEF Building
  <2> QED
    BY <2>1, <2>2
<1> HIDE DEF c, s
<1>9. Building \in Sets /\ Building = [current EXCEPT ![c] = batch]
  BY <1>5, <1>6, <1>7 DEF With, Sets
<1>10. b \in SUBSET Symbols /\ b # {} /\ base \in Sets /\ base[c] = {}
  BY <1>5, <1>7, NothingIsEmpty
<1>11. PackingTyped'
  <2>1. todo' \in Sets /\ channels' \in Sets /\ phase' = "packing"
    BY <1>1, <1>2, <1>5 DEF PackingTyped, Sets
  <2>2. batch' \in SUBSET Symbols /\ current' \in Sets
    <3> HIDE DEF b, base
    <3> QED
      BY <1>2, <1>5, <1>10 DEF Sets
  <2>3. payloads' \in Seq(Sets)
    BY <1>1, <1>2, <1>6, <1>9 DEF PackingTyped, Sent
  <2> QED
    BY <2>1, <2>2, <2>3 DEF PackingTyped
<1>12. AtHand'
  <2>1. Unpacked' = IF todo[c] = {s} THEN Unpacked \ {c} ELSE Unpacked
    BY <1>1, <1>2, <1>4, <1>5 DEF Unpacked, PackingTyped, Sets
  <2>2. \A d \in Unpacked : base[d] = {}
    BY <1>1, NothingIsEmpty DEF AtHand, Unpacked
  <2>3. \A d \in Unpacked \ {c} : [base EXCEPT ![c] = b][d] = {}
    <3> HIDE DEF b, base
    <3> QED
      BY <1>10, <2>2 DEF Sets, Unpacked
  <2>4. Unpacked' = {} => todo[c] = {s}
    BY <1>3, <2>1
  <2> HIDE DEF b, base
  <2>5. Unpacked' = {} => batch' = {}
    BY <1>2, <2>4
  <2>6. \A d \in Unpacked' : current'[d] = {}
    BY <1>2, <2>1, <2>2, <2>3
  <2> QED
    BY <1>1, <1>2, <2>5, <2>6 DEF AtHand
<1>13. CASE over
  <2>1. payloads' = Sent(Building) /\ Building' = [Nothing EXCEPT ![c] = {s}]
    BY <1>2, <1>6, <1>8, <1>13
  <2> QED
    BY <1>2, <1>4, <1>5, <1>9, <1>11, <1>12, <2>1
<1>14. CASE ~over
  <2>1. payloads' = payloads /\ Building' = [current EXCEPT ![c] = batch \cup {s}]
    BY <1>2, <1>8, <1>14
  <2>2. Building' = [Building EXCEPT ![c] = @ \cup {s}]
    BY <1>5, <1>7, <1>9, <2>1 DEF Sets
  <2>3. EstimatedSize(Building') <= EstimatedSize(current) + EstimatedBatch(batch \cup {s})
    <3>1. batch \cup {s} \in SUBSET Symbols /\ batch \cup {s} # {}
      BY <1>5, <1>7
    <3>2. EstimatedSize([current EXCEPT ![c] = batch \cup {s}])
            <= EstimatedSize(current) + EstimatedBatch(batch \cup {s})
      BY <1>5, <1>7, <3>1, ChannelJoins
    <3> QED
      BY <2>1, <3>2
  <2>4. EstimatedSize(current) + EstimatedBatch(batch \cup {s}) <= MaxFrame
    <3>1. EstimatedSize(current) \in Nat /\ SumFunctionOnSet(SymbolSize, batch \cup {s}) \in Nat
      BY <1>5, <1>7, SizeIsNat, SymbolsAdd
    <3> QED
      BY <1>14, <3>1, PayloadAssumption DEF Overflows, EstimatedBatch
  <2>5. EstimatedSize(Building') \in Nat /\ EstimatedSize(current) + EstimatedBatch(batch \cup {s}) \in Int
    <3>1. Building' \in Sets
      BY <1>5, <1>7, <2>1 DEF Sets
    <3>2. EstimatedSize(Building') \in Nat
      BY <3>1, SizeIsNat
    <3>3. EstimatedSize(current) \in Nat /\ SumFunctionOnSet(SymbolSize, batch \cup {s}) \in Nat
      BY <1>5, <1>7, SizeIsNat, SymbolsAdd
    <3> QED
      BY <3>2, <3>3, PayloadAssumption DEF EstimatedBatch
  <2>6. EstimatedSize(Building') <= MaxFrame
    BY <2>3, <2>4, <2>5, PayloadAssumption
  <2> QED
    BY <1>2, <1>4, <1>5, <1>9, <1>11, <1>12, <2>1, <2>2, <2>6
<1> QED
  BY <1>13, <1>14

LEMMA PackSymbolKeeps == ASSUME PackingSound, PackSymbol PROVE PackingSound'
<1>1. PICK c \in Channels, s \in Symbols :
        /\ s \in todo[c]
        /\ todo' = [todo EXCEPT ![c] = @ \ {s}]
        /\ Building \in Sets
        /\ PackingTyped' /\ AtHand'
        /\ \/ /\ payloads' = payloads
              /\ Building' = [Building EXCEPT ![c] = @ \cup {s}]
              /\ EstimatedSize(Building') <= MaxFrame
           \/ /\ payloads' = Sent(Building)
              /\ Building' = [Nothing EXCEPT ![c] = {s}]
  BY SymbolMoves
<1>2. phase = "packing" /\ phase' = "packing" /\ channels' = channels
  BY DEF PackSymbol
<1>3. PackingTyped /\ SentWell /\ (Building = Nothing \/ Fits(Building))
  BY <1>2 DEF PackingSound
<1>4. \A d \in Channels, t \in Symbols : Accounted(d, t)
  BY <1>2 DEF PackingSound, Accounting
<1>5. /\ \A d \in Channels : Named(d)' = Named(d)
      /\ \A d \in Channels : todo'[d] = IF d = c THEN todo[d] \ {s} ELSE todo[d]
      /\ \A d \in Channels : todo[d] \in SUBSET Symbols
  BY <1>1, <1>2, <1>3 DEF Named, PackingTyped, Sets
<1>6. CASE /\ payloads' = payloads
           /\ Building' = [Building EXCEPT ![c] = @ \cup {s}]
           /\ EstimatedSize(Building') <= MaxFrame
  <2>1. SentWell'
    <3> SUFFICES ASSUME NEW i \in DOMAIN payloads' PROVE payloads'[i] # Nothing /\ Fits(payloads'[i])
      BY DEF SentWell, Fits, Single, EstimatedSize, ChannelSizes, Nothing
    <3> QED
      BY <1>3, <1>6 DEF SentWell
  <2>2. Fits(Building)'
    BY <1>6 DEF Fits, EstimatedSize, ChannelSizes
  <2>3. \A d \in Channels : Building'[d] = IF d = c THEN Building[d] \cup {s} ELSE Building[d]
    BY <1>1, <1>6 DEF Sets
  <2>4. \A d \in Channels, t \in Symbols : Count(d, t)' = Count(d, t)
    BY <1>6 DEF Count
  <2>5. ASSUME NEW d \in Channels, NEW t \in Symbols PROVE Accounted(d, t)'
    <3>1. Accounted(d, t) /\ Accounted(c, s)
      BY <1>4
    <3>2. Named(d)' = Named(d) /\ Count(d, t)' = Count(d, t)
      BY <1>5, <2>4
    <3>3. CASE d = c
      <4>1. todo'[d] = todo[d] \ {s} /\ Building'[d] = Building[d] \cup {s}
        BY <1>5, <2>3, <3>3
      <4>2. todo'[d] \cup Building'[d] = todo[d] \cup Building[d]
        BY <1>1, <3>3, <4>1
      <4> QED
        BY <3>1, <3>2, <3>3, <4>1, <4>2 DEF Accounted
    <3>4. CASE d # c
      <4>1. todo'[d] = todo[d] /\ Building'[d] = Building[d]
        BY <1>5, <2>3, <3>4
      <4> QED
        BY <3>1, <3>2, <4>1 DEF Accounted
    <3> QED
      BY <3>3, <3>4
  <2>6. Accounting' /\ EverySymbolOnce'
    BY <1>2, <2>5 DEF Accounting, EverySymbolOnce
  <2> QED
    BY <1>1, <2>1, <2>2, <2>6 DEF PackingSound
<1>7. CASE payloads' = Sent(Building) /\ Building' = [Nothing EXCEPT ![c] = {s}]
  <2>1. /\ SentWell'
        /\ \A d \in Channels, t \in Symbols :
             Count(d, t)' = Count(d, t) + IF t \in Building[d] THEN 1 ELSE 0
    BY <1>1, <1>3, <1>7, SentCounts
  <2>2. Fits(Building)'
    BY <1>7 DEF Fits, Single, Nothing
  <2>3. \A d \in Channels : Building'[d] = IF d = c THEN {s} ELSE {}
    BY <1>7, NothingIsEmpty DEF Sets
  <2>4. ASSUME NEW d \in Channels, NEW t \in Symbols PROVE Accounted(d, t)'
    <3>1. Accounted(d, t) /\ Accounted(c, s)
      BY <1>4
    <3>2. Count(d, t)' = IF t \in Named(d) \ todo[d] THEN 1 ELSE 0
      BY <2>1, <3>1 DEF Accounted
    <3> QED
      BY <1>1, <1>5, <2>3, <3>1, <3>2 DEF Accounted
  <2>5. Accounting' /\ EverySymbolOnce'
    BY <1>2, <2>4 DEF Accounting, EverySymbolOnce
  <2> QED
    BY <1>1, <2>1, <2>2, <2>5 DEF PackingSound
<1> QED
  BY <1>1, <1>6, <1>7

LEMMA FinishKeeps == ASSUME PackingSound, FinishPacking PROVE PackingSound'
<1>1. /\ phase = "packing" /\ Unpacked = {} /\ phase' = "packed"
      /\ payloads' = Sent(current)
      /\ UNCHANGED <<channels, todo, batch, current>>
  BY DEF FinishPacking
<1>2. PackingTyped /\ SentWell /\ batch = {} /\ Building = current
  BY <1>1 DEF PackingSound, AtHand, Building
<1>3. current \in Sets /\ (current = Nothing \/ Fits(current))
  BY <1>1, <1>2 DEF PackingSound, PackingTyped
<1>4. /\ payloads' \in Seq(Sets) /\ SentWell'
      /\ \A c \in Channels, s \in Symbols :
           Count(c, s)' = Count(c, s) + IF s \in current[c] THEN 1 ELSE 0
  BY <1>1, <1>2, <1>3, SentCounts
<1>5. PackingTyped' /\ AtHand'
  BY <1>1, <1>2, <1>4 DEF PackingTyped, AtHand, Unpacked
<1>6. ASSUME NEW c \in Channels, NEW s \in Symbols
      PROVE  Count(c, s)' = IF s \in Named(c) THEN 1 ELSE 0
  <2>1. Accounted(c, s)
    BY <1>1 DEF PackingSound, Accounting
  <2>2. todo[c] = {}
    BY <1>1 DEF Unpacked
  <2> QED
    BY <1>2, <1>4, <2>1, <2>2 DEF Accounted
<1>7. EverySymbolOnce'
  <2> SUFFICES ASSUME NEW c \in Channels, NEW s \in Symbols
               PROVE  Cardinality({i \in DOMAIN payloads' : s \in payloads'[i][c]})
                        = IF c \in Subscribable /\ s \in channels'[c] THEN 1 ELSE 0
    BY DEF EverySymbolOnce
  <2>1. Count(c, s)' = Cardinality({i \in DOMAIN payloads' : s \in payloads'[i][c]})
    <3>1. \A i \in DOMAIN payloads' : payloads'[i] \in Sets
      BY <1>4
    <3>2. Places(payloads', {m \in Sets : s \in m[c]}) = {i \in DOMAIN payloads' : s \in payloads'[i][c]}
      BY <3>1 DEF Places
    <3> QED
      BY <3>2 DEF Count
  <2> QED
    BY <1>1, <1>6, <2>1 DEF Named
<1> QED
  BY <1>1, <1>4, <1>5, <1>7 DEF PackingSound, Accounting

LEMMA PackingKept == PackingSound /\ [PackingNext]_packingVars => PackingSound'
<1> SUFFICES ASSUME PackingSound, [PackingNext]_packingVars PROVE PackingSound'
  OBVIOUS
<1>1. CASE UNCHANGED packingVars
  <2> USE <1>1 DEF packingVars
  <2>1. PackingTyped' /\ AtHand' /\ EverySymbolOnce'
    BY DEF PackingSound, PackingTyped, AtHand, Unpacked, EverySymbolOnce
  <2>2. Accounting'
    BY DEF PackingSound, Accounting, Accounted, Building, Unpacked, Count, Named
  <2>3. SentWell'
    <3> SUFFICES ASSUME NEW i \in DOMAIN payloads' PROVE payloads'[i] # Nothing /\ Fits(payloads'[i])
      BY DEF SentWell, Fits, Single, EstimatedSize, ChannelSizes, Nothing
    <3> QED
      BY DEF PackingSound, SentWell
  <2>4. (phase = "packing" => Building = Nothing \/ Fits(Building))'
    <3>1. Building' = Building
      BY DEF Building, Unpacked
    <3>2. Fits(Building)' <=> Fits(Building)
      BY <3>1 DEF Fits, Single, EstimatedSize, ChannelSizes, Nothing
    <3> QED
      BY <3>1, <3>2 DEF PackingSound
  <2> QED
    BY <2>1, <2>2, <2>3, <2>4 DEF PackingSound
<1> QED
  BY <1>1, RegisteringKeeps, PackSymbolKeeps, FinishKeeps DEF PackingNext

LEMMA AlwaysPackingSound == PackingSpec => []PackingSound
<1>1. PackingInit => PackingSound
  <2> SUFFICES ASSUME PackingInit PROVE PackingSound
    OBVIOUS
  <2>1. PackingTyped /\ AtHand /\ SentWell
    BY NothingIsEmpty DEF PackingInit, PackingTyped, AtHand, SentWell, Unpacked
  <2>2. phase = "registering" /\ Accounting /\ EverySymbolOnce
    BY DEF PackingInit, Accounting, EverySymbolOnce
  <2> QED
    BY <2>1, <2>2 DEF PackingSound
<1> QED
  BY <1>1, PackingKept, PTL DEF PackingSpec

\* However the symbols are spread over the channels and wherever a message
\* overflows, each that may be named is named in exactly one message.
THEOREM SymbolsArePackedOnce == PackingSpec => []EverySymbolOnce
BY AlwaysPackingSound, PTL DEF PackingSound

\* The check made before a symbol joins is enough for the whole message.
THEOREM MessagesFitFrames == PackingSpec => []FramesFit
<1>1. PackingSound => FramesFit
  BY DEF PackingSound, SentWell, Fits, Single, FramesFit
<1> QED
  BY <1>1, AlwaysPackingSound, PTL

\* is_empty agrees with payloads() about whether there is anything to send.
THEOREM SocketsOpenForSomething == PackingSpec => []OpensForSomething
<1>1. PackingSound => OpensForSomething
  <2> SUFFICES ASSUME PackingSound PROVE OpensForSomething
    OBVIOUS
  <2>1. \A i \in DOMAIN payloads : payloads[i] # Nothing
    BY DEF PackingSound, SentWell
  <2>2. ASSUME phase = "packed", IsEmpty PROVE payloads = <<>>
    <3> SUFFICES ASSUME payloads # <<>> PROVE FALSE
      OBVIOUS
    <3>1. payloads \in Seq(Sets)
      BY DEF PackingSound, PackingTyped
    <3>2. 1 \in DOMAIN payloads /\ payloads[1] \in Sets /\ payloads[1] # Nothing
      BY <2>1, <3>1
    <3>3. PICK c \in Channels, s \in Symbols : s \in payloads[1][c]
      BY <3>2 DEF Sets, Nothing
    <3> DEFINE named == {i \in DOMAIN payloads : s \in payloads[i][c]}
    <3>4. Cardinality(named) = 0
      BY <2>2 DEF PackingSound, EverySymbolOnce, IsEmpty
    <3>5. IsFiniteSet(named)
      <4>1. named = Places(payloads, {m \in Sets : s \in m[c]})
        BY <3>1 DEF Places
      <4> QED
        BY <3>1, <4>1, PlacesFinite
    <3>6. named = {}
      BY <3>4, <3>5, FS_EmptySet
    <3> QED
      BY <3>2, <3>3, <3>6
  <2>3. ASSUME phase = "packed", ~IsEmpty PROVE payloads # <<>>
    <3>1. PICK c \in Subscribable : channels[c] # {}
      BY <2>3 DEF IsEmpty
    <3>2. PICK s \in Symbols : s \in channels[c]
      BY <3>1, PayloadAssumption DEF PackingSound, PackingTyped, Sets
    <3>3. Cardinality({i \in DOMAIN payloads : s \in payloads[i][c]}) = 1
      BY <2>3, <3>2, PayloadAssumption DEF PackingSound, EverySymbolOnce
    <3> SUFFICES ASSUME payloads = <<>> PROVE FALSE
      OBVIOUS
    <3>4. {i \in DOMAIN payloads : s \in payloads[i][c]} = {}
      OBVIOUS
    <3>5. Cardinality({}) = 0
      BY FS_EmptySet
    <3> QED
      BY <3>3, <3>4, <3>5
  <2> QED
    BY <2>1, <2>2, <2>3 DEF OpensForSomething
<1> QED
  BY <1>1, AlwaysPackingSound, PTL

(***************************************************************************)
(* The parts together.                                                     *)
(***************************************************************************)
\* A behaviour of Connections is one of each of its parts.
LEMMA PartsAreThemselves == Spec => XSpec /\ ESpec /\ SettingsSpec /\ PackingSpec
<1>1. Init => XInit /\ EInit /\ SettingsInit /\ PackingInit
  BY DEF Init
<1>2. [Next]_connectionVars => /\ [XNext]_xvars /\ [ENext]_evars
                               /\ [SettingsNext]_settingsVars /\ [PackingNext]_packingVars
  BY DEF Next, Exchange, ReadEvents, SetUp, PackSymbols, connectionVars
<1> QED
  BY <1>1, <1>2, PTL DEF Spec, XSpec, ESpec, SettingsSpec, PackingSpec

\* So what each part promises holds of them all.
THEOREM ConnectionsKeepTheirPromises ==
  Spec => /\ [](NothingLeavesHome /\ FacadeIsTransparent /\ RunsSoundly)
          /\ [](EverySymbolOnce /\ FramesFit /\ OpensForSomething)
          /\ ImplementsLogReader
BY PartsAreThemselves, FacadeAddsNothing, CredentialsStayHome, ResumingSkipsNothing,
   StreamsRunSoundly, SymbolsArePackedOnce, MessagesFitFrames, SocketsOpenForSomething, PTL
=================================================================================
