------------------------------- MODULE Endpoints -------------------------------
(***************************************************************************)
(* Where the clients and streams of the SDK connect and what they connect  *)
(* with: the endpoints of src/config.rs, the credentials of src/auth.rs,   *)
(* and the HTTP clients that src/rest.rs and src/sse.rs build from them.   *)
(* A URL is the host it names; version segments and paths are left out.    *)
(***************************************************************************)

(***************************************************************************)
(* Endpoints.                                                              *)
(***************************************************************************)
\* BaseUrl::as_str.
HostOf == [BrokerSandbox |-> "broker-api.sandbox", BrokerProduction |-> "broker-api",
           TradingPaper |-> "paper-api", TradingLive |-> "api",
           Data |-> "data", DataSandbox |-> "data.sandbox",
           MarketDataStream |-> "stream.data",
           TradingStreamPaper |-> "paper-api", TradingStreamLive |-> "api"]

TradingUrl(paper) == IF paper THEN "TradingPaper" ELSE "TradingLive"

\* A bug to catch: the stream keeps to the live environment.
TradingStreamUrl_Live(paper) == "TradingStreamLive"

TradingStreamUrl(paper) == IF paper THEN "TradingStreamPaper" ELSE "TradingStreamLive"

BrokerUrl(sandbox) == IF sandbox THEN "BrokerSandbox" ELSE "BrokerProduction"

\* The feeds a live stream may be asked for, and those known_feed and
\* StockDataStream::new let into a URL; the news stream has none to choose.
Feeds == [stock_stream |-> {"iex", "sip", "otc", "unknown"},
          crypto_stream |-> {"us", "unknown"},
          option_stream |-> {"opra", "indicative", "unknown"},
          news_stream |-> {"none"}]

FeedIsServed(product, feed) ==
  IF product = "stock_stream" THEN feed \in {"iex", "sip"} ELSE feed # "unknown"

LiveStreams == DOMAIN Feeds
DataClients == {"stocks", "options", "news", "screener", "forex", "logos"}
Products == {"trading", "broker", "corporate_actions", "crypto"} \cup DataClients \cup LiveStreams

\* What a constructor is told: the test or the real environment, by a flag, or
\* an endpoint of the caller's own.
Environments == {"test", "real", "custom"}

\* The host that a product's constructor goes on with; the market data products
\* have one environment.
Home(product, op, env) ==
  LET test == env = "test"
  IN  IF env = "custom" THEN "proxy"
      ELSE HostOf[CASE product = "broker" -> BrokerUrl(test)
                    [] product = "trading" /\ op = "listen" -> TradingStreamUrl(test)
                    [] product = "trading" /\ op # "listen" -> TradingUrl(test)
                    [] product \in LiveStreams -> "MarketDataStream"
                    [] OTHER -> "Data"]

(***************************************************************************)
(* Credentials.  A part may be empty, or hold bytes no header can carry.   *)
(***************************************************************************)
Forms == {"KeyPair", "Basic", "OAuth"}
Credentials == [form : Forms, empty : BOOLEAN, visible : BOOLEAN]

\* reject_empty, in new, basic, oauth and from_env.
Constructible(c) == ~c.empty

IntoBasic(c) == IF c.form = "KeyPair" THEN [c EXCEPT !.form = "Basic"] ELSE c

\* header_value: base64 makes any bytes visible.
Encodable(c) == c.form = "Basic" \/ c.visible

KeyHeaders == {"APCA-API-KEY-ID", "APCA-API-SECRET-KEY"}
AuthHeaders(c) == IF c.form = "KeyPair" THEN KeyHeaders ELSE {"Authorization"}

(***************************************************************************)
(* HTTP clients: the default headers that authenticate, whether redirects  *)
(* are followed, and whether a total deadline is set on a request.         *)
(***************************************************************************)
HttpClient(headers, follows, deadline) ==
  [headers |-> headers, follows |-> follows, deadline |-> deadline]

\* A bug to catch: reqwest's default policy, which follows redirects.
RestHttp_Follows(headers, timeout) == HttpClient(headers, TRUE, timeout)

\* RestClient::build.
RestHttp(headers, timeout) == HttpClient(headers, FALSE, timeout)

\* A bug to catch: the configured timeout is applied to a body that never ends.
StreamingHttp_Deadline(headers, timeout) == HttpClient(headers, FALSE, timeout)

\* streaming_client: the configuration's timeout is at hand and not used.
StreamingHttp(headers, timeout) == HttpClient(headers, FALSE, FALSE)

\* A bug to catch: one client for streams and downloads, and so no deadline.
DownloadHttp_Shared(headers, timeout) == HttpClient(headers, TRUE, FALSE)

\* download_client.
DownloadHttp(headers, timeout) == HttpClient(headers, TRUE, timeout)

(***************************************************************************)
(* The clients: an HTTP client for each kind of operation they have.       *)
(***************************************************************************)
TradingClient(c, timeout) ==
  [call |-> RestHttp(AuthHeaders(c), timeout), subscribe |-> StreamingHttp(AuthHeaders(c), timeout)]

\* A bug to catch: the key pair is not converted.
BrokerClient_KeyPair(c, timeout) ==
  [call |-> RestHttp(AuthHeaders(c), timeout),
   subscribe |-> StreamingHttp(AuthHeaders(c), timeout),
   download |-> DownloadHttp(AuthHeaders(c), timeout)]

BrokerClient(c, timeout) ==
  LET basic == AuthHeaders(IntoBasic(c))
  IN  [call |-> RestHttp(basic, timeout), subscribe |-> StreamingHttp(basic, timeout),
       download |-> DownloadHttp(basic, timeout)]

DataClient(c, timeout) == [call |-> RestHttp(AuthHeaders(c), timeout)]

\* The one client that may go without credentials.
CryptoClient(c, timeout, anonymous) ==
  [call |-> RestHttp(IF anonymous THEN {} ELSE AuthHeaders(c), timeout)]

CorporateActionsClient(c, timeout) ==
  [call |-> RestHttp(AuthHeaders(c), timeout), subscribe |-> StreamingHttp(AuthHeaders(c), timeout)]

\* Any product but a live stream has one.
ClientOf(product, c, timeout, anonymous) ==
  CASE product = "trading" -> TradingClient(c, timeout)
    [] product = "broker" -> BrokerClient(c, timeout)
    [] product = "crypto" -> CryptoClient(c, timeout, anonymous)
    [] product = "corporate_actions" -> CorporateActionsClient(c, timeout)
    [] OTHER -> DataClient(c, timeout)
=============================================================================
