----------------------------- MODULE MCConnections -----------------------------
(***************************************************************************)
(* An instance of Connections.  Exchanges: every product and operation in  *)
(* every environment with every credential, and every context for two      *)
(* products.  Packing: three channels of which one is not to be named,     *)
(* four symbols of which one is larger than a frame, and room for about    *)
(* three of the others in a frame.                                         *)
(***************************************************************************)
EXTENDS Connections

KeyPair == [form |-> "KeyPair", empty |-> FALSE, visible |-> TRUE]
Awaited == [facade |-> FALSE, thread |-> "worker", future |-> "sound"]

OpsOf(product) ==
  CASE product = "trading" -> {"call", "subscribe", "listen"}
    [] product = "broker" -> {"call", "download", "subscribe"}
    [] product = "corporate_actions" -> {"call", "subscribe"}
    [] product \in LiveStreams -> {"listen"}
    [] OTHER -> {"call"}

FeedsOf(product) == IF product \in LiveStreams THEN Feeds[product] ELSE {"none"}

\* The uses of one product with one of the operations it has.
UsesOf(product, op, credentials, timeouts, contexts) ==
  [product : {product}, op : {op}, env : Environments, credential : credentials,
   anonymous : {FALSE}, timeout : timeouts, feed : FeedsOf(product), context : contexts]

MCUses ==
  UNION {UsesOf(p, op, Credentials, {TRUE}, {Awaited}) : <<p, op>> \in {x \in Products \X Ops : x[2] \in OpsOf(x[1])}}
    \cup UNION {UsesOf(p, op, {KeyPair}, {FALSE}, {Awaited}) : <<p, op>> \in {x \in Products \X Ops : x[2] \in OpsOf(x[1])}}
    \cup UNION {UsesOf(p, op, {KeyPair}, {TRUE}, Contexts) : <<p, op>> \in {<<"trading", "call">>, <<"broker", "download">>}}
    \cup {[u EXCEPT !.anonymous = TRUE] : u \in UsesOf("crypto", "call", Credentials, {TRUE}, {Awaited})}

MCKeySize == <<1, 2, 1>>
MCSymbolSize == <<2, 3, 14, 2>>
=============================================================================
