-------------------------------- MODULE Clients --------------------------------
(***************************************************************************)
(* The routes of the trading and broker clients over the transport: what   *)
(* the retry loop of RestRetry means for the caller of a route.            *)
(***************************************************************************)
EXTENDS RestRetry, Routes

\* A call that sends what the route r asks for.
Serves(c, r) == /\ request[c].method = r.sends.method
                /\ request[c].replay = r.sends.replay

\* No route that submits an order, liquidates, exercises or moves money is
\* carried out twice by one call of it, whichever wrapper it goes through and
\* whatever the network and the server do.
ActingRoutesOnce ==
  \A c \in Calls : \A r \in TradingRoutes \cup BrokerRoutes :
    r.name \in Acting /\ Serves(c, r) => effects[c] + held[c] <= 1
=============================================================================
