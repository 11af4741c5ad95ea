------------------------------ MODULE MCRestRetry ------------------------------
(***************************************************************************)
(* Instances of RestRetry.  The statuses are a success, the rate limiter's *)
(* 429, a gateway's 504 and a plain refusal; 500 is retried by some        *)
(* policies.  Pauses are counted in units of the smallest wait.            *)
(***************************************************************************)
EXTENDS Clients

MCRequests ==
  {Under(w, [attempts |-> 3, backoff |-> "Exponential"]) : w \in Wrapped}
    \cup {Under(w, [attempts |-> MaxU32, backoff |-> "Flat"]) : w \in {[method |-> "GET", replay |-> "ByMethod"],
                                                                   [method |-> "POST", replay |-> "ByMethod"]}}

MCStatuses == {200, 403, 429, 504}
DefaultCodes == {429, 504}
MCDurations == 0..9
LongHeader == {0, 9}
=============================================================================
