--------------------------- MODULE MCServicesLive ---------------------------
(* One service, any number of requests and orphans: the instance for the   *)
(* liveness properties of Services.                                        *)
EXTENDS Services

LiveNames == {"a"}
LiveOrder == <<"a">>
LiveFlags == [s \in LiveNames |-> {"CRITICAL"}]
LiveOnRestart == [s \in LiveNames |-> <<>>]
=============================================================================
