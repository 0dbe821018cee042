----------------------------- MODULE MCMonitoring -----------------------------
(***************************************************************************)
(* Monitoring for TLC: a limit below the default request of a large        *)
(* engine, and a request above the limit.                                  *)
(***************************************************************************)
EXTENDS Monitoring

R(request, limit) == [request |-> request, limit |-> limit]

MCRequested == {R(0, 4), R(5, 4)}
=============================================================================
