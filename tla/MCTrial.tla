------------------------------ MODULE MCTrial ------------------------------
(* Model-checking instances of Trial. *)
EXTENDS Trial

\* Values of --latency-percentiles.
NoSpecs == <<>>
OneSpec == <<"p99">>
RepeatedSpec == <<"p99", "p50", "p50">>
=============================================================================
