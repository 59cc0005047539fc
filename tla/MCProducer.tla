---------------------------- MODULE MCProducer ----------------------------
(* Model-checking instances of Producer. *)
EXTENDS Producer

Celery == <<"celery">>

\* Two priorities that are steps, and two that are not, of which one shares a
\* step with the first.
SharedStep == <<0, 2, 5, 9>>

OneOtherKey == {<<"app">>}
=============================================================================
