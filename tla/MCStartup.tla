----------------------------- MODULE MCStartup -----------------------------
(* Model-checking instance of Startup: families of command lines that vary
   some arguments of one that is in order. *)
EXTENDS Startup, TLC

CONSTANTS h1, h2, port1, port2, pw1, pw2, sock

Plain == [scheme |-> "redis", host |-> h1, port |-> port1, password |-> None, path |-> None,
          db |-> None, fragment |-> None]

Default ==
  [url |-> Plain, host |-> None, port |-> None, password |-> None, tls |-> FALSE,
   insecure |-> FALSE, db |-> None, workers |-> <<1>>, jobs |-> 1, warmupJobs |-> 0,
   numQueues |-> 1, priorities |-> <<0>>, brpopTimeout |-> "positive", percentiles |-> <<>>,
   tag |-> None, output |-> None, timeout |-> 1, allowFlushdb |-> FALSE]

\* How a connection is secured, and which database it selects.
SecurityFamily ==
  {[Default EXCEPT !.url = [Plain EXCEPT !.scheme = s, !.fragment = f, !.path = p,
                                         !.host = IF s = "unix" THEN None ELSE h1,
                                         !.port = None, !.db = d],
                   !.tls = t, !.insecure = i, !.db = n, !.allowFlushdb = flush] :
     s \in {"redis", "rediss", "REDISS", "valkey", "valkeys", "unix", "other", "no url"},
     f \in {None, "insecure", "other"}, p \in {None, 0, 5, 256, sock}, d \in {None, 0, 7},
     t \in BOOLEAN, i \in BOOLEAN, n \in {None, 0, 3}, flush \in BOOLEAN}

\* What the flags replace.
EndpointFamily ==
  {[Default EXCEPT !.url = [Plain EXCEPT !.scheme = s, !.host = h, !.port = p, !.password = w,
                                         !.path = IF s = "unix" THEN sock ELSE 7],
                   !.host = fh, !.port = fp, !.password = fw, !.db = fd] :
     s \in {"redis", "unix"}, h \in {None, h1}, p \in {None, port1}, w \in {None, pw1},
     fh \in {None, h2, BadHost}, fp \in {None, port2}, fw \in {None, pw2}, fd \in {None, 0}}

\* Numbers at the borders of their ranges.
NumberFamily ==
  {[Default EXCEPT !.jobs = j, !.numQueues = q, !.timeout = t, !.brpopTimeout = b] :
     j \in 0 .. 1, q \in {0, 1, MAX_NUM_QUEUES, MAX_NUM_QUEUES + 1}, t \in 0 .. 1, b \in Floats}
  \union
  {[Default EXCEPT !.workers = w, !.priorities = p] :
     w \in SeqOf({0, 1, MAX_WORKERS_PER_TRIAL, MAX_WORKERS_PER_TRIAL + 1}, 2),
     p \in SeqOf({0, 9, 10}, 2)}

\* Tags and output paths.
TextFamily ==
  {[Default EXCEPT !.tag = t, !.output = o] :
     t \in {None, <<>>, <<".", ".">>, <<"/", ".", ".", "/", "a">>, <<"a", " ">>},
     o \in {None} \union SeqOf({"a", ".", "/"}, 4) \union {<<"-">>}}

SpecOf(h, r) == [head |-> h, rest |-> r]

\* Digits only, and few enough for their power of ten; signs and more digits.
PlainSpecs == {SpecOf("p", r) : r \in SeqOf({0, 1, 5, 9, Letter}, 3)}
                \union {SpecOf(h, <<>>) : h \in {"max", "mean", "other"}}
OddSpecs == {SpecOf("p", r) : r \in SeqOf({0, 5, 9, Plus}, 4)}

SpecFamily ==
  {[Default EXCEPT !.percentiles = <<s>>] : s \in PlainSpecs \union OddSpecs}
  \union
  {[Default EXCEPT !.percentiles = <<s, r>>] :
     s \in {SpecOf("max", <<>>), SpecOf("p", <<9, 9>>)}, r \in PlainSpecs}

AllClis == SecurityFamily \union EndpointFamily \union NumberFamily \union TextFamily \union SpecFamily

SomeVersions == {<<"a", ".", "a">>, <<"/", ".", ".", "/">>}
=============================================================================
