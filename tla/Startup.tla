------------------------------- MODULE Startup -------------------------------
(***************************************************************************)
(* main() (main.rs) up to its first round: validate_cli, build_redis_url,  *)
(* the warnings, validate_output_path, the percentile specs, the tag and   *)
(* the first connection.  What follows is Bench.                           *)
(*                                                                         *)
(* Abstraction: a text (tag, path, version) is a sequence of characters of *)
(* a few kinds; a BRPOP timeout is the kind of floating-point number it    *)
(* is.  The environment is a choice of arguments and of what the broker    *)
(* answers.                                                                *)
(***************************************************************************)
EXTENDS RedisUrl, PercentileSpec

CONSTANTS
  Clis,      \* command lines
  Versions,  \* what a broker may give as its version
  MAX_NUM_QUEUES,
  MAX_WORKERS_PER_TRIAL

Chars == {"a", ".", "-", "/", " "}
Text == Seq(Chars)
Floats == {"positive", "zero", "negative", "infinite", "nan"}

Cli == [url : Url, host : Optional(Hosts \union {BadHost}), port : Optional(Ports),
        password : Optional(Passwords), tls : BOOLEAN, insecure : BOOLEAN,
        db : Optional(0 .. 255), workers : Seq(Nat), jobs : Nat, warmupJobs : Nat,
        numQueues : Nat, priorities : Seq(Nat), brpopTimeout : Floats,
        percentiles : Seq(Specs), tag : Optional(Text), output : Optional(Text),
        timeout : Nat, allowFlushdb : BOOLEAN]

ASSUME CliAssumption == Clis \subseteq Cli
ASSUME VersionsAssumption == Versions \subseteq Text
ASSUME LimitsAssumption == {MAX_NUM_QUEUES, MAX_WORKERS_PER_TRIAL} \subseteq Nat \ {0}
ASSUME NoneAssumption == None \notin Text

VARIABLES
  cli,        \* the arguments
  pc,         \* the next thing main() does
  provider,   \* a rustls crypto provider is installed
  url,        \* the URL built
  shown,      \* display_url
  warned,     \* warnings printed
  contacted,  \* a connection was attempted
  tag,
  output

decided == <<url, shown, warned, tag, output>>
vars == <<cli, pc, provider, contacted, decided>>

-----------------------------------------------------------------------------
(* validate_cli. *)

(* Mutated form of ValidLevels: only the first level is looked at. *)
ValidFirstLevel(workers) == workers # <<>> /\ workers[1] \in 1 .. MAX_WORKERS_PER_TRIAL

ValidLevels(workers) ==
  /\ workers # <<>>
  /\ \A i \in DOMAIN workers : workers[i] \in 1 .. MAX_WORKERS_PER_TRIAL

ValidCli(c) ==
  /\ c.jobs > 0
  /\ c.numQueues \in 1 .. MAX_NUM_QUEUES
  /\ c.priorities # <<>>
  /\ \A i \in DOMAIN c.priorities : c.priorities[i] <= 9
  /\ ValidLevels(c.workers)
  /\ c.brpopTimeout = "positive"
  /\ c.timeout > 0
  /\ c.insecure => ResolvesToTls(c)

-----------------------------------------------------------------------------
(* Tags and paths. *)

(* Mutated form of SanitizeTag: the text as it came. *)
SanitizeTagNot(text) == text

SanitizeTag(text) ==
  IF text = <<>> THEN <<"unknown">>
  ELSE [i \in DOMAIN text |-> IF text[i] \in {"a", ".", "-"} THEN text[i] ELSE "-"]

DefaultOutput(t) == <<"celery_bench_">> \o t \o <<".json">>

\* A component of the path is "..".
HasParentDir(path) ==
  \E i \in 1 .. Len(path) - 1 :
    /\ path[i] = "." /\ path[i + 1] = "."
    /\ i = 1 \/ path[i - 1] = "/"
    /\ i + 1 = Len(path) \/ path[i + 2] = "/"

ValidOutputPath(path) == ~HasParentDir(path)

-----------------------------------------------------------------------------
(* main(). *)

Init ==
  /\ cli \in Clis
  /\ pc = "install"
  /\ provider = FALSE
  /\ contacted = FALSE
  /\ url = cli.url
  /\ shown = cli.url
  /\ warned = {}
  /\ tag = <<>>
  /\ output = <<>>

\* main() goes on, or returns an error.
Proceed(ok, next) == pc' = IF ok THEN next ELSE "refused"

(* install_crypto_provider: installing twice is no error. *)
InstallProvider ==
  /\ pc = "install"
  /\ provider' = TRUE
  /\ pc' = "validate"
  /\ UNCHANGED <<cli, contacted, decided>>

Validate ==
  /\ pc = "validate"
  /\ Proceed(ValidCli(cli), "build")
  /\ UNCHANGED <<cli, provider, contacted, decided>>

BuildUrl ==
  /\ pc = "build"
  /\ Proceed(CanBuild(cli), "warn")
  /\ IF CanBuild(cli)
     THEN url' = BuiltUrl(cli) /\ shown' = Redacted(BuiltUrl(cli))
     ELSE UNCHANGED <<url, shown>>
  /\ UNCHANGED <<cli, provider, contacted, warned, tag, output>>

(* Mutated form of FlushesDbZero: the database of the URL that was given. *)
FlushesGivenDbZero == cli.allowFlushdb /\ DbInUrl(cli.url) = 0

FlushesDbZero == cli.allowFlushdb /\ DbInUrl(url) = 0

Warn ==
  /\ pc = "warn"
  /\ warned' = (IF DisablesCertVerification(url) THEN {"insecure"} ELSE {})
                 \union (IF FlushesDbZero THEN {"flush"} ELSE {})
  /\ pc' = "checkOutput"
  /\ UNCHANGED <<cli, provider, contacted, url, shown, tag, output>>

CheckOutput ==
  /\ pc = "checkOutput"
  /\ Proceed(cli.output # None => ValidOutputPath(cli.output), "parseSpecs")
  /\ UNCHANGED <<cli, provider, contacted, decided>>

ParsedSpecs == \A i \in DOMAIN cli.percentiles : Accepted(cli.percentiles[i])

ParseSpecs ==
  /\ pc = "parseSpecs"
  /\ Proceed(ParsedSpecs, "chooseTag")
  /\ UNCHANGED <<cli, provider, contacted, decided>>

Output(t) == IF cli.output # None THEN cli.output ELSE DefaultOutput(t)

SetTag(t) ==
  /\ tag' = SanitizeTag(t)
  /\ output' = Output(tag')
  /\ pc' = "connect"
  /\ UNCHANGED <<cli, provider, url, shown, warned>>

UseGivenTag ==
  /\ pc = "chooseTag"
  /\ cli.tag # None
  /\ SetTag(cli.tag)
  /\ UNCHANGED contacted

VersionTag(version) == <<"a", "-">> \o version

(* fetch_tag asks the broker for its version; without an answer the tag is
   "unknown", which is what an empty text is made of too. *)
FetchTag ==
  /\ pc = "chooseTag"
  /\ cli.tag = None
  /\ contacted' = Opens(url)
  /\ \/ SetTag(<<>>)
     \/ Reaches(url) /\ \E version \in Versions : SetTag(VersionTag(version))

Connect ==
  /\ pc = "connect"
  /\ contacted' = (contacted \/ Opens(url))
  /\ \E answered \in BOOLEAN : Proceed(Reaches(url) /\ answered, "loop")
  /\ UNCHANGED <<cli, provider, decided>>

Over ==
  /\ pc \in {"refused", "loop"}
  /\ UNCHANGED vars

Next ==
  \/ InstallProvider
  \/ Validate
  \/ BuildUrl
  \/ Warn
  \/ CheckOutput
  \/ ParseSpecs
  \/ UseGivenTag
  \/ FetchTag
  \/ Connect
  \/ Over

Spec == Init /\ [][Next]_vars

-----------------------------------------------------------------------------

StartupTypeOK ==
  /\ cli \in Cli
  /\ pc \in {"install", "validate", "build", "warn", "checkOutput", "parseSpecs", "chooseTag",
             "connect", "loop", "refused"}
  /\ provider \in BOOLEAN /\ contacted \in BOOLEAN
  /\ url \in Url /\ shown \in Url
  /\ warned \subseteq {"insecure", "flush"}
  /\ \A t \in {tag, output} : t \in Seq(Chars \union {"unknown", "celery_bench_", ".json"})

\* Arguments that meet what the other modules assume of their constants.
ArgumentsFit(c) ==
  /\ {c.jobs, c.numQueues, c.timeout} \subseteq Nat \ {0}
  /\ c.numQueues <= MAX_NUM_QUEUES
  /\ c.priorities \in Seq(0 .. 9) \ {<<>>}
  /\ c.workers \in Seq(1 .. MAX_WORKERS_PER_TRIAL) \ {<<>>}
  /\ c.brpopTimeout = "positive"

(* main.rs:803, "before touching the network": five functions check the
   arguments, and no connection is attempted before the last of them has.  What
   was let through is what a round can run on, --insecure has a connection to
   take effect on, and the provider that rustls would panic without is there. *)
ContactIsPrepared ==
  contacted =>
    /\ ArgumentsFit(cli)
    /\ CanBuild(cli)
    /\ cli.insecure => UsesTls(url)
    /\ cli.output # None => ~HasParentDir(cli.output)
    /\ \A i \in DOMAIN cli.percentiles : Accepted(cli.percentiles[i])
    /\ UsesTls(url) => provider

(* What is connected to is what was asked for: every flag that is given counts,
   whatever the URL has in its place, every flag that is omitted leaves the URL
   alone, and the report names the same server.  A socket's database is the one
   of its own query, and --tls upgrades the scheme redis only. *)
ServerIsAsAsked ==
  pc = "loop" =>
    LET Asked(flag, given) == IF flag # None THEN flag ELSE given
    IN /\ url.host = Asked(cli.host, cli.url.host)
       /\ url.port = Asked(cli.port, cli.url.port)
       /\ url.password = Asked(cli.password, cli.url.password)
       /\ Db(url) = IF cli.url.scheme = "unix" THEN Asked(cli.url.db, 0)
                    ELSE Asked(cli.db, Asked(cli.url.path, 13))
       /\ UsesTls(url) <=> \/ cli.url.scheme \in {"rediss", "REDISS", "valkeys"}
                           \/ cli.tls /\ cli.url.scheme = "redis"
       /\ shown \in {url, [url EXCEPT !.password = Hidden]}
       /\ shown.password \in {None, Hidden}

(* --insecure is refused or takes effect, and nothing else but the URL's own
   fragment has that effect.  The user is told of it only when certificates go
   unverified, and then always, but for the one scheme with TLS that the
   program does not know. *)
VerificationIsAsAsked ==
  contacted =>
    /\ cli.insecure => SkipsVerification(url)
    /\ SkipsVerification(url) => cli.insecure \/ cli.url.fragment = "insecure"
    /\ "insecure" \in warned => SkipsVerification(url)
    /\ SkipsVerification(url) => "insecure" \in warned \/ url.scheme = "valkeys"

(* main.rs:218-220: a URL that turns verification off by its own fragment
   "deserves the same warning `--insecure` gets, not silence". *)
UnverifiedIsAnnounced ==
  contacted /\ SkipsVerification(url) => "insecure" \in warned

(* main.rs:24: the URL "takes precedence over --host/--port". *)
UrlTakesPrecedence ==
  pc = "loop" =>
    /\ cli.url.host # None => url.host = cli.url.host
    /\ cli.url.port # None => url.port = cli.url.port

(* No round flushes database 0 without a warning, however the number came
   about. *)
FlushIsWarned ==
  pc = "loop" /\ cli.allowFlushdb /\ Db(url) = 0 => "flush" \in warned

(* The report goes where it was asked to: to the path that is given, absolute
   or not but without "..", or else to a file in the working directory, whatever
   the tag that names it and wherever that tag comes from. *)
OutputIsAsAsked ==
  pc = "loop" =>
    /\ ~HasParentDir(output)
    /\ IF cli.output # None THEN output = cli.output
       ELSE \A i \in DOMAIN output : output[i] # "/"

(* A spec of digits whose power of ten fits is the decimal fraction it spells. *)
SpecsReadAsDecimals ==
  pc = "loop" =>
    \A i \in DOMAIN cli.percentiles :
      LET s == cli.percentiles[i]
      IN /\ s.head = "p" /\ s.rest \in Seq(Digits)
         /\ Pow(10, Len(s.rest)) < Pow(2, Width)
         => ReadsAs(Quantile(s), s.rest)
=============================================================================
