---------------------------- MODULE StartupProofs ----------------------------
(***************************************************************************)
(* Proofs about Startup for every set of command lines.                    *)
(***************************************************************************)
EXTENDS Startup, ArithmeticProofs, SequenceTheorems, TLAPS

(* A sequence is one over the set its elements are in. *)
LEMMA ElementsInSet ==
  ASSUME NEW S, NEW T, NEW s \in Seq(S), \A i \in DOMAIN s : s[i] \in T
  PROVE  s \in Seq(T)
<1>1. Len(s) \in Nat /\ s \in [1 .. Len(s) -> S] /\ DOMAIN s = 1 .. Len(s)
  OBVIOUS
<1>2. s \in [1 .. Len(s) -> T]
  BY <1>1
<1>3. QED
  BY <1>1, <1>2

(* What is known from each point of main() on: the checks it has passed and
   what it has computed.  It is sequential, so each part holds as soon as the
   one before it does. *)
Later == {"loop", "connect", "chooseTag"}
Unchecked == {"install", "validate", "build", "warn", "checkOutput", "parseSpecs"}

Prepared ==
  /\ provider
  /\ ValidCli(cli)
  /\ CanBuild(cli)
  /\ url = BuiltUrl(cli) /\ shown = Redacted(url)

Warned ==
  warned = (IF DisablesCertVerification(url) THEN {"insecure"} ELSE {})
             \union (IF FlushesDbZero THEN {"flush"} ELSE {})

OutputAllowed == cli.output # None => ValidOutputPath(cli.output)

StartupInv ==
  /\ cli \in Clis
  /\ pc \in Unchecked \union Later \union {"refused"}
  /\ pc \notin {"install", "refused"} => provider
  /\ pc = "build" => ValidCli(cli)
  /\ pc \in {"warn", "checkOutput", "parseSpecs"} => Prepared
  /\ pc \in {"checkOutput", "parseSpecs"} => Warned
  /\ pc = "parseSpecs" => OutputAllowed
  /\ contacted \/ pc \in Later => Prepared /\ Warned /\ OutputAllowed /\ ParsedSpecs
  /\ contacted => pc \in Later \union {"refused"}
  /\ pc = "loop" => contacted /\ Reaches(url)

LEMMA StartupInitially == Init => StartupInv
  BY DEF Init, StartupInv, Unchecked, Later

(* Each step of main() adds one part of the invariant, or ends the program. *)
LEMMA StartupInductive == StartupInv /\ [Next]_vars => StartupInv'
<1> SUFFICES ASSUME StartupInv, [Next]_vars PROVE StartupInv'
  OBVIOUS
<1> USE DEF StartupInv, Unchecked, Later
<1>1. CASE InstallProvider
  BY <1>1 DEF InstallProvider, decided
<1>2. CASE Validate
  BY <1>2 DEF Validate, Proceed, decided
<1>3. CASE BuildUrl
  BY <1>3 DEF BuildUrl, Proceed, Prepared
<1>4. CASE Warn
  BY <1>4 DEF Warn, Prepared, Warned, FlushesDbZero
<1>5. CASE CheckOutput
  BY <1>5 DEF CheckOutput, Proceed, decided, Prepared, Warned, OutputAllowed, FlushesDbZero
<1>6. CASE ParseSpecs
  BY <1>6 DEF ParseSpecs, Proceed, decided, Prepared, Warned, OutputAllowed, FlushesDbZero, ParsedSpecs
<1>7. CASE UseGivenTag
  BY <1>7 DEF UseGivenTag, SetTag, Prepared, Warned, OutputAllowed, FlushesDbZero, ParsedSpecs
<1>8. CASE FetchTag
  BY <1>8 DEF FetchTag, SetTag, Prepared, Warned, OutputAllowed, FlushesDbZero, ParsedSpecs
<1>9. CASE Connect
  <2>1. Reaches(url) => Opens(url)
    BY DEF Reaches
  <2>2. QED
    BY <1>9, <2>1 DEF Connect, Proceed, decided, Prepared, Warned, OutputAllowed, FlushesDbZero, ParsedSpecs
<1>10. CASE Over \/ UNCHANGED vars
  BY <1>10 DEF Over, vars, decided, Prepared, Warned, OutputAllowed, FlushesDbZero, ParsedSpecs
<1>11. QED
  BY <1>1, <1>2, <1>3, <1>4, <1>5, <1>6, <1>7, <1>8, <1>9, <1>10 DEF Next

(* Everything decided so far fits the arguments, along every behaviour. *)
THEOREM StartupInvariant == Spec => []StartupInv
  BY StartupInitially, StartupInductive, PTL DEF Spec

-----------------------------------------------------------------------------
(* What build_redis_url does to a URL that it accepts. *)

(* Replacing one component of a URL leaves the others alone. *)
LEMMA SetHost ==
  ASSUME NEW u \in Url, NEW x \in Optional(Hosts), NEW v, v = [u EXCEPT !.host = x]
  PROVE  /\ v \in Url /\ v.host = x
         /\ v.scheme = u.scheme /\ v.port = u.port /\ v.password = u.password
         /\ v.path = u.path /\ v.fragment = u.fragment /\ v.db = u.db
  BY DEF Url, Optional

LEMMA SetPort ==
  ASSUME NEW u \in Url, NEW x \in Optional(Ports), NEW v, v = [u EXCEPT !.port = x]
  PROVE  /\ v \in Url /\ v.port = x
         /\ v.scheme = u.scheme /\ v.host = u.host /\ v.password = u.password
         /\ v.path = u.path /\ v.fragment = u.fragment /\ v.db = u.db
  BY DEF Url, Optional

LEMMA SetPassword ==
  ASSUME NEW u \in Url, NEW x \in Optional(Passwords \union {Hidden}), NEW v, v = [u EXCEPT !.password = x]
  PROVE  /\ v \in Url /\ v.password = x
         /\ v.scheme = u.scheme /\ v.host = u.host /\ v.port = u.port
         /\ v.path = u.path /\ v.fragment = u.fragment /\ v.db = u.db
  BY DEF Url, Optional

LEMMA SetScheme ==
  ASSUME NEW u \in Url, NEW x \in {"rediss"}, NEW v, v = [u EXCEPT !.scheme = x]
  PROVE  /\ v \in Url /\ v.scheme = x
         /\ v.host = u.host /\ v.port = u.port /\ v.password = u.password
         /\ v.path = u.path /\ v.fragment = u.fragment /\ v.db = u.db
  BY DEF Url, Optional

LEMMA SetFragment ==
  ASSUME NEW u \in Url, NEW x \in {"insecure"}, NEW v, v = [u EXCEPT !.fragment = x]
  PROVE  /\ v \in Url /\ v.fragment = x
         /\ v.scheme = u.scheme /\ v.host = u.host /\ v.port = u.port
         /\ v.password = u.password /\ v.path = u.path /\ v.db = u.db
  BY DEF Url, Optional

(* The components of the URL that is built, one by one. *)
LEMMA BuiltComponents ==
  ASSUME NEW c \in Cli, CanBuild(c)
  PROVE  /\ BuiltUrl(c).scheme = IF ResolvesToTls(c) THEN "rediss" ELSE c.url.scheme
         /\ BuiltUrl(c).host = IF c.host # None THEN c.host ELSE c.url.host
         /\ BuiltUrl(c).port = IF c.port # None THEN c.port ELSE c.url.port
         /\ BuiltUrl(c).password = IF c.password # None THEN c.password ELSE c.url.password
         /\ BuiltUrl(c).path = IF c.db # None THEN c.db
                               ELSE IF c.url.path # None THEN c.url.path ELSE 13
         /\ BuiltUrl(c).fragment = IF c.insecure /\ ResolvesToTls(c) THEN "insecure"
                                   ELSE c.url.fragment
         /\ BuiltUrl(c).db = c.url.db
         /\ BuiltUrl(c) \in Url
<1> DEFINE u0 == Parsed(c.url)
           u1 == WithHost(u0, c)
           u2 == WithPort(u1, c)
           u3 == WithTls(u2, c)
           u4 == WithInsecure(u3, c)
           u5 == WithPassword(u4, c)
<1>0. c.url \in Url /\ c.host \in Optional(Hosts) /\ c.port \in Optional(Ports)
      /\ c.password \in Optional(Passwords) /\ c.db \in Optional(0 .. 255)
      /\ c.tls \in BOOLEAN /\ c.insecure \in BOOLEAN
  BY UrlAssumption DEF Cli, CanBuild, Optional
<1>1. /\ u0 \in Url
      /\ u0.scheme = IF c.url.scheme = "REDISS" THEN "rediss" ELSE c.url.scheme
      /\ u0.host = c.url.host /\ u0.port = c.url.port /\ u0.password = c.url.password
      /\ u0.path = c.url.path /\ u0.fragment = c.url.fragment /\ u0.db = c.url.db
  BY <1>0 DEF Parsed, Url
<1>2. /\ u1 \in Url
      /\ u1.host = IF c.host # None THEN c.host ELSE c.url.host
      /\ u1.scheme = u0.scheme /\ u1.port = u0.port /\ u1.password = u0.password
      /\ u1.path = u0.path /\ u1.fragment = u0.fragment /\ u1.db = u0.db
  <2> HIDE DEF u0
  <2>1. CASE c.host # None
    BY <1>0, <1>1, <2>1, SetHost DEF WithHost, Optional
  <2>2. CASE ~ (c.host # None)
    BY <1>0, <1>1, <2>2 DEF WithHost
  <2> QED
    BY <2>1, <2>2
<1>3. /\ u2 \in Url
      /\ u2.port = IF c.port # None THEN c.port ELSE c.url.port
      /\ u2.scheme = u0.scheme /\ u2.host = u1.host /\ u2.password = u0.password
      /\ u2.path = u0.path /\ u2.fragment = u0.fragment /\ u2.db = u0.db
  <2> HIDE DEF u0, u1
  <2>1. CASE c.port # None
    BY <1>0, <1>1, <1>2, <2>1, SetPort DEF WithPort, Optional
  <2>2. CASE ~ (c.port # None)
    BY <1>0, <1>1, <1>2, <2>2 DEF WithPort
  <2> QED
    BY <2>1, <2>2
<1>4. /\ u3 \in Url
      /\ u3.scheme = IF c.tls /\ u0.scheme = "redis" THEN "rediss" ELSE u0.scheme
      /\ u3.host = u1.host /\ u3.port = u2.port /\ u3.password = u0.password
      /\ u3.path = u0.path /\ u3.fragment = u0.fragment /\ u3.db = u0.db
  <2> HIDE DEF u0, u1, u2
  <2>1. CASE c.tls /\ u2.scheme = "redis"
    BY <1>0, <1>1, <1>3, <2>1, SetScheme DEF WithTls, Optional
  <2>2. CASE ~ (c.tls /\ u2.scheme = "redis")
    BY <1>0, <1>1, <1>3, <2>2 DEF WithTls
  <2> QED
    BY <2>1, <2>2
<1>5. /\ u4 \in Url
      /\ u4.fragment = IF c.insecure /\ ResolvesToTls(c) THEN "insecure" ELSE c.url.fragment
      /\ u4.scheme = u3.scheme /\ u4.host = u1.host /\ u4.port = u2.port
      /\ u4.password = u0.password /\ u4.path = u0.path /\ u4.db = u0.db
  <2> HIDE DEF u0, u1, u2, u3
  <2>1. CASE c.insecure /\ ResolvesToTls(c)
    BY <1>0, <1>1, <1>4, <2>1, SetFragment DEF WithInsecure, Optional
  <2>2. CASE ~ (c.insecure /\ ResolvesToTls(c))
    BY <1>0, <1>1, <1>4, <2>2 DEF WithInsecure
  <2> QED
    BY <2>1, <2>2
<1>6. /\ u5 \in Url
      /\ u5.password = IF c.password # None THEN c.password ELSE c.url.password
      /\ u5.scheme = u3.scheme /\ u5.host = u1.host /\ u5.port = u2.port
      /\ u5.fragment = u4.fragment /\ u5.path = u0.path /\ u5.db = u0.db
  <2> HIDE DEF u0, u1, u2, u3, u4
  <2>1. CASE c.password # None
    BY <1>0, <1>1, <1>5, <2>1, SetPassword DEF WithPassword, Optional
  <2>2. CASE ~ (c.password # None)
    BY <1>0, <1>1, <1>5, <2>2 DEF WithPassword
  <2> QED
    BY <2>1, <2>2
<1>7. /\ WithDb(u5, c) \in Url
      /\ WithDb(u5, c).path = IF c.db # None THEN c.db
                              ELSE IF c.url.path # None THEN c.url.path ELSE 13
      /\ WithDb(u5, c).scheme = u3.scheme /\ WithDb(u5, c).host = u1.host
      /\ WithDb(u5, c).port = u2.port /\ WithDb(u5, c).fragment = u4.fragment
      /\ WithDb(u5, c).password = u5.password /\ WithDb(u5, c).db = u0.db
  <2> HIDE DEF u0, u1, u2, u3, u4, u5
  <2> QED
    <3>1. CASE c.db # None
      <4>1. c.db \in Optional(Nat \union Sockets)
        BY <1>0, <3>1 DEF Optional
      <4>2. QED
        BY <3>1, <4>1, <1>1, <1>6 DEF WithDb, Url
    <3>2. CASE c.db = None /\ c.url.path = None
      <4>1. 13 \in Optional(Nat \union Sockets)
        BY DEF Optional
      <4>2. QED
        BY <3>2, <4>1, <1>1, <1>6 DEF WithDb, Url
    <3>3. CASE c.db = None /\ c.url.path # None
      BY <3>3, <1>1, <1>6 DEF WithDb
    <3>4. QED
      BY <3>1, <3>2, <3>3
<1>8. BuiltUrl(c) = WithDb(u5, c)
  BY DEF BuiltUrl
<1>9. u3.scheme = IF ResolvesToTls(c) THEN "rediss" ELSE c.url.scheme
  <2> HIDE DEF u0, u3
  <2> QED
    BY <1>0, <1>1, <1>4 DEF ResolvesToTls, ParsedScheme, CanBuild, Parsed, Url
<1>10. QED
  <2> HIDE DEF u0, u1, u2, u3, u4, u5
  <2> QED
    BY <1>1, <1>2, <1>3, <1>5, <1>6, <1>7, <1>8, <1>9

(* The schemes that end up with TLS, by what main.rs believes and by what
   redis-rs does. *)
LEMMA TlsOfBuilt ==
  ASSUME NEW c \in Cli, CanBuild(c)
  PROVE  /\ ResolvesToTls(c) <=> \/ c.url.scheme \in {"rediss", "REDISS"}
                                 \/ c.tls /\ c.url.scheme = "redis"
         /\ UsesTls(BuiltUrl(c)) <=> ResolvesToTls(c) \/ c.url.scheme = "valkeys"
<1>1. BuiltUrl(c).scheme = IF ResolvesToTls(c) THEN "rediss" ELSE c.url.scheme
  BY BuiltComponents
<1>2. ResolvesToTls(c) <=> \/ c.url.scheme \in {"rediss", "REDISS"}
                           \/ c.tls /\ c.url.scheme = "redis"
  <2>1. c.url \in Url
    BY DEF Cli
  <2>2. QED
    BY <2>1 DEF ResolvesToTls, ParsedScheme, Parsed, CanBuild, Url
<1>3. QED
  BY <1>1, <1>2 DEF UsesTls

(* What validate_cli lets through meets the other modules' assumptions. *)
LEMMA ValidArgumentsFit ==
  ASSUME NEW c \in Cli, ValidCli(c)
  PROVE  ArgumentsFit(c)
<1>1. c.priorities \in Seq(Nat) /\ c.workers \in Seq(Nat)
  BY DEF Cli
<1>2. c.priorities \in Seq(0 .. 9)
  <2>1. \A i \in DOMAIN c.priorities : c.priorities[i] \in Nat
    BY <1>1
  <2>2. \A i \in DOMAIN c.priorities : c.priorities[i] \in 0 .. 9
    BY <2>1 DEF ValidCli
  <2>3. QED
    BY <2>2, <1>1, ElementsInSet
<1>3. c.workers \in Seq(1 .. MAX_WORKERS_PER_TRIAL)
  <2>1. \A i \in DOMAIN c.workers : c.workers[i] \in 1 .. MAX_WORKERS_PER_TRIAL
    BY DEF ValidCli, ValidLevels
  <2>2. QED
    BY <2>1, <1>1, ElementsInSet
<1>4. c.jobs \in Nat /\ c.numQueues \in Nat /\ c.timeout \in Nat
  BY DEF Cli
<1>5. QED
  BY <1>2, <1>3, <1>4, LimitsAssumption DEF ArgumentsFit, ValidCli, ValidLevels

(* No connection is attempted with an argument no round could run on. *)
THEOREM ContactIsPreparedCorrect == Spec => []ContactIsPrepared
<1>1. StartupInv => ContactIsPrepared
  <2> SUFFICES ASSUME StartupInv, contacted PROVE ContactIsPrepared
    BY DEF ContactIsPrepared
  <2>1. cli \in Cli /\ Prepared /\ OutputAllowed /\ ParsedSpecs
    BY CliAssumption DEF StartupInv
  <2>2. ArgumentsFit(cli)
    BY <2>1, ValidArgumentsFit DEF Prepared
  <2>3. cli.insecure => UsesTls(url)
    BY <2>1, TlsOfBuilt DEF Prepared, ValidCli
  <2>4. QED
    BY <2>1, <2>2, <2>3 DEF Prepared, OutputAllowed, ValidOutputPath, ParsedSpecs, ContactIsPrepared
<1>2. QED
  BY <1>1, StartupInvariant, PTL

(* --insecure is refused or takes effect; only with the scheme valkeys is
   anything skipped unannounced. *)
THEOREM VerificationIsAsAskedCorrect == Spec => []VerificationIsAsAsked
<1>1. StartupInv => VerificationIsAsAsked
  <2> SUFFICES ASSUME StartupInv, contacted PROVE VerificationIsAsAsked
    BY DEF VerificationIsAsAsked
  <2>1. cli \in Cli /\ Prepared /\ Warned
    BY CliAssumption DEF StartupInv
  <2>2. /\ url.scheme = IF ResolvesToTls(cli) THEN "rediss" ELSE cli.url.scheme
        /\ url.fragment = IF cli.insecure /\ ResolvesToTls(cli) THEN "insecure"
                          ELSE cli.url.fragment
    BY <2>1, BuiltComponents DEF Prepared
  <2>3. cli.insecure => SkipsVerification(url)
    BY <2>1, <2>2, TlsOfBuilt DEF Prepared, ValidCli, SkipsVerification
  <2>4. SkipsVerification(url) => cli.insecure \/ cli.url.fragment = "insecure"
    BY <2>2 DEF SkipsVerification
  <2>5. /\ "insecure" \in warned => SkipsVerification(url)
        /\ SkipsVerification(url) => "insecure" \in warned \/ url.scheme = "valkeys"
    BY <2>1 DEF Warned, SkipsVerification, UsesTls, DisablesCertVerification
  <2>6. QED
    BY <2>3, <2>4, <2>5 DEF VerificationIsAsAsked
<1>2. QED
  BY <1>1, StartupInvariant, PTL

(* Database 0 is never flushed without the warning. *)
THEOREM FlushIsWarnedCorrect == Spec => []FlushIsWarned
<1>1. StartupInv => FlushIsWarned
  <2> SUFFICES ASSUME StartupInv, pc = "loop", cli.allowFlushdb, Db(url) = 0
               PROVE  "flush" \in warned
    BY DEF FlushIsWarned
  <2>1. Prepared /\ Warned /\ Reaches(url) /\ cli \in Cli
    BY CliAssumption DEF StartupInv, Later
  <2>2. url \in Url
    BY <2>1, BuiltComponents DEF Prepared
  <2>3. DbInUrl(url) = 0
    <3>1. CASE url.scheme = "unix"
      BY <3>1, <2>1, UrlAssumption DEF Reaches, DbInUrl
    <3>2. CASE url.scheme # "unix"
      BY <3>2, UrlAssumption DEF Db, DbInUrl
    <3>3. QED
      BY <3>1, <3>2
  <2>4. QED
    BY <2>1, <2>3 DEF Warned, FlushesDbZero
<1>2. QED
  BY <1>1, StartupInvariant, PTL

(* Every flag that is given counts; those omitted leave the URL alone. *)
THEOREM ServerIsAsAskedCorrect == Spec => []ServerIsAsAsked
<1>1. StartupInv => ServerIsAsAsked
  <2> SUFFICES ASSUME StartupInv, pc = "loop"
               PROVE  ServerIsAsAsked
    BY DEF ServerIsAsAsked
  <2>1. Prepared /\ Reaches(url) /\ cli \in Cli
    BY CliAssumption DEF StartupInv, Later
  <2>2. /\ url.scheme = IF ResolvesToTls(cli) THEN "rediss" ELSE cli.url.scheme
        /\ url.host = IF cli.host # None THEN cli.host ELSE cli.url.host
        /\ url.port = IF cli.port # None THEN cli.port ELSE cli.url.port
        /\ url.password = IF cli.password # None THEN cli.password ELSE cli.url.password
        /\ url.path = IF cli.db # None THEN cli.db
                      ELSE IF cli.url.path # None THEN cli.url.path ELSE 13
        /\ url.db = cli.url.db
        /\ url \in Url
    BY <2>1, BuiltComponents DEF Prepared
  <2>3. url.path # None
    BY <2>2, UrlAssumption
  <2>4. /\ url.scheme = "unix" <=> cli.url.scheme = "unix"
        /\ UsesTls(url) <=> \/ cli.url.scheme \in {"rediss", "REDISS", "valkeys"}
                            \/ cli.tls /\ cli.url.scheme = "redis"
    BY <2>1, <2>2, TlsOfBuilt DEF Prepared
  <2>5. Db(url) = IF cli.url.scheme = "unix"
                  THEN IF cli.url.db # None THEN cli.url.db ELSE 0
                  ELSE url.path
    BY <2>2, <2>3, <2>4 DEF Db
  <2>6. shown \in {url, [url EXCEPT !.password = Hidden]} /\ shown.password \in {None, Hidden}
    BY <2>1, <2>2 DEF Prepared, Redacted, Url
  <2>7. QED
    BY <2>2, <2>4, <2>5, <2>6 DEF ServerIsAsAsked
<1>2. QED
  BY <1>1, StartupInvariant, PTL

-----------------------------------------------------------------------------
(* The output's name. *)

Printable == Chars \union {"unknown", "celery_bench_", ".json"}

\* What a sanitized tag and the name made of it look like.
IsTag(t) == t \in Seq(Printable) /\ \A i \in DOMAIN t : t[i] # "/"

OutputInv ==
  /\ tag \in Seq(Printable)
  /\ IF pc \in {"connect", "loop"} THEN IsTag(tag) /\ output = Output(tag)
     ELSE output \in Seq(Printable)

LEMMA SanitizeTagIsTag ==
  ASSUME NEW text \in Text
  PROVE  IsTag(SanitizeTag(text))
<1>1. CASE text = <<>>
  BY <1>1 DEF SanitizeTag, IsTag, Printable
<1>2. CASE text # <<>>
  <2>1. Len(text) \in Nat /\ DOMAIN text = 1 .. Len(text) /\ \A i \in 1 .. Len(text) : text[i] \in Chars
    BY DEF Text
  <2>2. SanitizeTag(text) \in [1 .. Len(text) -> {"a", ".", "-"}]
    BY <1>2, <2>1 DEF SanitizeTag
  <2>3. SanitizeTag(text) \in Seq(Printable)
    <3>1. {"a", ".", "-"} \subseteq Printable
      BY DEF Printable, Chars
    <3>2. SanitizeTag(text) \in Seq({"a", ".", "-"})
      BY <2>1, <2>2
    <3>3. QED
      BY <3>1, <3>2, SeqMonotonic
  <2>4. QED
    BY <2>2, <2>3 DEF IsTag
<1>3. QED
  BY <1>1, <1>2

\* A name made of a tag is one component, and not "..".
LEMMA DefaultOutputIsName ==
  ASSUME NEW t, IsTag(t)
  PROVE  IsTag(DefaultOutput(t)) /\ ~HasParentDir(DefaultOutput(t))
<1> DEFINE head == <<"celery_bench_">> \o t
           name == DefaultOutput(t)
<1>1. t \in Seq(Printable) /\ Len(t) \in Nat /\ DOMAIN t = 1 .. Len(t)
  BY DEF IsTag
<1>2. <<"celery_bench_">> \in Seq(Printable) /\ <<".json">> \in Seq(Printable)
  BY DEF Printable
<1>3. /\ head \in Seq(Printable) /\ Len(head) = Len(t) + 1
      /\ \A i \in 1 .. Len(head) : head[i] = IF i = 1 THEN "celery_bench_" ELSE t[i - 1]
  BY <1>1, <1>2
<1>4. \A i \in 1 .. Len(head) : head[i] # "/"
  <2> SUFFICES ASSUME NEW i \in 1 .. Len(head) PROVE head[i] # "/"
    OBVIOUS
  <2>1. i # 1 => i - 1 \in DOMAIN t
    BY <1>1, <1>3
  <2>2. QED
    BY <1>3, <2>1 DEF IsTag
<1>5. name = head \o <<".json">>
  BY DEF DefaultOutput
<1>6. /\ name \in Seq(Printable) /\ Len(name) = Len(head) + 1
      /\ \A i \in 1 .. Len(name) : name[i] = IF i <= Len(head) THEN head[i] ELSE ".json"
  <2> HIDE DEF head, name
  <2> QED
    BY <1>2, <1>3, <1>5
<1>7. \A i \in 1 .. Len(name) : name[i] # "/"
  <2> HIDE DEF head, name
  <2> QED
    BY <1>1, <1>3, <1>4, <1>6
<1>8. IsTag(name)
  <2> HIDE DEF name
  <2> QED
    BY <1>6, <1>7 DEF IsTag
<1>9. name[1] # "."
  <2> HIDE DEF head, name
  <2> QED
    BY <1>1, <1>3, <1>6
<1>10. ~HasParentDir(name)
  <2> HIDE DEF head, name
  <2> QED
    BY <1>1, <1>3, <1>6, <1>7, <1>9 DEF HasParentDir
<1>11. QED
  BY <1>8, <1>10

LEMMA SetTagOutput ==
  ASSUME NEW t \in Text, SetTag(t)
  PROVE  OutputInv'
<1>1. IsTag(tag') /\ output' = Output(tag') /\ pc' = "connect" /\ UNCHANGED cli
  BY SanitizeTagIsTag DEF SetTag
<1>2. Output(tag') = Output(tag)'
  BY <1>1 DEF Output
<1>3. QED
  BY <1>1, <1>2 DEF OutputInv, IsTag

LEMMA OutputInductive == StartupInv /\ OutputInv /\ [Next]_vars => OutputInv'
<1> SUFFICES ASSUME StartupInv, OutputInv, [Next]_vars PROVE OutputInv'
  OBVIOUS
<1>1. CASE UseGivenTag
  <2>1. cli.tag \in Text
    BY <1>1, CliAssumption DEF UseGivenTag, StartupInv, Cli, Optional
  <2>2. QED
    BY <1>1, <2>1, SetTagOutput DEF UseGivenTag
<1>2. CASE FetchTag
  <2>1. <<>> \in Text
    BY DEF Text
  <2>2. \A v \in Versions : VersionTag(v) \in Text
    <3>1. <<"a", "-">> \in Text
      BY DEF Text, Chars
    <3>2. \A v \in Versions : v \in Text
      BY VersionsAssumption
    <3>3. QED
      BY <3>1, <3>2 DEF VersionTag, Text
  <2>3. QED
    BY <1>2, <2>1, <2>2, SetTagOutput DEF FetchTag
<1>3. CASE \/ InstallProvider \/ Validate \/ BuildUrl \/ Warn \/ CheckOutput \/ ParseSpecs
  BY <1>3 DEF InstallProvider, Validate, BuildUrl, Warn, CheckOutput, ParseSpecs, Proceed,
              decided, OutputInv
<1>4. CASE Connect
  <2>1. UNCHANGED <<cli, tag, output>> /\ pc = "connect" /\ pc' \in {"loop", "refused"}
    BY <1>4 DEF Connect, Proceed, decided
  <2>2. Output(tag)' = Output(tag)
    BY <2>1 DEF Output
  <2>3. Output(tag) \in Seq(Printable)
    <3>1. cli.output # None => cli.output \in Seq(Printable)
      <4>1. cli.output \in Optional(Text)
        BY CliAssumption DEF StartupInv, Cli
      <4>2. Text \subseteq Seq(Printable)
        BY DEF Text, Printable
      <4>3. QED
        BY <4>1, <4>2 DEF Optional
    <3>2. IsTag(tag)
      BY <2>1 DEF OutputInv
    <3>3. QED
      BY <3>1, <3>2, DefaultOutputIsName DEF Output, IsTag
  <2>4. QED
    BY <2>1, <2>2, <2>3 DEF OutputInv, IsTag
<1>5. CASE Over \/ UNCHANGED vars
  BY <1>5 DEF Over, vars, decided, OutputInv, Output
<1>6. QED
  BY <1>1, <1>2, <1>3, <1>4, <1>5 DEF Next

(* The tag and the output's name are made as SetTag makes them, along every
   behaviour. *)
THEOREM OutputInvariant == Spec => []OutputInv
<1>1. Init => OutputInv
  BY DEF Init, OutputInv
<1>2. QED
  BY <1>1, OutputInductive, StartupInvariant, PTL DEF Spec

(* The report goes to the path that is given, or to a name that is one
   component. *)
THEOREM OutputIsAsAskedCorrect == Spec => []OutputIsAsAsked
<1>1. StartupInv /\ OutputInv => OutputIsAsAsked
  <2> SUFFICES ASSUME StartupInv, OutputInv, pc = "loop" PROVE OutputIsAsAsked
    BY DEF OutputIsAsAsked
  <2>1. IsTag(tag) /\ output = Output(tag) /\ OutputAllowed
    BY DEF StartupInv, OutputInv, Later
  <2>2. CASE cli.output # None
    BY <2>1, <2>2 DEF Output, OutputAllowed, ValidOutputPath, OutputIsAsAsked
  <2>3. CASE cli.output = None
    <3>1. output = DefaultOutput(tag)
      BY <2>1, <2>3 DEF Output
    <3>2. IsTag(output) /\ ~HasParentDir(output)
      BY <2>1, <3>1, DefaultOutputIsName
    <3>3. QED
      BY <2>3, <3>2 DEF OutputIsAsAsked, IsTag
  <2>4. QED
    BY <2>2, <2>3
<1>2. QED
  BY <1>1, StartupInvariant, OutputInvariant, PTL

(* Type correctness. *)
THEOREM StartupTypeCorrect == Spec => []StartupTypeOK
<1> DEFINE TypeInv == provider \in BOOLEAN /\ contacted \in BOOLEAN /\ url \in Url /\ shown \in Url
                      /\ warned \subseteq {"insecure", "flush"}
<1>1. Init => TypeInv
  BY CliAssumption DEF Init, Cli
<1>2. StartupInv /\ StartupInv' /\ TypeInv /\ [Next]_vars => TypeInv'
  <2> SUFFICES ASSUME StartupInv, StartupInv', TypeInv, [Next]_vars PROVE TypeInv'
    OBVIOUS
  <2>1. CASE BuildUrl
    <3>1. CanBuild(cli) => BuiltUrl(cli) \in Url
      BY CliAssumption, BuiltComponents DEF StartupInv
    <3>2. \A u \in Url : Redacted(u) \in Url
      BY SetPassword DEF Redacted, Optional
    <3>3. QED
      BY <2>1, <3>1, <3>2 DEF BuildUrl
  <2>2. CASE Next /\ ~BuildUrl
    BY <2>2 DEF Next, InstallProvider, Validate, Warn, CheckOutput, ParseSpecs, UseGivenTag,
                FetchTag, SetTag, Connect, Over, vars, decided, Opens
  <2>3. QED
    BY <2>1, <2>2 DEF vars, decided
<1>3. StartupInv /\ OutputInv /\ TypeInv => StartupTypeOK
  <2> SUFFICES ASSUME StartupInv, OutputInv, TypeInv PROVE StartupTypeOK
    OBVIOUS
  <2>1. output \in Seq(Printable)
    <3>1. cli.output # None => cli.output \in Seq(Printable)
      <4>1. cli.output \in Optional(Text)
        BY CliAssumption DEF StartupInv, Cli
      <4>2. Text \subseteq Seq(Printable)
        BY DEF Text, Printable
      <4>3. QED
        BY <4>1, <4>2 DEF Optional
    <3>2. IsTag(tag) => DefaultOutput(tag) \in Seq(Printable)
      BY DefaultOutputIsName DEF IsTag
    <3>3. QED
      BY <3>1, <3>2 DEF OutputInv, Output
  <2>2. cli \in Cli /\ tag \in Seq(Printable)
    BY CliAssumption DEF StartupInv, OutputInv
  <2>3. QED
    BY <2>1, <2>2 DEF StartupInv, StartupTypeOK, Unchecked, Later, Printable
<1>4. QED
  BY <1>1, <1>2, <1>3, StartupInvariant, OutputInvariant, PTL DEF Spec

-----------------------------------------------------------------------------
(* The digits of a percentile spec. *)

\* What the library's fold computes, element by element from the last.
FoldsFrom(g, digits) ==
  g = [s \in SUBSET DOMAIN digits |->
         IF s = {} THEN 0 ELSE 10 * g[s \ {Max(s)}] + digits[Max(s)]]

LEMMA NumberFolds ==
  ASSUME NEW digits, NEW g, FoldsFrom(g, digits)
  PROVE  \E h : FoldsFrom(h, digits) /\ Number(digits) = h[DOMAIN digits]
BY Zenon DEF FoldsFrom, Number, FoldLeft, MapThenFoldSet

\* The fold is defined up to k.
FoldedTo(g, digits, k) ==
  /\ g \in [SUBSET (1 .. k) -> Nat]
  /\ g[{}] = 0
  /\ \A s \in SUBSET (1 .. k) : s # {} => g[s] = 10 * g[s \ {Max(s)}] + digits[Max(s)]

LEMMA MaxIs ==
  ASSUME NEW s \in SUBSET Nat, NEW m \in s, \A x \in s : x <= m
  PROVE  Max(s) = m
<1> DEFINE largest == CHOOSE x \in s : \A y \in s : x >= y
<1>1. \A y \in s : m >= y
  OBVIOUS
<1>2. largest \in s /\ \A y \in s : largest >= y
  BY <1>1, Zenon
<1>3. largest \in Nat /\ m \in Nat /\ largest >= m /\ m >= largest
  <2> HIDE DEF largest
  <2> QED BY <1>1, <1>2
<1>4. largest = m
  <2> HIDE DEF largest
  <2> QED BY <1>3
<1> QED
  BY <1>4 DEF Max

LEMMA FoldExists ==
  ASSUME NEW n \in Nat, NEW digits \in [1 .. n -> Digits]
  PROVE  \E g : FoldedTo(g, digits, n)
<1> DEFINE S == {k \in Nat : k <= n => \E g : FoldedTo(g, digits, k)}
<1>1. 0 \in S
  <2> DEFINE g == [s \in SUBSET (1 .. 0) |-> 0]
  <2>1. SUBSET (1 .. 0) = {{}}
    OBVIOUS
  <2>2. g \in [SUBSET (1 .. 0) -> Nat] /\ g[{}] = 0
    BY <2>1
  <2>3. FoldedTo(g, digits, 0)
    <3> HIDE DEF g
    <3> QED BY <2>1, <2>2 DEF FoldedTo
  <2> QED
    BY <2>3
<1>2. ASSUME NEW k \in Nat, k \in S
      PROVE  k + 1 \in S
  <2> SUFFICES ASSUME k + 1 <= n
               PROVE  \E g : FoldedTo(g, digits, k + 1)
    OBVIOUS
  <2>1. PICK g : FoldedTo(g, digits, k)
    BY <1>2
  <2> DEFINE h == [s \in SUBSET (1 .. k + 1) |->
               IF k + 1 \in s THEN 10 * g[s \ {k + 1}] + digits[k + 1] ELSE g[s]]
  <2>2. digits[k + 1] \in Nat
    BY DEF Digits
  <2>3. ASSUME NEW s \in SUBSET (1 .. k + 1)
        PROVE  /\ s \ {k + 1} \in SUBSET (1 .. k)
               /\ k + 1 \notin s => s \in SUBSET (1 .. k)
    OBVIOUS
  <2>4. \A s \in SUBSET (1 .. k) : g[s] \in Nat
    BY <2>1 DEF FoldedTo
  <2>5. h \in [SUBSET (1 .. k + 1) -> Nat]
    BY <2>2, <2>3, <2>4
  <2>6. h[{}] = 0
    BY <2>1 DEF FoldedTo
  <2>7. ASSUME NEW s \in SUBSET (1 .. k + 1), s # {}
        PROVE  h[s] = 10 * h[s \ {Max(s)}] + digits[Max(s)]
    <3>1. CASE k + 1 \in s
      <4>1. Max(s) = k + 1
        <5>1. s \in SUBSET Nat /\ \A x \in s : x <= k + 1
          OBVIOUS
        <5> QED
          BY <3>1, <5>1, MaxIs
      <4>2. h[s \ {k + 1}] = g[s \ {k + 1}]
        BY <2>3
      <4> QED
        BY <3>1, <4>1, <4>2
    <3>2. CASE k + 1 \notin s
      <4> DEFINE t == s \ {Max(s)}
      <4>1. s \in SUBSET (1 .. k) /\ t \in SUBSET (1 .. k + 1) /\ k + 1 \notin t
        BY <2>3, <3>2
      <4>2. h[s] = g[s] /\ h[t] = g[t]
        BY <3>2, <4>1
      <4>3. g[s] = 10 * g[t] + digits[Max(s)]
        BY <2>1, <2>7, <4>1 DEF FoldedTo
      <4> QED
        BY <4>2, <4>3
    <3> QED
      BY <3>1, <3>2
  <2>8. FoldedTo(h, digits, k + 1)
    <3> HIDE DEF h
    <3> QED BY <2>5, <2>6, <2>7 DEF FoldedTo
  <2> QED
    BY <2>8
<1>3. \A k \in Nat : k \in S
  <2> HIDE DEF S
  <2> QED BY <1>1, <1>2, InductionOnSet
<1> QED
  BY <1>3

\* The number of a numeral is what its digits spell.
LEMMA NumberSpells ==
  ASSUME NEW n \in Nat, NEW digits \in [1 .. n -> Digits]
  PROVE  \E v : Spells(v, digits, n) /\ Number(digits) = v[n]
<1>0. DOMAIN digits = 1 .. n
  OBVIOUS
<1>1. PICK g : FoldedTo(g, digits, n)
  BY FoldExists
<1>2. FoldsFrom(g, digits)
  <2>1. g = [s \in SUBSET (1 .. n) |-> g[s]]
    BY <1>1 DEF FoldedTo
  <2>2. \A s \in SUBSET (1 .. n) :
          g[s] = IF s = {} THEN 0 ELSE 10 * g[s \ {Max(s)}] + digits[Max(s)]
    BY <1>1 DEF FoldedTo
  <2> QED
    BY <1>0, <2>1, <2>2 DEF FoldsFrom
<1>3. PICK h : FoldsFrom(h, digits) /\ Number(digits) = h[1 .. n]
  BY <1>0, <1>2, NumberFolds
<1>4. h[{}] = 0
  BY <1>0, <1>3 DEF FoldsFrom
<1>5. ASSUME NEW j \in 0 .. n - 1
      PROVE  h[1 .. j + 1] = 10 * h[1 .. j] + digits[j + 1]
  <2>1. (1 .. j + 1) \in SUBSET (1 .. n) /\ 1 .. j + 1 # {} /\ j + 1 \in 1 .. j + 1
    <3>1. j \in Nat /\ j + 1 \in Nat /\ j + 1 >= 1 /\ j + 1 <= n
      OBVIOUS
    <3>2. j + 1 \in 1 .. j + 1
      BY <3>1
    <3>3. \A x \in 1 .. j + 1 : x \in 1 .. n
      BY <3>1
    <3> QED
      BY <3>2, <3>3, Zenon
  <2>2. Max(1 .. j + 1) = j + 1
    <3>1. (1 .. j + 1) \in SUBSET Nat /\ \A x \in 1 .. j + 1 : x <= j + 1
      OBVIOUS
    <3> QED
      BY <2>1, <3>1, MaxIs
  <2>3. (1 .. j + 1) \ {j + 1} = 1 .. j
    OBVIOUS
  <2>4. h[1 .. j + 1] = 10 * h[(1 .. j + 1) \ {Max(1 .. j + 1)}] + digits[Max(1 .. j + 1)]
    BY <1>0, <1>3, <2>1 DEF FoldsFrom
  <2> QED
    BY <2>2, <2>3, <2>4
<1> DEFINE v == [j \in 0 .. n |-> h[1 .. j]]
           S == {j \in Nat : j <= n => h[1 .. j] \in Nat}
<1>6. 0 \in S
  BY <1>4
<1>7. ASSUME NEW j \in Nat, j \in S
      PROVE  j + 1 \in S
  <2> SUFFICES ASSUME j + 1 <= n PROVE h[1 .. j + 1] \in Nat
    OBVIOUS
  <2>1. j \in 0 .. n - 1 /\ h[1 .. j] \in Nat /\ digits[j + 1] \in Nat
    BY <1>7 DEF Digits
  <2> QED
    BY <1>5, <2>1
<1>8. \A j \in Nat : j \in S
  <2> HIDE DEF S
  <2> QED BY <1>6, <1>7, InductionOnSet
<1>9. v \in [0 .. n -> Nat]
  BY <1>8
<1>10. v[0] = 0 /\ \A j \in 0 .. n - 1 : v[j + 1] = 10 * v[j] + digits[j + 1]
  <2>1. 1 .. 0 = {}
    OBVIOUS
  <2> QED
    BY <1>4, <1>5, <2>1
<1>11. v[n] = Number(digits)
  BY <1>3
<1> QED
  <2> HIDE DEF v
  <2> QED BY <1>9, <1>10, <1>11 DEF Spells

\* A numeral whose power of ten fits reads as the decimals it spells.
LEMMA QuantileReadsAs ==
  ASSUME NEW s, s.rest \in Seq(Digits), Pow(10, Len(s.rest)) < Pow(2, Width)
  PROVE  ReadsAs(Quantile(s), s.rest)
<1> DEFINE digits == s.rest
           n == Len(digits)
<1>1. n \in Nat /\ digits \in [1 .. n -> Digits] /\ DOMAIN digits = 1 .. n
  OBVIOUS
<1>2. Numeral(digits) = digits
  <2>1. digits # <<>> => digits[1] \in Digits
    BY <1>1
  <2>2. Plus \notin Digits
    BY DEF Plus, Digits
  <2> QED
    BY <2>1, <2>2 DEF Numeral
<1>3. Divisor(digits) = Pow(10, n)
  <2>1. Pow(10, n) \in Nat /\ Pow(2, Width) \in Nat
    <3>1. 2 \in Nat /\ Width \in Nat
      BY WidthAssumption
    <3> QED
      BY <1>1, <3>1, PowersOfTen, PowLaws, Zenon
  <2>2. Pow(10, n) % Pow(2, Width) = Pow(10, n)
    BY <2>1, SmallRemainder
  <2> QED
    BY <2>2 DEF Divisor
<1>4. PICK v : Spells(v, digits, n) /\ Number(digits) = v[n]
  BY <1>1, NumberSpells
<1>5. Quantile(s) = [n |-> v[n], divisor |-> Pow(10, n)]
  BY <1>2, <1>3, <1>4 DEF Quantile
<1>6. /\ v[n] < Pow(10, n)
      /\ \A i \in 1 .. n : ((v[n] * Pow(10, i)) \div Pow(10, n)) % 10 = digits[i]
      /\ (v[n] * Pow(10, n)) % Pow(10, n) = 0
  <2> HIDE DEF digits, n
  <2>1. digits \in [1 .. n -> 0 .. 9]
    BY <1>1 DEF Digits
  <2> QED
    BY <1>1, <1>4, <2>1, DecimalPlaces
<1> HIDE DEF digits, n
<1>7. ReadsAs([n |-> v[n], divisor |-> Pow(10, n)], digits)
  BY <1>1, <1>6 DEF ReadsAs, n
<1> QED
  BY <1>5, <1>7 DEF digits

(* parse_percentile_spec reads a spec of digits as the decimal fraction it
   spells, however many digits it has and whatever the width of the integers,
   as long as the power of ten fits (main.rs:347-374). *)
THEOREM SpecsReadAsDecimalsCorrect == Spec => []SpecsReadAsDecimals
<1>1. SpecsReadAsDecimals
  BY QuantileReadsAs DEF SpecsReadAsDecimals
<1> QED
  BY <1>1, PTL
=============================================================================
