------------------------------ MODULE RedisUrl ------------------------------
(***************************************************************************)
(* Which server, and how: the command line (Cli in main.rs), the URL that  *)
(* build_redis_url makes of it, and what its helpers and redis-rs read     *)
(* from that URL.                                                          *)
(*                                                                         *)
(* Abstraction: a URL is the record of its components; percent-encoding    *)
(* and user names are left out.  A scheme may be spelled in capitals, a    *)
(* text may be no URL at all, and a path is empty, a number or the name of *)
(* a socket.                                                               *)
(***************************************************************************)
EXTENDS Naturals

CONSTANTS
  None,       \* an argument or a component that is absent
  Hosts,      \* host names
  BadHost,    \* an argument set_host refuses
  Ports,
  Passwords,
  Hidden,     \* "****"
  Sockets     \* paths that are no number

ASSUME UrlAssumption ==
  /\ None \notin Nat \union Hosts \union Ports \union Passwords
                     \union Sockets \union {Hidden, "insecure"}
  /\ BadHost \notin Hosts
  /\ Sockets \intersect Nat = {}

Optional(S) == S \union {None}

\* "unix" is also for redis+unix and valkey+unix.
Url == [scheme : {"redis", "rediss", "REDISS", "valkey", "valkeys", "unix", "other", "no url"},
        host : Optional(Hosts), port : Optional(Ports), password : Optional(Passwords \union {Hidden}),
        path : Optional(Nat \union Sockets), db : Optional(Nat),
        fragment : Optional({"insecure", "other"})]

-----------------------------------------------------------------------------
(* The url crate. *)

Parses(u) == u.scheme # "no url"

\* Parsing turns a scheme into small letters.
Parsed(u) == IF u.scheme = "REDISS" THEN [u EXCEPT !.scheme = "rediss"] ELSE u

-----------------------------------------------------------------------------
(* parsed_scheme and resolves_to_tls_scheme. *)

ParsedScheme(u) == IF Parses(u) THEN Parsed(u).scheme ELSE None

(* Mutated form of ResolvesToTls: --tls alone decides, whatever the scheme. *)
ResolvesToTlsByFlag(cli) == cli.tls \/ ParsedScheme(cli.url) = "rediss"

ResolvesToTls(cli) ==
  \/ ParsedScheme(cli.url) = "rediss"
  \/ cli.tls /\ ParsedScheme(cli.url) = "redis"

-----------------------------------------------------------------------------
(* build_redis_url, one operator for each of its parts, in its order. *)

\* The components the flags replace, where they are given.
WithHost(u, cli) == IF cli.host = None THEN u ELSE [u EXCEPT !.host = cli.host]
WithPort(u, cli) == IF cli.port = None THEN u ELSE [u EXCEPT !.port = cli.port]
WithPassword(u, cli) ==
  IF cli.password = None THEN u ELSE [u EXCEPT !.password = cli.password]

WithTls(u, cli) ==
  IF cli.tls /\ u.scheme = "redis" THEN [u EXCEPT !.scheme = "rediss"] ELSE u

(* Decided by the URL that was given, before anything is replaced in it. *)
WithInsecure(u, cli) ==
  IF cli.insecure /\ ResolvesToTls(cli) THEN [u EXCEPT !.fragment = "insecure"] ELSE u

(* Mutated form of WithDb: --db counts only for a URL without a path. *)
WithDbIfMissing(u, cli) ==
  IF u.path # None THEN u
  ELSE [u EXCEPT !.path = IF cli.db = None THEN 13 ELSE cli.db]

(* --db replaces whatever path there is; only an empty one becomes 13. *)
WithDb(u, cli) ==
  IF cli.db # None THEN [u EXCEPT !.path = cli.db]
  ELSE IF u.path = None THEN [u EXCEPT !.path = 13]
  ELSE u

BuiltUrl(cli) ==
  LET endpoint == WithPort(WithHost(Parsed(cli.url), cli), cli)
      secured == WithInsecure(WithTls(endpoint, cli), cli)
  IN WithDb(WithPassword(secured, cli), cli)

(* The errors: no URL, no host name, and a port or a password where there is
   no host to put it at. *)
CanBuild(cli) ==
  /\ Parses(cli.url)
  /\ cli.host # BadHost
  /\ (cli.port # None \/ cli.password # None) => WithHost(cli.url, cli).host # None

-----------------------------------------------------------------------------
(* What the program reads from the URL it has built. *)

DisablesCertVerification(u) == u.scheme = "rediss" /\ u.fragment = "insecure"

\* redact_url: for the terminal and the report.
Redacted(u) == IF u.password = None THEN u ELSE [u EXCEPT !.password = Hidden]

(* The database number of main()'s warning: a path that is no u8 counts as 0. *)
DbInUrl(u) == IF u.path \in 0 .. 255 THEN u.path ELSE 0

-----------------------------------------------------------------------------
(* redis-rs.  It knows the schemes of Valkey too, which the program does not. *)

UsesTls(u) == u.scheme \in {"rediss", "valkeys"}
SkipsVerification(u) == UsesTls(u) /\ u.fragment = "insecure"

\* The URLs from which Client::open makes connection parameters.
Opens(u) ==
  \/ /\ u.scheme \in {"redis", "rediss", "valkey", "valkeys"}
     /\ UsesTls(u) => u.fragment # "other"
     /\ u.host # None
     /\ u.path \in Optional(Nat)
  \/ /\ u.scheme = "unix"
     /\ u.host = None
     /\ u.path # None

\* The URLs at which a server can answer: no socket has a number for a name.
Reaches(u) == Opens(u) /\ (u.scheme = "unix" => u.path \in Sockets)

(* The database: the path of a TCP URL, the ?db= of a socket's. *)
Db(u) ==
  CASE u.scheme = "unix" /\ u.db # None -> u.db
    [] u.scheme # "unix" /\ u.path # None -> u.path
    [] OTHER -> 0
=============================================================================
