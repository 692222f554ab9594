------------------------------- MODULE Startup -------------------------------
(***************************************************************************)
(* How a process comes up: startServer of src/cmd/root.go asks the         *)
(* container of src/di for the server, which calls the constructors of     *)
(* what it needs, once each and one after the other. The first error ends  *)
(* the process.                                                            *)
(*                                                                         *)
(* A constructor may publish health checkers. The router collects them,    *)
(* and its endpoint /healthcheck consists of those it found.               *)
(***************************************************************************)
EXTENDS Sequences

\* The commands serve and worker, and which modules they enable.
Modules == [serve |-> {"skinsystem", "api"}, worker |-> {"worker"}]

\* A url in the configuration: unset, one that parses, one that does not.
Urls == {"", "valid", "invalid"}

\* The configuration, and whether what it names is usable.
Configs ==
  [command   : DOMAIN Modules,
   reporters : BOOLEAN,                            \* sentry.dsn and statsd.addr
   api       : Urls, session : Urls,               \* mojang.api_base_url, .session_server_base_url
   enabled   : BOOLEAN,                            \* mojang_textures.enabled
   driver    : {"remote", "local"},                \* mojang_textures.uuids_provider.driver
   remote    : BOOLEAN,                            \* mojang_textures.uuids_provider.url
   strategy  : {"periodic", "full-bus", "other"},  \* queue.strategy
   redis     : BOOLEAN,                            \* storage.redis
   key       : BOOLEAN,                            \* chrly.signing.key
   secret    : BOOLEAN]                            \* chrly.secret

VARIABLES config,
          todo,      \* the constructors that have not been called
          process,   \* starting, running or exited
          address,   \* whose url mojang.go uses for each of its servers
          published, \* the checkers in the container
          endpoint   \* the checkers of /healthcheck

vars == << config, todo, process, address, published, endpoint >>

\* What newHandlerFactory resolves: the skinsystem, the worker, the api, each
\* with what its constructor takes, and the health checkers last.
Resolved(c) ==
  LET enabled  == Modules[c.command]
      If(module, constructors) == IF module \in enabled THEN constructors ELSE << >>
      provider == IF c.enabled THEN << IF c.driver = "remote" THEN "remote" ELSE "batch" >> ELSE << >>
  IN  If("skinsystem", << "redis" >> \o provider \o << "signer" >>)
      \o If("worker", << "batch" >>)
      \o If("api", << "authenticator" >>)

\* Mutant of Constructors: the router begins with its own routes.
ConstructorsLast(c) == << "reporters", "urls", "checkers" >> \o Resolved(c)

\* The constructors, in the order in which they are called.
Constructors(c) == << "reporters", "urls" >> \o Resolved(c) \o << "checkers" >>

Init ==
  /\ config \in Configs
  /\ todo = Constructors(config)
  /\ process = "starting"
  /\ address = [api |-> "mojang", session |-> "mojang"]
  /\ published = {}
  /\ endpoint = {}

-----------------------------------------------------------------------------
(* The constructors *)

\* Is the constructor next?
Next_(constructor) == process = "starting" /\ todo # << >> /\ Head(todo) = constructor

\* It returns: with an error the process exits, otherwise the next one is called.
Returns(ok) == IF ok THEN todo' = Tail(todo) /\ UNCHANGED process
               ELSE process' = "exited" /\ UNCHANGED todo

\* It returns and has published its checkers, unless it failed.
Publishes(ok, checkers) ==
  /\ Returns(ok)
  /\ published' = IF ok THEN published \cup checkers ELSE published
  /\ UNCHANGED << config, address, endpoint >>

\* newSentry and newStatsReporter
Reporters == Next_("reporters") /\ Publishes(config.reporters, {})

\* interceptMojangApiUrls, which parses the url of the api for both servers.
InterceptMojangApiUrls ==
  /\ Next_("urls")
  /\ LET given == { s \in DOMAIN address : config[s] # "" }
     IN  /\ Returns(given # {} => config.api = "valid")
         /\ address' = [s \in DOMAIN address |-> IF s \in given THEN "api" ELSE address[s]]
  /\ UNCHANGED << config, published, endpoint >>

NewRedis == Next_("redis") /\ Publishes(config.redis, {"redis"})

\* newMojangTexturesBatchUUIDsProvider, with its strategy
NewBatchUuidsProvider ==
  /\ Next_("batch")
  /\ Publishes(config.strategy # "other", {"batch-response", "batch-queue-length"})

\* newMojangTexturesRemoteUUIDsProvider, which publishes the checker of textures.
NewRemoteUuidsProvider ==
  /\ Next_("remote")
  /\ Publishes(config.remote, {"textures-response"})

NewTexturesSigner == Next_("signer") /\ Publishes(config.key, {})

NewAuthenticator == Next_("authenticator") /\ Publishes(config.secret, {})

\* The router collects the checkers there are.
CollectCheckers ==
  /\ Next_("checkers")
  /\ Returns(TRUE)
  /\ endpoint' = published
  /\ UNCHANGED << config, address, published >>

\* The container has built the server, and StartServer is called.
Run ==
  /\ process = "starting" /\ todo = << >>
  /\ process' = "running"
  /\ UNCHANGED << config, todo, address, published, endpoint >>

Next == Reporters \/ InterceptMojangApiUrls \/ NewRedis \/ NewBatchUuidsProvider
        \/ NewRemoteUuidsProvider \/ NewTexturesSigner \/ NewAuthenticator
        \/ CollectCheckers \/ Run

Spec == Init /\ [][Next]_vars

-----------------------------------------------------------------------------
(* Properties *)

\* Who uses redis and which provider is checked for it: nothing that a
\* constructor publishes is missing from the endpoint, whatever is enabled.
\* "Resolve health checkers last, because all the services required by the
\* application must first be initialized and each of them can publish its own
\* checkers" (src/di/handlers.go:83-84).
CheckersAreComplete ==
  process = "running" => endpoint = published

\* "New health checker, that ensures that response for textures provider from
\* Mojang's API is valid" (CHANGELOG.md:54). It is published by the provider of
\* remote uuids, so that with the local queue it is missing: TLC refutes this.
TexturesAreChecked ==
  process = "running" /\ config.command = "serve" /\ config.enabled
    => "textures-response" \in endpoint

\* "Allows you to spoof the Mojang's Session server address" (README.md:161-165).
\* The url that is parsed is the other one: TLC refutes this.
SessionServerIsSpoofed ==
  process = "running" /\ config.session # "" => address.session = "session"

=============================================================================
