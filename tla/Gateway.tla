------------------------------ MODULE Gateway ------------------------------
(***************************************************************************)
(* The provider as a server (src/server/int, src/server/cmd and            *)
(* src/server/pkg/mns): it boots, it resolves the domain of each request,  *)
(* it refuses what the lists of its configuration exclude, and it answers  *)
(* with a resource (Provider) or with a page of its own.  It may stop at   *)
(* any time, and boot again with another configuration.                    *)
(*                                                                         *)
(* One domain is looked at, with the website of Provider and other targets *)
(* in turn.  The texts of the pages, and what is injected into them, are   *)
(* left out.                                                               *)
(***************************************************************************)
EXTENDS Provider

CONSTANTS
  Domain,      \* the domain
  Address,     \* the address of the website
  NotAnAddress,\* targets of the domain that are not addresses
  Others,      \* other addresses and domains
  ConfigFiles  \* the configuration files: None is no file, or no such field

ASSUME GatewayAssumption ==
  /\ Address \notin NotAnAddress \cup Others /\ Domain \notin Others /\ None \notin NotAnAddress \cup {Address}
  /\ ConfigFiles \subseteq {None} \cup
       [cache : BOOLEAN \cup {None}, allowOffline : BOOLEAN \cup {None},
        allow : (SUBSET ({Domain, Address} \cup Others)) \cup {None},
        block : (SUBSET ({Domain, Address} \cup Others)) \cup {None}]

VARIABLES
  server,     \* what the server does: it is down, asks the user, loads its configuration, or is up
  attempts,   \* the answers of the user that were neither yes nor no
  accepted,   \* the stored hashes are the ones of the legal files of this version
  online,     \* NodeURL and ChainID are known
  mnsCache    \* the cached target of the domain

serverVars == <<server, attempts, accepted, online>>
gatewayVars == <<server, attempts, accepted, online, mnsCache,
                 files, globalMeta, version, toInit, late, toPost, cached, list, conf, req>>

Targets == {Address} \cup NotAnAddress

\* What the server does without a file, and for the fields that the file leaves out.
DefaultConfig == [cache |-> TRUE, allowOffline |-> FALSE, allow |-> {}, block |-> {}]

\* LoadConfigWhitoutNodeFetchedData.
Loaded(file) ==
  IF file = None THEN DefaultConfig
  ELSE [field \in DOMAIN DefaultConfig |->
          IF file[field] = None THEN DefaultConfig[field] ELSE file[field]]

Init ==
  /\ files = [f \in Files |-> Site!NoFile] /\ globalMeta = [m \in MetaKeys |-> None]
  /\ version = 0 /\ toInit = {} /\ late = {} /\ toPost = {}
  /\ cached = [f \in Files |-> None] /\ list = None
  /\ conf = DefaultConfig
  /\ req = [r \in Requests |-> Idle] /\ calm = {}
  /\ server = "down" /\ attempts = 0 /\ accepted = FALSE /\ online = FALSE
  /\ mnsCache = None

-----------------------------------------------------------------------------
(* Booting.                                                                *)

bootUnchanged == UNCHANGED <<chainVars, cached, list, req, mnsCache>>

\* HandleDisclaimer: what was accepted before is not shown again.  The flag of
\* main that skips it, "for CI purposes", is left out.
Boots ==
  /\ server = "down"
  /\ server' = IF accepted THEN "loading" ELSE "asking"
  /\ UNCHANGED <<attempts, accepted, online, conf>> /\ bootUnchanged

\* The hashes are stored, or that fails and the server exits.
Accepts ==
  /\ server = "asking"
  /\ \/ server' = "loading" /\ accepted' = TRUE
     \/ server' = "down" /\ accepted' = accepted
  /\ attempts' = 0
  /\ UNCHANGED <<online, conf>> /\ bootUnchanged

\* An answer that is neither yes nor no: three of them are a no.
AsksAgain ==
  /\ server = "asking"
  /\ attempts' = (attempts + 1) % 3
  /\ server' = IF attempts' = 0 THEN "down" ELSE "asking"
  /\ UNCHANGED <<accepted, online, conf>> /\ bootUnchanged

\* No, or nothing can be read from the terminal.
Refuses ==
  /\ server = "asking" /\ server' = "down" /\ attempts' = 0
  /\ UNCHANGED <<accepted, online, conf>> /\ bootUnchanged

\* LoadServerConfig and NewAPI: the cache is what the last server left, all
\* else is new.  The node is asked for its status; without an answer the server
\* goes on offline, if it may, and without the URL of the node.
Loads(file, answers) ==
  /\ server = "loading"
  /\ conf' = Loaded(file)
  /\ online' = answers
  /\ server' = IF answers \/ Loaded(file).allowOffline THEN "up" ELSE "down"
  /\ UNCHANGED <<attempts, accepted>> /\ bootUnchanged

\* The server stops or dies.  What the cache loses then it may lose at any time.
Stops ==
  /\ server = "up" /\ server' = "down"
  /\ req' = [r \in Requests |-> Idle]
  /\ list' = None /\ mnsCache' = None
  /\ UNCHANGED <<chainVars, attempts, accepted, online, conf, cached>>

\* The next version of the server comes with other legal files.
IsUpgraded ==
  /\ server = "down" /\ accepted /\ accepted' = FALSE
  /\ UNCHANGED <<server, attempts, online, conf>> /\ bootUnchanged

-----------------------------------------------------------------------------
(* What comes before a request is served.                                  *)

gateUnchanged == UNCHANGED <<chainVars, serverVars, conf, cached, list>>

\* Requests without a subdomain, and the information about the server.
OwnPages == {"home", "redirect", "info"}

ServesOwnPage(r, page) ==
  /\ server = "up" /\ At(r, "idle")
  /\ Ends(r, Page(page))
  /\ UNCHANGED mnsCache /\ gateUnchanged

\* isWebsiteAllowed.
IsAllowed(c, address) ==
  /\ c.block \cap {address, Domain} = {}
  /\ c.allow = {} \/ c.allow \cap {address, Domain} # {}

\* The request q is for this address: it is served, or it is not.
Admits(r, q, address) ==
  LET done(page) == [q EXCEPT !.at = "done", !.target = address, !.answer = Page(page)]
  IN  \/ address \in NotAnAddress /\ Goes(r, done("broken"))
      \/ /\ address \notin NotAnAddress /\ ~IsAllowed(conf, address)
         /\ Goes(r, done("notAvailable"))
      \/ /\ address \notin NotAnAddress /\ IsAllowed(conf, address)
         /\ Goes(r, [q EXCEPT !.at = "exists", !.target = address])

\* SubdomainMiddleware: the target is cached, or has to be resolved.
Arrives(r, name) ==
  LET q == [Idle EXCEPT !.name = name]
  IN  /\ server = "up" /\ At(r, "idle")
      /\ \/ mnsCache # None /\ Admits(r, q, mnsCache)
         \/ mnsCache = None /\ Goes(r, [q EXCEPT !.at = "resolve"])
      /\ UNCHANGED mnsCache /\ gateUnchanged

\* The owner of the domain may change its target at any time.
Resolves(r, address) ==
  /\ At(r, "resolve") /\ online
  /\ Goes(r, [req[r] EXCEPT !.at = "resolved", !.target = address])
  /\ UNCHANGED mnsCache /\ gateUnchanged

\* Resolving fails; offline it always does, as the chain is unknown.
ResolveFails(r) ==
  /\ At(r, "resolve")
  /\ Ends(r, Page("notFound"))
  /\ UNCHANGED mnsCache /\ gateUnchanged

\* The cache of targets is there when the cache of resources is.
Caches(r) ==
  /\ At(r, "resolved")
  /\ mnsCache' = IF conf.cache THEN req[r].target ELSE None
  /\ Admits(r, req[r], req[r].target)
  /\ gateUnchanged

MnsExpires ==
  /\ mnsCache # None /\ mnsCache' = None
  /\ UNCHANGED req /\ gateUnchanged

-----------------------------------------------------------------------------
Unserved == UNCHANGED <<serverVars, mnsCache>>

\* A step of the provider that is not a failure.
Serves(r) ==
  \/ /\ Unserved
     /\ \/ ListHit(r) \/ ListMiss(r) \/ ListFilled(r) \/ ReadsKeys(r) \/ ReadsValues(r)
        \/ StoresList(r) \/ LooksAgain(r) \/ ReadsUpdate(r) \/ ReadsModified(r) \/ ReadsCached(r)
        \/ DeletesCached(r) \/ ReadsCount(r) \/ ReadsChunks(r) \/ ReadsHeaderKeys(r)
        \/ ReadsHeaders(r) \/ Saves(r) \/ SavesNothing(r)
  \/ Caches(r) \/ \E address \in Targets : Resolves(r, address)

Fails(r) == ResolveFails(r) \/ (ReadFails(r) /\ Unserved)

Comes(r) == (\E page \in OwnPages : ServesOwnPage(r, page)) \/ \E name \in Names : Arrives(r, name)

Publisher ==
  /\ \/ Publishes
     \/ PublishesRest
     \/ \E p \in toPost : Posts(p)
  /\ Unserved

Passes ==
  \/ ListExpires /\ Unserved
  \/ (\E f \in Files : Forgets(f)) /\ Unserved
  \/ MnsExpires

Server ==
  \/ Boots \/ Accepts \/ AsksAgain \/ Refuses \/ Stops \/ IsUpgraded
  \/ \E file \in ConfigFiles, answers \in BOOLEAN : Loads(file, answers)

\* Nothing interferes with a request: the website does not change, the list of
\* files is the website's and does not expire between its storing and its
\* lookup, and no other request caches a resource that is already outdated.
Undisturbed(r) ==
  /\ UNCHANGED <<files, globalMeta>>
  /\ list' \in {None, Listed'}
  /\ At(r, "listed") => list' = list
  /\ \A f \in Files : cached'[f] \notin {cached[f], None} => cached'[f].modified = version

Next ==
  \/ /\ \/ \E r \in Requests : Comes(r) \/ Serves(r) \/ (Leaves(r) /\ Unserved)
        \/ Publisher \/ Passes \/ Server
     /\ calm' = {r \in Requests : /\ r \in calm \/ At(r, "idle")
                                  /\ req'[r].at # "idle" /\ Undisturbed(r)}
  \/ \E r \in Requests :
       /\ Fails(r)
       /\ calm' = {q \in calm \ {r} : Undisturbed(q)}

Spec == Init /\ [][Next]_<<gatewayVars, calm>>

-----------------------------------------------------------------------------
(* Properties.                                                             *)

Entries == [content : Seq(Data), header : Headers \cup {None, "empty"}, modified : DOMAIN Versions]

\* The type of the state.  Requests are served only while the server is up, which
\* it is only with the consent of the user, and a request looks at the cache only
\* when it knows the time of the last update.
TypeOK ==
  /\ Site!TypeOK
  /\ version \in 0 .. Len(Versions) /\ toInit \cup late \subseteq Files
  /\ cached \in [Files -> Entries \cup {None}]
  /\ list = None \/ list \subseteq Files
  /\ conf \in {Loaded(file) : file \in ConfigFiles \cup {None}}
  /\ server \in {"down", "asking", "loading", "up"} /\ attempts \in 0 .. 2
  /\ server \in {"loading", "up"} => accepted
  /\ mnsCache \in Targets \cup {None}
  /\ calm \subseteq Requests
  /\ \A r \in Requests :
       /\ req[r].at # "idle" => server = "up"
       /\ req[r].at \in {"modified", "hit", "outdated"} => req[r].lu \in DOMAIN Versions
       /\ Len(req[r].content) <= req[r].count

\* A cached resource whose time is the one of the website's last update is the
\* resource of that update: neither an older one nor a mixture of two, whatever
\* the publisher does while requests fetch it, and across restarts.  This is not
\* so for the files that the first call of filesInit left as they were.
CacheTruthful ==
  \A f \in Files \ late :
    cached[f] # None /\ cached[f].modified = version =>
      cached[f].content = Content(version)[f]

\* What the website has under this name: the first of the names tried that
\* exists, if its chunks are all there.
Expected(name) ==
  LET existing == {i \in DOMAIN Tries(name) : Tries(name)[i] \in Listed}
      f == Tries(name)[Min(existing)]
      n == files[f].count
  IN  IF existing = {} THEN Page("broken")
      ELSE IF n = 0 \/ \E i \in 0 .. n - 1 : files[f].chunks[i] = None THEN Page("broken")
      ELSE Answer("content", [i \in 1 .. n |-> files[f].chunks[i - 1]],
                  IF files[f].meta[Header] # None THEN files[f].meta[Header] ELSE globalMeta[Header])

Right(r) ==
  req[r].answer = IF req[r].target \in NotAnAddress THEN Page("broken")
                  ELSE IF ~IsAllowed(conf, req[r].target) THEN Page("notAvailable")
                  ELSE Expected(req[r].name)

\* A request that nothing interferes with, and no failure of the node, is
\* answered with what the website has now, from the cache or not, or with the
\* page that says why not; but for the files that are declared late.
CalmServed ==
  \A r \in calm :
    At(r, "done") /\ req[r].target # None /\ late \cap ToSet(Tries(req[r].name)) = {} => Right(r)

\* Once a website is wholly published a request that nothing interferes with gets
\* what was published, for any file: what is outdated is found to be so.
PublishedIsServed ==
  toInit = {} /\ toPost = {} =>
    \A r \in calm : At(r, "done") /\ req[r].target # None => Right(r)
=============================================================================
