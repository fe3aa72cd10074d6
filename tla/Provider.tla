------------------------------ MODULE Provider ------------------------------
(***************************************************************************)
(* How a provider gets a resource of a website (src/server/pkg/webmanager  *)
(* and src/server/pkg/website): requests that run side by side read the    *)
(* datastore of the website key by key, while its publisher changes it,    *)
(* and share the cache of resources and the list of the website's files.   *)
(*                                                                         *)
(* Each read from the node, each call of the cache is a step of its own.   *)
(* The cache is the map that CacheMap promises.  There is one website, the *)
(* contract of DewebSite; its publisher does what Cli does when nothing    *)
(* fails.  It may also give a file headers, as any account that calls the  *)
(* contract may; the command that changes metadata alone, and leaves       *)
(* LAST_UPDATE as it is, is left out.                                      *)
(***************************************************************************)
EXTENDS Integers, Sequences, FiniteSets, FiniteSetsExt, SequencesExt

CONSTANTS
  Requests,      \* the goroutines that serve requests
  Files,         \* the files that the website may have
  Names,         \* the names that are asked for
  Index,         \* the file "index.html"
  WithHtml,      \* the name with ".html" of a name that does not end so
  FetchBatch,    \* datastoreBatchSize
  Data, Headers, \* the contents of a chunk, and of the HTTP headers
  Header,        \* the key of the HTTP headers
  LastUpdate,    \* the key LAST_UPDATE
  MaxChunks,
  Versions,      \* what is published, one version after the other
  FileOrder,     \* the order in which the publisher reads its files
  BatchSize,     \* filesInit: how many files a call takes
  None

ASSUME ProviderAssumption ==
  /\ Index \in Files /\ FetchBatch \in Nat \ {0}
  /\ Header # LastUpdate /\ \A S \in SUBSET Files : S # None
  /\ DOMAIN WithHtml \subseteq Names /\ Index \notin DOMAIN WithHtml
  /\ BatchSize > 0 /\ \A f \in Files : \E i \in DOMAIN FileOrder : FileOrder[i] = f
  /\ Versions \in Seq([content : [Files -> Seq(Data)],
                       header : [Files -> Headers \cup {None}], globalHeader : Headers])
  /\ \A v \in DOMAIN Versions, f \in Files : Len(Versions[v].content[f]) <= MaxChunks

VARIABLES
  files, globalMeta,  \* the datastore of the website
  version,     \* the version that was published last, its LAST_UPDATE
  toInit,      \* the files of this version that filesInit has still to declare
  late,        \* those of its files that keep old content after the first call
  toPost,      \* the chunks of this version that have still to be sent
  cached,      \* the cache of resources
  list,        \* the cached list of files
  conf,        \* the configuration the server runs with
  req,         \* what each request does
  calm         \* history: the requests that nothing has interfered with

chainVars == <<files, globalMeta, version, toInit, late, toPost>>

MetaKeys == {Header, LastUpdate}
Site == INSTANCE DewebSite WITH
  code <- "website", owner <- "publisher", Callers <- {"publisher"}, Nobody <- "nobody",
  MetaValues <- Headers \cup DOMAIN Versions

ASSUME WebsiteAssumption == Site!SiteAssumption

Listed == {f \in Files : files[f].location}

-----------------------------------------------------------------------------
(* The publisher: Cli, in brief.                                           *)

Content(v) == IF v = 0 THEN [f \in Files |-> << >>] ELSE Versions[v].content

FileInits(v, S) ==
  [f \in S |-> [totalChunk |-> Len(Versions[v].content[f]),
                metadata   |-> IF Versions[v].header[f] = None THEN << >>
                               ELSE [m \in {Header} |-> Versions[v].header[f]]]]

\* The files that the next call of filesInit declares, when these have to be.
Batch(S) ==
  LET before(f) == {g \in S : \E i, k \in DOMAIN FileOrder :
                                 i < k /\ FileOrder[i] = g /\ FileOrder[k] = f}
  IN  {f \in S : Cardinality(before(f)) < BatchSize}

\* The first call of filesInit sets LAST_UPDATE and deletes what is gone.
Publishes ==
  LET v == version + 1
      changed == {f \in Files : Versions[v].content[f] \notin {<< >>, Content(version)[f]}}
      deleted == {f \in Files : Versions[v].content[f] = << >> /\ files[f].location}
  IN  /\ version < Len(Versions) /\ toInit = {} /\ toPost = {}
      /\ Site!FilesInit("publisher", {}, deleted,
                        [m \in MetaKeys |-> IF m = LastUpdate THEN v ELSE Versions[v].globalHeader],
                        FileInits(v, Batch(changed)))
      /\ version' = v
      /\ toInit' = changed \ Batch(changed) /\ late' = toInit' \cap Listed
      /\ toPost' = {p \in changed \X (0 .. MaxChunks - 1) : p[2] < Len(Versions[v].content[p[1]])}
      /\ UNCHANGED <<cached, list, conf, req>>

\* The next calls follow in their order.
PublishesRest ==
  /\ toInit # {}
  /\ Site!FilesInit("publisher", {}, {}, << >>, FileInits(version, Batch(toInit)))
  /\ toInit' = toInit \ Batch(toInit)
  /\ UNCHANGED <<version, late, toPost, cached, list, conf, req>>

Posts(p) ==
  /\ toInit = {} /\ p \in toPost
  /\ Site!UploadFileChunks("publisher", [q \in {p} |-> Versions[version].content[p[1]][p[2] + 1]])
  /\ toPost' = toPost \ {p}
  /\ UNCHANGED <<version, toInit, late, cached, list, conf, req>>

-----------------------------------------------------------------------------
(* A request.                                                              *)

\* resolveResourceName: the names that are tried; the last one is used even if
\* it does not exist.
Tries(name) ==
  LET named == IF name \in DOMAIN WithHtml THEN <<name, WithHtml[name]>> ELSE <<name>>
  IN  IF Index \in {named[i] : i \in DOMAIN named} THEN named ELSE Append(named, Index)

Answer(page, content, header) == [page |-> page, content |-> content, header |-> header]
Page(page) == Answer(page, << >>, None)

\* The local variables of a request: the name it asks for, the address it is for,
\* which of the names that are tried it has come to, why it looks a file up, the
\* update time, and what it has read so far.
Idle == [at |-> "idle", name |-> None, target |-> None, try |-> 1, goal |-> "resolve", lu |-> None, keys |-> {},
         count |-> 0, content |-> << >>, key |-> None, header |-> None, answer |-> None]

At(r, step) == req[r].at = step
Goes(r, next) == req' = [req EXCEPT ![r] = next]
Ends(r, answer) == Goes(r, [Idle EXCEPT !.at     = "done",
                                    !.name   = req[r].name,
                                    !.target = req[r].target,
                                    !.answer = answer])
Broken(r) == Ends(r, Page("broken"))

File(r) == Tries(req[r].name)[req[r].try]

\* The fetch of the resource begins with a lookup of its own.
Fetching(r, lu) == [req[r] EXCEPT !.at = "exists", !.goal = "fetch", !.lu = lu]

\* What a request does with the answer of FilePathExists.
Found(r, found) ==
  LET q == req[r]
      last == q.try = Len(Tries(q.name))
  IN  \/ /\ q.goal = "resolve" /\ ~found /\ ~last
         /\ Goes(r, [q EXCEPT !.at = "exists", !.try = @ + 1])
      \/ /\ q.goal = "resolve" /\ (found \/ last)
         /\ Goes(r, [q EXCEPT !.at = "update"])
      \/ /\ q.goal = "fetch" /\ found
         /\ Goes(r, [q EXCEPT !.at = "count"])
      \/ /\ q.goal = "fetch" /\ ~found
         /\ Broken(r)

\* FilePathExists: the list of files, if it is there.
ListHit(r) ==
  /\ At(r, "exists") /\ list # None
  /\ Found(r, File(r) \in list)
  /\ UNCHANGED <<chainVars, cached, list, conf>>

ListMiss(r) ==
  /\ At(r, "exists") /\ list = None
  /\ Goes(r, [req[r] EXCEPT !.at = "keys"])
  /\ UNCHANGED <<chainVars, cached, list, conf>>

\* GetFilesPathList looks at the cached list again.
ListFilled(r) ==
  /\ At(r, "keys") /\ list # None
  /\ Goes(r, [req[r] EXCEPT !.at = "storing", !.keys = list])
  /\ UNCHANGED <<chainVars, cached, list, conf>>

ReadsKeys(r) ==
  /\ At(r, "keys") /\ list = None
  /\ Goes(r, [req[r] EXCEPT !.at = "values", !.keys = Listed])
  /\ UNCHANGED <<chainVars, cached, list, conf>>

\* A location that was deleted since reads as "".  The list is stored.
ReadsValues(r) ==
  /\ At(r, "values")
  /\ list' = req[r].keys \cap Listed
  /\ Goes(r, [req[r] EXCEPT !.at = "storing", !.keys = @ \cap Listed])
  /\ UNCHANGED <<chainVars, cached, conf>>

\* FilePathExists stores the list that it was given once more, whatever another
\* request has stored since.
StoresList(r) ==
  /\ At(r, "storing")
  /\ list' = req[r].keys
  /\ Goes(r, [req[r] EXCEPT !.at = "listed", !.keys = {}])
  /\ UNCHANGED <<chainVars, cached, conf>>

\* The list that was just stored is looked up, and may have expired.
LooksAgain(r) ==
  /\ At(r, "listed")
  /\ Found(r, list # None /\ File(r) \in list)
  /\ UNCHANGED <<chainVars, cached, list, conf>>

\* Mutant: that the update time could not be read is forgotten.
AfterUpdateUnchecked(r, lu) ==
  IF ~conf.cache THEN Fetching(r, lu) ELSE [req[r] EXCEPT !.at = "modified", !.lu = lu]

\* RequestFile: without the time, or without a cache, the resource is fetched.
AfterUpdate(r, lu) ==
  IF lu = None \/ ~conf.cache THEN Fetching(r, lu)
                              ELSE [req[r] EXCEPT !.at = "modified", !.lu = lu]

ReadsUpdate(r) ==
  /\ At(r, "update")
  /\ Goes(r, AfterUpdate(r, globalMeta[LastUpdate]))
  /\ UNCHANGED <<chainVars, cached, list, conf>>

\* Mutant: what is cached is taken to be up to date.
UpToDateAlways(f, lu) == cached[f] # None

\* What is cached is not older than the last update.
UpToDate(f, lu) == cached[f] # None /\ cached[f].modified >= lu

\* GetLastModified: nothing is cached (or the call fails), or it is up to date,
\* or it is outdated.
ReadsModified(r) ==
  /\ At(r, "modified")
  /\ \/ Goes(r, Fetching(r, req[r].lu))
     \/ UpToDate(File(r), req[r].lu) /\ Goes(r, [req[r] EXCEPT !.at = "hit"])
     \/ /\ cached[File(r)] # None /\ ~UpToDate(File(r), req[r].lu)
        /\ Goes(r, [req[r] EXCEPT !.at = "outdated"])
  /\ UNCHANGED <<chainVars, cached, list, conf>>

\* Read: what is there by now, or nothing.
ReadsCached(r) ==
  /\ At(r, "hit")
  /\ LET entry == cached[File(r)]
     IN  \/ entry # None /\ Ends(r, Answer("content", entry.content, entry.header))
         \/ Goes(r, Fetching(r, req[r].lu))
  /\ UNCHANGED <<chainVars, cached, list, conf>>

\* Delete: whatever is there by now, or it fails.
DeletesCached(r) ==
  /\ At(r, "outdated")
  /\ cached' \in {cached, [cached EXCEPT ![File(r)] = None]}
  /\ Goes(r, Fetching(r, req[r].lu))
  /\ UNCHANGED <<chainVars, list, conf>>

\* GetNumberOfChunks.
ReadsCount(r) ==
  /\ At(r, "count")
  /\ LET count == files[File(r)].count
     IN  IF count \in {None, 0} THEN Broken(r)
         ELSE Goes(r, [req[r] EXCEPT !.at = "chunks", !.count = count])
  /\ UNCHANGED <<chainVars, cached, list, conf>>

\* The chunks that fetchAllChunks asks for next.
Fetched(r) ==
  LET start == Len(req[r].content)
      end   == Min({start + FetchBatch, req[r].count})
  IN  [i \in 1 .. end - start |-> files[File(r)].chunks[start + i - 1]]

\* A chunk that is missing is an "empty chunk".
ReadsChunks(r) ==
  /\ At(r, "chunks")
  /\ LET content == req[r].content \o Fetched(r)
         next == [req[r] EXCEPT !.content = content,
                                !.at = IF Len(content) = req[r].count THEN "headerKeys" ELSE @]
     IN  IF \E i \in DOMAIN Fetched(r) : Fetched(r)[i] = None THEN Broken(r) ELSE Goes(r, next)
  /\ UNCHANGED <<chainVars, cached, list, conf>>

\* GetHttpHeaders: a header of the file overrides the one of the website.
ReadsHeaderKeys(r) ==
  /\ At(r, "headerKeys")
  /\ Goes(r, [req[r] EXCEPT
              !.at  = "headers",
              !.key = IF files[File(r)].meta[Header] # None THEN "file"
                      ELSE IF globalMeta[Header] # None THEN "global" ELSE None])
  /\ UNCHANGED <<chainVars, cached, list, conf>>

\* A value that was deleted since reads as "": here, "empty".
ReadsHeaders(r) ==
  /\ At(r, "headers")
  /\ LET value == CASE req[r].key = "file"   -> files[File(r)].meta[Header]
                    [] req[r].key = "global" -> globalMeta[Header]
                    [] OTHER -> None
         header == IF req[r].key # None /\ value = None THEN "empty" ELSE value
     IN  Goes(r, [req[r] EXCEPT !.at = "save", !.key = None, !.header = header])
  /\ UNCHANGED <<chainVars, cached, list, conf>>

\* Mutant: the resource gets the time of the website's last update by now.
EntryNow(r) ==
  [content |-> req[r].content, header |-> req[r].header, modified |-> globalMeta[LastUpdate]]

\* The resource gets the update time that was read before it was fetched.
Entry(r) == [content |-> req[r].content, header |-> req[r].header, modified |-> req[r].lu]

\* Save, if there is a cache; it may fail.  Without an update time the nil
\* pointer is dereferenced, and net/http recovers.
Saves(r) ==
  /\ At(r, "save") /\ conf.cache
  /\ \/ /\ req[r].lu # None
        /\ cached' \in {cached, [cached EXCEPT ![File(r)] = Entry(r)]}
        /\ Ends(r, Answer("content", req[r].content, req[r].header))
     \/ /\ req[r].lu = None
        /\ cached' = cached
        /\ Ends(r, Page("none"))
  /\ UNCHANGED <<chainVars, list, conf>>

SavesNothing(r) ==
  /\ At(r, "save") /\ ~conf.cache
  /\ Ends(r, Answer("content", req[r].content, req[r].header))
  /\ UNCHANGED <<chainVars, cached, list, conf>>

\* The node does not answer, or with an error.  Only the update time is done without.
ReadFails(r) ==
  /\ req[r].at \in {"keys", "values", "update", "count", "chunks", "headerKeys", "headers"}
  /\ ~(At(r, "keys") /\ list # None)
  /\ IF At(r, "update") THEN Goes(r, AfterUpdate(r, None)) ELSE Broken(r)
  /\ UNCHANGED <<chainVars, cached, list, conf>>

\* The client has got its answer, or the connection is closed.
Leaves(r) ==
  /\ At(r, "done")
  /\ Goes(r, Idle)
  /\ UNCHANGED <<chainVars, cached, list, conf>>

ListExpires ==
  /\ list # None /\ list' = None
  /\ UNCHANGED <<chainVars, cached, conf, req>>

\* The cache may lose any resource.
Forgets(f) ==
  /\ cached[f] # None
  /\ cached' = [cached EXCEPT ![f] = None]
  /\ UNCHANGED <<chainVars, list, conf, req>>
=============================================================================
