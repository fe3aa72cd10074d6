---------------------------- MODULE GatewayProofs ----------------------------
(***************************************************************************)
(* What the cache of a provider holds, for any website, any versions that  *)
(* its publisher publishes, any configurations, and any number of requests *)
(* and restarts: a resource that counts as up to date is the one of the    *)
(* last update.  And a request that nothing interferes with is answered    *)
(* with what the website has.  The facts about the website are those of    *)
(* DewebSiteProofs.                                                        *)
(***************************************************************************)
EXTENDS Gateway, SequenceTheorems, TLAPS

Website == INSTANCE DewebSiteProofs WITH
  code <- "website", owner <- "publisher", Callers <- {"publisher"}, Nobody <- "nobody",
  MetaValues <- Headers \cup DOMAIN Versions

-----------------------------------------------------------------------------
(* The inductive invariant.                                                *)

\* What the publisher has still to send belongs to the last version.
PublisherOK ==
  /\ version \in 0 .. Len(Versions) /\ toInit \cup late \subseteq Files
  /\ globalMeta[LastUpdate] = IF version = 0 THEN None ELSE version
  /\ version = 0 => toInit = {} /\ toPost = {}
  /\ \A p \in toPost : /\ p \in Files \X Site!Indices
                       /\ p[2] < Len(Content(version)[p[1]])

\* The keys s of a file hold nothing but chunks of the content c.
OfContent(s, c) ==
  /\ s.count \in {None, Len(c)}
  /\ \A i \in Site!Indices : s.chunks[i] # None => i < Len(c) /\ s.chunks[i] = c[i + 1]

OfVersion(f) == OfContent(files[f], Content(version)[f])

\* The key of the HTTP headers holds HTTP headers.
HeadersOK ==
  /\ globalMeta[Header] \in Headers \cup {None}
  /\ \A f \in Files : files[f].meta[Header] \in Headers \cup {None}

SiteOK ==
  /\ Website!IInv /\ PublisherOK /\ HeadersOK
  /\ \A f \in Files \ (late \cap toInit) : OfVersion(f)

CacheOK ==
  /\ cached \in [Files -> Entries \cup {None}]
  /\ \A f \in Files : cached[f] # None => cached[f].modified <= version
  /\ CacheTruthful

Pages == OwnPages \cup {"broken", "notAvailable", "notFound", "content", "none"}
Answers == [page : Pages, content : Seq(Data), header : Headers \cup {None, "empty"}]

Steps == {"idle", "resolve", "resolved", "exists", "keys", "values", "storing", "listed", "update",
          "modified",
          "hit", "outdated", "count", "chunks", "headerKeys", "headers", "save", "done"}

RequestRecords ==
  [at : Steps, name : Names \cup {None}, target : Targets \cup {None}, try : Nat,
   goal : {"resolve", "fetch"}, lu : DOMAIN Versions \cup {None}, keys : SUBSET Files,
   count : 0 .. MaxChunks, content : Seq(Data), key : {"file", "global", None},
   header : Headers \cup {None, "empty"}, answer : Answers \cup {None}]

Reading == {"chunks", "headerKeys", "headers", "save"}
FileOf(q) == Tries(q.name)[q.try]

\* A request whose update time is the last one reads the last version.
ReadOK(q) ==
  q.at \in Reading /\ q.lu # None /\ q.lu = version /\ FileOf(q) \in Files \ late =>
    /\ q.count = Len(Content(version)[FileOf(q)])
    /\ \A i \in DOMAIN q.content : q.content[i] = Content(version)[FileOf(q)][i]
    /\ q.at # "chunks" => Len(q.content) = q.count

RequestOK(q) ==
  /\ q \in RequestRecords
  /\ Len(q.content) <= q.count
  /\ q.at \in {"update", "modified", "hit", "outdated", "count"} \cup Reading =>
       FileOf(q) \in Files
  /\ q.at \in {"modified", "hit", "outdated"} => q.lu # None
  /\ q.at = "resolved" => q.target # None
  /\ q.at = "idle" => q.target = None
  /\ q.lu # None => q.lu <= version
  /\ q.at \notin Reading => q.content = << >>
  /\ ReadOK(q)

RequestsOK ==
  /\ req = [r \in Requests |-> req[r]]
  /\ \A r \in Requests : RequestOK(req[r]) /\ (req[r].at # "idle" => server = "up")

ServerOK ==
  /\ conf \in {Loaded(file) : file \in ConfigFiles \cup {None}}
  /\ server \in {"down", "asking", "loading", "up"} /\ attempts \in 0 .. 2
  /\ server \in {"loading", "up"} => accepted

CachesOK == (list = None \/ list \subseteq Files) /\ mnsCache \in Targets \cup {None}

IInv == SiteOK /\ CacheOK /\ RequestsOK /\ ServerOK /\ CachesOK

-----------------------------------------------------------------------------
(* The website and its publisher.                                          *)

\* The types of what is published.
LEMMA VersionType ==
  ASSUME NEW v \in DOMAIN Versions
  PROVE  /\ Versions[v].content \in [Files -> Seq(Data)]
         /\ Versions[v].header \in [Files -> Headers \cup {None}]
         /\ Versions[v].globalHeader \in Headers
         /\ \A f \in Files : Len(Versions[v].content[f]) <= MaxChunks
         /\ v \in 1 .. Len(Versions)
<1>1. v \in 1 .. Len(Versions)
  BY ProviderAssumption, LenProperties
<1>2. Versions[v] \in [content : [Files -> Seq(Data)],
                      header : [Files -> Headers \cup {None}], globalHeader : Headers]
  BY <1>1, ProviderAssumption, ElementOfSeq
<1>. QED BY <1>1, <1>2, ProviderAssumption

LEMMA ContentType ==
  ASSUME NEW v \in 0 .. Len(Versions), NEW f \in Files
  PROVE  /\ Content(v)[f] \in Seq(Data) /\ Len(Content(v)[f]) \in 0 .. MaxChunks
         /\ v # 0 => v \in DOMAIN Versions /\ Content(v)[f] = Versions[v].content[f]
<1>1. CASE v = 0
  BY <1>1, EmptySeq, WebsiteAssumption DEF Content, Site!SiteAssumption
<1>2. CASE v # 0
  <2>1. v \in DOMAIN Versions
    BY <1>2, ProviderAssumption
  <2>2. Versions[v].content \in [Files -> Seq(Data)] /\ Len(Versions[v].content[f]) <= MaxChunks
    BY <2>1, VersionType
  <2>3. Content(v)[f] = Versions[v].content[f] /\ Content(v)[f] \in Seq(Data)
    BY <1>2, <2>2 DEF Content
  <2>4. Len(Content(v)[f]) \in Nat /\ MaxChunks \in Nat
    BY <2>3, LenProperties, WebsiteAssumption DEF Site!SiteAssumption
  <2>. QED BY <2>1, <2>2, <2>3, <2>4
<1>. QED BY <1>1, <1>2

\* What a call of filesInit declares.
LEMMA FileInitType ==
  ASSUME NEW v \in DOMAIN Versions, NEW S \in SUBSET Files, NEW f \in S
  PROVE  FileInits(v, S)[f] \in [totalChunk : 0 .. MaxChunks,
              metadata : Website!Pairs(MetaKeys, Headers \cup DOMAIN Versions)]
<1>1. v \in 0 .. Len(Versions) /\ v # 0
  BY ProviderAssumption
<1>2. Len(Versions[v].content[f]) \in 0 .. MaxChunks
  BY <1>1, ContentType
<1>3. Versions[v].header[f] \in Headers \cup {None}
  BY VersionType
<1>4. << >> \in [{} -> Headers \cup DOMAIN Versions]
  OBVIOUS
<1>5. << >> \in Website!Pairs(MetaKeys, Headers \cup DOMAIN Versions)
  BY <1>4 DEF Website!Pairs
<1>6. ASSUME Versions[v].header[f] # None
      PROVE  [m \in {Header} |-> Versions[v].header[f]] \in
                Website!Pairs(MetaKeys, Headers \cup DOMAIN Versions)
  <2>1. [m \in {Header} |-> Versions[v].header[f]] \in [{Header} -> Headers \cup DOMAIN Versions]
    BY <1>3, <1>6
  <2>. QED BY <2>1 DEF Website!Pairs, MetaKeys
<1>. QED BY <1>2, <1>5, <1>6 DEF FileInits

LEMMA FileInitsType ==
  ASSUME NEW v \in DOMAIN Versions, NEW S \in SUBSET Files
  PROVE  /\ FileInits(v, S) \in Website!Inits /\ DOMAIN FileInits(v, S) = S
         /\ FileInits(v, S) \in [S -> [totalChunk : 0 .. MaxChunks,
                metadata : Website!Pairs(MetaKeys, Headers \cup DOMAIN Versions)]]
<1>1. FileInits(v, S) \in [S -> [totalChunk : 0 .. MaxChunks,
                metadata : Website!Pairs(MetaKeys, Headers \cup DOMAIN Versions)]]
  BY FileInitType DEF FileInits
<1>. QED BY <1>1 DEF Website!Inits, Website!Pairs, FileInits

\* The calls of DewebSite are those of the website.
LEMMA SameFilesInit ==
  ASSUME NEW D, NEW edits, NEW inits, Site!FilesInit("publisher", {}, D, edits, inits)
  PROVE  /\ Website!FilesInit("publisher", {}, D, edits, inits)
         /\ globalMeta' = Website!Edited(Website!Without(globalMeta, {}), edits)
         /\ files' = [f \in Files |->
                 LET s == IF f \in D THEN Website!DeletedFile(files[f]) ELSE files[f]
                 IN  IF f \in DOMAIN inits THEN Website!FileInited(s, inits[f]) ELSE s]
BY DEF Site!FilesInit, Website!FilesInit, Site!OnlyOwner, Website!OnlyOwner,
       Site!Edited, Website!Edited, Site!Without, Website!Without,
       Site!DeletedFile, Website!DeletedFile, Site!FileInited, Website!FileInited,
       Site!NoChunks, Website!NoChunks, Site!NoMetadata, Website!NoMetadata,
       Site!Indices, Website!Indices

LEMMA SameUpload ==
  ASSUME NEW posts, Site!UploadFileChunks("publisher", posts)
  PROVE  Website!UploadFileChunks("publisher", posts)
BY DEF Site!UploadFileChunks, Website!UploadFileChunks, Site!OnlyOwner, Website!OnlyOwner,
       Site!ChunksFit, Website!ChunksFit, Site!ChunksSet, Website!ChunksSet,
       Site!TotalChunk, Website!TotalChunk, Site!Indices, Website!Indices

\* A file that is declared has the number of chunks of its version and no chunk.
LEMMA DeclaredOfVersion ==
  ASSUME Website!IInv, NEW f \in Files, NEW D, NEW edits, NEW v \in DOMAIN Versions,
         NEW S \in SUBSET Files, f \in S,
         Site!FilesInit("publisher", {}, D, edits, FileInits(v, S))
  PROVE  files'[f].count = Len(Versions[v].content[f]) /\ files'[f].chunks = Website!NoChunks
<1> DEFINE s == IF f \in D THEN Website!DeletedFile(files[f]) ELSE files[f]
           init == FileInits(v, S)[f]
<1>1. files'[f] = Website!FileInited(s, init)
  BY SameFilesInit, FileInitsType
<1>2. Website!FileOK(s)
  BY WebsiteAssumption, Website!FilesAreOK, Website!DeletedFileOK
<1>3. init \in [totalChunk : 0 .. MaxChunks,
                metadata : Website!Pairs(MetaKeys, Headers \cup DOMAIN Versions)]
  BY FileInitType
<1>4. init.totalChunk = Len(Versions[v].content[f])
  BY DEF FileInits
<1>5. Website!FileInited(s, init).chunks = Website!NoChunks
  BY WebsiteAssumption, <1>2, <1>3, Website!FileInitedOK
<1>6. Website!FileInited(s, init).count = init.totalChunk
  <2> HIDE DEF init
  <2>1. Website!DeletedFile(s) \in Website!FileKeys /\ s \in Website!FileKeys
    BY WebsiteAssumption, <1>2, Website!DeletedFileOK DEF Website!FileOK
  <2>. QED BY <2>1 DEF Website!FileInited, Website!FileKeys
<1>. QED BY <1>1, <1>4, <1>5, <1>6

\* What it declares has HTTP headers or none.
LEMMA HeadersDeclared ==
  ASSUME Website!IInv, HeadersOK, NEW D, NEW edits, NEW v \in DOMAIN Versions,
         NEW S \in SUBSET Files, Site!FilesInit("publisher", {}, D, edits, FileInits(v, S)),
         Header \in DOMAIN edits => edits[Header] \in Headers
  PROVE  HeadersOK'
<1>1. ASSUME NEW f \in Files
      PROVE  files'[f].meta[Header] \in Headers \cup {None}
  <2> DEFINE s == IF f \in D THEN Website!DeletedFile(files[f]) ELSE files[f]
             init == FileInits(v, S)[f]
             fresh == IF s.location THEN Website!DeletedFile(s) ELSE s
  <2>1. files'[f] = IF f \in S THEN Website!FileInited(s, init) ELSE s
    BY SameFilesInit, FileInitsType
  <2>2. files[f] \in Website!FileKeys /\ Header \in MetaKeys
    BY WebsiteAssumption, Website!FilesAreOK DEF Website!FileOK, MetaKeys
  <2>3. ASSUME NEW x \in Website!FileKeys
        PROVE  /\ Website!DeletedFile(x) \in Website!FileKeys
               /\ Website!DeletedFile(x).meta[Header] = None
    BY <2>2, WebsiteAssumption
       DEF Website!DeletedFile, Website!FileKeys, Website!NoMetadata, Website!NoChunks,
           Website!Metadata, Website!Indices
  <2>4. s \in Website!FileKeys /\ s.meta[Header] \in Headers \cup {None}
    BY <2>2, <2>3 DEF HeadersOK
  <2>5. CASE f \in S
    <3> HIDE DEF s
    <3>1. fresh \in Website!FileKeys /\ fresh.meta[Header] \in Headers \cup {None}
      BY <2>3, <2>4
    <3>2. files'[f] = [fresh EXCEPT !.location = TRUE,
                                    !.meta     = Website!Edited(fresh.meta, init.metadata),
                                    !.count    = init.totalChunk]
      BY <2>1, <2>5 DEF Website!FileInited
    <3>3. Header \in DOMAIN init.metadata => init.metadata[Header] \in Headers
      BY <2>5, VersionType DEF FileInits
    <3> HIDE DEF fresh, init
    <3>4. files'[f].meta = Website!Edited(fresh.meta, init.metadata)
      BY <3>1, <3>2 DEF Website!FileKeys
    <3>5. DOMAIN fresh.meta = MetaKeys
      BY <3>1 DEF Website!FileKeys, Website!Metadata
    <3>. QED BY <2>2, <3>1, <3>3, <3>4, <3>5 DEF Website!Edited
  <2>6. CASE f \notin S
    BY <2>1, <2>4, <2>6
  <2>. QED BY <2>5, <2>6
<1>2. globalMeta'[Header] \in Headers \cup {None}
  <2>1. globalMeta' = Website!Edited(Website!Without(globalMeta, {}), edits)
    BY SameFilesInit
  <2>2. DOMAIN globalMeta = MetaKeys /\ Header \in MetaKeys
    BY DEF Website!IInv, Website!TypeOK, Website!Metadata, MetaKeys
  <2>. QED BY <2>1, <2>2 DEF Website!Edited, Website!Without, HeadersOK
<1>. QED BY <1>1, <1>2 DEF HeadersOK

\* A file that is not there holds nothing.
LEMMA UnlistedIsEmpty ==
  ASSUME NEW s, Website!FileOK(s), ~s.location
  PROVE  s.count = None /\ s.chunks = Website!NoChunks
<1>1. s.count = None
  BY DEF Website!FileOK
<1>2. s.chunks = [i \in Website!Indices |-> s.chunks[i]]
  BY DEF Website!FileOK, Website!FileKeys
<1>3. ASSUME NEW i \in Website!Indices
      PROVE  s.chunks[i] = None
  BY <1>1 DEF Website!FileOK, Website!TotalChunk, Website!Indices
<1>. QED BY <1>1, <1>2, <1>3 DEF Website!NoChunks

LEMMA EmptyOfContent ==
  ASSUME NEW s, NEW c, s.count \in {None, Len(c)}, s.chunks = Website!NoChunks
  PROVE  OfContent(s, c)
BY DEF OfContent, Website!NoChunks, Website!Indices, Site!Indices

LEMMA PublishesKeepsSite ==
  ASSUME SiteOK, Publishes
  PROVE  SiteOK'
<1> DEFINE v == version + 1
           changed == {f \in Files : Versions[v].content[f] \notin {<< >>, Content(version)[f]}}
           deleted == {f \in Files : Versions[v].content[f] = << >> /\ files[f].location}
           edits == [m \in MetaKeys |-> IF m = LastUpdate THEN v ELSE Versions[v].globalHeader]
           inits == FileInits(v, Batch(changed))
<1>1. /\ v \in DOMAIN Versions /\ version' = v /\ version \in 0 .. Len(Versions)
      /\ v \in 0 .. Len(Versions) /\ v # 0 /\ version' # 0
      /\ toInit = {} /\ toPost = {}
      /\ Site!FilesInit("publisher", {}, deleted, edits, inits)
      /\ toInit' = changed \ Batch(changed) /\ late' = toInit' \cap Listed
      /\ toPost' = {p \in changed \X (0 .. MaxChunks - 1) : p[2] < Len(Versions[v].content[p[1]])}
  BY ProviderAssumption DEF Publishes, SiteOK, PublisherOK
<1>2. Batch(changed) \subseteq changed /\ changed \subseteq Files /\ deleted \subseteq Files
  BY DEF Batch
<1>3. edits \in Website!Pairs(MetaKeys, Headers \cup DOMAIN Versions)
  <2>1. edits \in [MetaKeys -> Headers \cup DOMAIN Versions]
    BY <1>1, VersionType
  <2>. QED BY <2>1 DEF Website!Pairs
<1>4. inits \in Website!Inits /\ DOMAIN inits = Batch(changed)
  BY <1>1, <1>2, FileInitsType
<1>5. \A f \in Files : Content(version')[f] = Versions[v].content[f]
  BY <1>1, ContentType
<1> HIDE DEF v, changed, deleted, edits, inits
<1>6. Website!IInv'
  BY <1>1, <1>2, <1>3, <1>4, SameFilesInit, Website!FilesInitOK, WebsiteAssumption DEF SiteOK
<1>7. globalMeta'[LastUpdate] = v
  <2>1. globalMeta' = Website!Edited(Website!Without(globalMeta, {}), edits)
    BY <1>1, SameFilesInit
  <2>2. DOMAIN Website!Without(globalMeta, {}) = MetaKeys
    BY DEF SiteOK, Website!IInv, Website!TypeOK, Website!Metadata, Website!Without
  <2>3. LastUpdate \in MetaKeys /\ edits[LastUpdate] = v /\ DOMAIN edits = MetaKeys
    BY DEF MetaKeys, edits
  <2>. QED BY <2>1, <2>2, <2>3 DEF Website!Edited
<1>8. PublisherOK'
  <2>1. ASSUME NEW p \in toPost'
        PROVE  p \in Files \X Site!Indices /\ p[2] < Len(Content(version')[p[1]])
    BY <1>1, <1>2, <1>5 DEF Site!Indices
  <2>. QED BY <1>1, <1>2, <1>7, <2>1 DEF PublisherOK, Listed
<1>9. ASSUME NEW f \in Files, f \notin late' \cap toInit'
      PROVE  OfContent(files'[f], Content(version')[f])
  <2>1. Website!FileOK(files[f]) /\ OfContent(files[f], Content(version)[f])
    BY <1>1, WebsiteAssumption, Website!FilesAreOK DEF SiteOK, OfVersion
  <2>2. CASE f \in Batch(changed)
    <3>1. files'[f].count = Len(Versions[v].content[f]) /\ files'[f].chunks = Website!NoChunks
      BY <1>1, <1>2, <2>2, DeclaredOfVersion DEF SiteOK, inits
    <3>. QED BY <1>5, <3>1, EmptyOfContent
  <2>3. CASE f \notin Batch(changed)
    <3>1. files'[f] = IF f \in deleted THEN Website!DeletedFile(files[f]) ELSE files[f]
      BY <1>1, <1>4, <2>3, SameFilesInit
    <3>2. CASE ~files'[f].location
      <4>1. Website!FileOK(files'[f])
        BY <2>1, <3>1, WebsiteAssumption, Website!DeletedFileOK
      <4>. QED BY <3>2, <4>1, UnlistedIsEmpty, EmptyOfContent
    <3>3. CASE files'[f].location
      <4>1. f \notin deleted /\ files'[f] = files[f]
        BY <2>1, <3>1, <3>3, WebsiteAssumption, Website!DeletedFileOK
      <4>2. f \notin changed
        BY <1>1, <1>9, <2>3, <3>3, <4>1 DEF Listed
      <4>3. Versions[v].content[f] = Content(version)[f]
        BY <3>3, <4>1, <4>2 DEF changed, deleted
      <4>. QED BY <1>5, <2>1, <4>1, <4>3
    <3>. QED BY <3>2, <3>3
  <2>. QED BY <2>2, <2>3
<1>10. HeadersOK'
  <2>1. Header \in DOMAIN edits => edits[Header] \in Headers
    BY <1>1, VersionType, ProviderAssumption DEF edits
  <2>. QED BY <1>1, <1>2, <2>1, HeadersDeclared DEF SiteOK, inits
<1>. QED BY <1>6, <1>8, <1>9, <1>10 DEF SiteOK, OfVersion

LEMMA PublishesRestKeepsSite ==
  ASSUME SiteOK, PublishesRest
  PROVE  SiteOK'
<1> DEFINE inits == FileInits(version, Batch(toInit))
           edits == << >>
<1>1. /\ version \in DOMAIN Versions /\ version' = version /\ version \in 0 .. Len(Versions)
      /\ version # 0 /\ toInit \subseteq Files
      /\ Site!FilesInit("publisher", {}, {}, edits, inits)
      /\ toInit' = toInit \ Batch(toInit) /\ late' = late /\ toPost' = toPost
  BY ProviderAssumption DEF PublishesRest, SiteOK, PublisherOK
<1>2. Batch(toInit) \subseteq toInit /\ DOMAIN edits = {}
  BY DEF Batch
<1>3. edits \in Website!Pairs(MetaKeys, Headers \cup DOMAIN Versions)
  <2>1. edits \in [{} -> Headers \cup DOMAIN Versions]
    BY DEF edits
  <2>. QED BY <2>1 DEF Website!Pairs
<1>4. inits \in Website!Inits /\ DOMAIN inits = Batch(toInit)
  BY <1>1, <1>2, FileInitsType
<1>5. \A f \in Files : Content(version')[f] = Versions[version].content[f]
  BY <1>1, ContentType
<1> HIDE DEF inits, edits
<1>6. Website!IInv'
  BY <1>1, <1>3, <1>4, SameFilesInit, Website!FilesInitOK, WebsiteAssumption DEF SiteOK
<1>7. globalMeta'[LastUpdate] = globalMeta[LastUpdate]
  <2>1. globalMeta' = Website!Edited(Website!Without(globalMeta, {}), edits)
    BY <1>1, SameFilesInit
  <2>2. DOMAIN globalMeta = MetaKeys /\ LastUpdate \in MetaKeys
    BY DEF SiteOK, Website!IInv, Website!TypeOK, Website!Metadata, MetaKeys
  <2>. QED BY <1>2, <2>1, <2>2 DEF Website!Edited, Website!Without
<1>8. PublisherOK'
  <2>1. \A p \in toPost' : p \in Files \X Site!Indices /\ p[2] < Len(Content(version')[p[1]])
    BY <1>1 DEF SiteOK, PublisherOK, Content
  <2>. QED BY <1>1, <1>2, <1>7, <2>1 DEF PublisherOK, SiteOK
<1>9. ASSUME NEW f \in Files, f \notin late' \cap toInit'
      PROVE  OfContent(files'[f], Content(version')[f])
  <2>1. CASE f \in Batch(toInit)
    <3>1. files'[f].count = Len(Versions[version].content[f]) /\ files'[f].chunks = Website!NoChunks
      BY <1>1, <1>2, <2>1, DeclaredOfVersion DEF SiteOK, inits
    <3>. QED BY <1>5, <3>1, EmptyOfContent
  <2>2. CASE f \notin Batch(toInit)
    <3>1. files'[f] = files[f]
      BY <1>1, <1>4, <2>2, SameFilesInit
    <3>2. OfContent(files[f], Content(version)[f])
      BY <1>1, <1>9, <2>2 DEF SiteOK, OfVersion
    <3>. QED BY <1>1, <3>1, <3>2
  <2>. QED BY <2>1, <2>2
<1>10. HeadersOK'
  BY <1>1, <1>2, HeadersDeclared DEF SiteOK, inits
<1>. QED BY <1>6, <1>8, <1>9, <1>10 DEF SiteOK, OfVersion

LEMMA PostsKeepsSite ==
  ASSUME SiteOK, NEW p \in toPost, Posts(p)
  PROVE  SiteOK'
<1> DEFINE chunk == Versions[version].content[p[1]][p[2] + 1]
           posts == [q \in {p} |-> Versions[version].content[p[1]][p[2] + 1]]
<1>1. /\ version \in 0 .. Len(Versions) /\ version' = version /\ version # 0
      /\ toInit = {} /\ toInit' = {} /\ late' = late /\ toPost' \subseteq toPost
      /\ Site!UploadFileChunks("publisher", posts)
  BY DEF Posts, SiteOK, PublisherOK
<1>2. p \in Files \X Site!Indices /\ p[2] < Len(Content(version)[p[1]])
  BY DEF SiteOK, PublisherOK
<1>3. PICK g \in Files, j \in Site!Indices : p = <<g, j>>
  BY <1>2
<1>4. Content(version)[g] \in Seq(Data) /\ j < Len(Content(version)[g]) /\ j \in Nat
      /\ chunk = Content(version)[g][j + 1]
  BY <1>1, <1>2, <1>3, ContentType DEF Site!Indices
<1>5. chunk \in Data
  BY <1>4, ElementOfSeq, LenProperties
<1>6. posts \in Website!Pairs(Files \X Website!Indices, Data)
  <2>1. posts \in [{p} -> Data] /\ {p} \in SUBSET (Files \X Website!Indices)
    BY <1>2, <1>5 DEF Website!Indices, Site!Indices
  <2>. QED BY <2>1 DEF Website!Pairs
<1> HIDE DEF posts, chunk
<1>7. Website!UploadFileChunks("publisher", posts)
  BY <1>1, SameUpload
<1>8. Website!IInv'
  BY <1>6, <1>7, Website!UploadFileChunksOK, WebsiteAssumption DEF SiteOK
<1>9. globalMeta' = globalMeta
  BY <1>7 DEF Website!UploadFileChunks
<1>10. PublisherOK'
  BY <1>1, <1>9 DEF PublisherOK, SiteOK, Content
<1>11. ASSUME NEW f \in Files
       PROVE  OfContent(files'[f], Content(version)[f])
  <2>1. OfContent(files[f], Content(version)[f]) /\ files[f] \in Website!FileKeys
    BY <1>1, WebsiteAssumption, Website!FilesAreOK DEF SiteOK, OfVersion, Website!FileOK
  <2>2. files'[f] = Website!ChunksSet(f, posts)
    BY <1>7 DEF Website!UploadFileChunks
  <2>3. files'[f].count = files[f].count
    BY <2>1, <2>2 DEF Website!ChunksSet, Website!FileKeys
  <2>4. ASSUME NEW i \in Site!Indices
        PROVE  files'[f].chunks[i] = IF f = g /\ i = j THEN chunk ELSE files[f].chunks[i]
    <3>1. files'[f].chunks[i] = IF <<f, i>> \in DOMAIN posts THEN posts[<<f, i>>]
                                                              ELSE files[f].chunks[i]
      BY <2>1, <2>2 DEF Website!ChunksSet, Website!FileKeys, Website!Indices, Site!Indices
    <3>. QED BY <1>3, <3>1 DEF posts, chunk
  <2>. QED BY <1>4, <2>1, <2>3, <2>4 DEF OfContent
<1>12. HeadersOK'
  <2>1. ASSUME NEW f \in Files
        PROVE  files'[f].meta = files[f].meta
    <3>1. files[f] \in Website!FileKeys
      BY WebsiteAssumption, Website!FilesAreOK DEF SiteOK, Website!FileOK
    <3>. QED BY <1>7, <3>1 DEF Website!UploadFileChunks, Website!ChunksSet, Website!FileKeys
  <2>. QED BY <1>9, <2>1 DEF HeadersOK, SiteOK
<1>. QED BY <1>1, <1>8, <1>10, <1>11, <1>12 DEF SiteOK, OfVersion

-----------------------------------------------------------------------------
(* A request.                                                              *)

\* The name that is tried last is the index.
LEMMA LastTry ==
  ASSUME NEW name, NEW i, i = Len(Tries(name))
  PROVE  Tries(name)[i] = Index
BY ProviderAssumption DEF Tries

\* Another try, and an answer.
LEMMA TriedType ==
  ASSUME NEW q \in RequestRecords, NEW t \in Nat
  PROVE  LET p == [q EXCEPT !.at = "exists", !.try = t]
         IN  p \in RequestRecords /\ p.at = "exists" /\ p.content = q.content /\ p.lu = q.lu
BY DEF RequestRecords, Steps

LEMMA CountType ==
  ASSUME NEW q \in RequestRecords
  PROVE  q.count \in Nat /\ q.count <= MaxChunks /\ MaxChunks \in Nat /\ q.content \in Seq(Data)
<1>1. q.count \in 0 .. MaxChunks /\ q.content \in Seq(Data)
  BY DEF RequestRecords
<1>. QED BY <1>1, WebsiteAssumption DEF Site!SiteAssumption

\* The steps of a request that has read nothing.
LEMMA NothingRead ==
  ASSUME NEW q \in RequestRecords, q.content = << >>, q.at \notin Reading,
         q.at \in {"update", "modified", "hit", "outdated", "count"} => FileOf(q) \in Files,
         q.at \in {"modified", "hit", "outdated"} => q.lu # None,
         q.at = "resolved" => q.target # None,
         q.at = "idle" => q.target = None,
         q.lu # None => q.lu <= version
  PROVE  RequestOK(q)
<1>1. q.count \in Nat
  BY CountType
<1>2. Len(q.content) <= q.count
  BY <1>1, EmptySeq
<1>. QED BY <1>2 DEF RequestOK, ReadOK

LEMMA IdleOK == RequestOK(Idle)
<1>1. << >> \in Seq(Data)
  BY EmptySeq
<1>2. Idle \in RequestRecords
  BY <1>1, WebsiteAssumption DEF Idle, RequestRecords, Steps, Site!SiteAssumption
<1>. QED BY <1>2, NothingRead DEF Idle, Reading

LEMMA DoneOK ==
  ASSUME NEW name \in Names \cup {None}, NEW target \in Targets \cup {None}, NEW answer \in Answers
  PROVE  RequestOK([Idle EXCEPT !.at = "done", !.name = name, !.target = target, !.answer = answer])
<1>1. PICK idle : idle = Idle
  OBVIOUS
<1> DEFINE q == [idle EXCEPT !.at = "done", !.name = name, !.target = target, !.answer = answer]
<1>2. idle \in RequestRecords /\ idle.content = << >> /\ idle.lu = None
  BY <1>1, IdleOK DEF RequestOK, Idle
<1>3. answer \in Answers \cup {None} /\ "done" \in Steps
  BY DEF Steps
<1>4. q \in RequestRecords /\ q.at = "done" /\ q.content = << >> /\ q.lu = None
  BY <1>2, <1>3 DEF RequestRecords
<1> HIDE DEF q
<1>5. RequestOK(q)
  BY <1>4, NothingRead DEF Reading
<1>. QED BY <1>1, <1>5 DEF q

LEMMA EndsOK ==
  ASSUME NEW r, RequestOK(req[r]), NEW answer \in Answers, Ends(r, answer)
  PROVE  \E q : Goes(r, q) /\ RequestOK(q)
<1>1. req[r].name \in Names \cup {None} /\ req[r].target \in Targets \cup {None}
  BY DEF RequestOK, RequestRecords
<1>. QED BY <1>1, DoneOK DEF Ends

LEMMA PageType == \A page \in Pages : Page(page) \in Answers
BY EmptySeq DEF Page, Answer, Answers

LEMMA BrokenOK ==
  ASSUME NEW r, RequestOK(req[r]), Broken(r)
  PROVE  \E q : Goes(r, q) /\ RequestOK(q)
BY EndsOK, PageType DEF Broken, Pages

\* A lookup of the list of files.
LEMMA FoundOK ==
  ASSUME NEW r, RequestOK(req[r]), req[r].at \in {"exists", "listed"}, NEW found,
         Found(r, found), found => File(r) \in Files
  PROVE  \E q : Goes(r, q) /\ RequestOK(q)
<1> DEFINE q == req[r]
           last == q.try = Len(Tries(q.name))
           tried == [q EXCEPT !.at = "exists", !.try = @ + 1]
           resolved == [q EXCEPT !.at = "update"]
           fetched == [q EXCEPT !.at = "count"]
<1>1. q \in RequestRecords /\ q.content = << >> /\ (q.lu # None => q.lu <= version)
  BY DEF RequestOK, Reading
<1>2. CASE Goes(r, tried)
  <2>1. tried \in RequestRecords /\ tried.at = "exists" /\ tried.content = << >> /\ tried.lu = q.lu
    <3>1. q.try \in Nat
      BY <1>1 DEF RequestRecords
    <3>2. q.try + 1 \in Nat
      BY <3>1
    <3>. QED BY <1>1, <3>2, TriedType
  <2>. HIDE DEF tried, q
  <2>2. RequestOK(tried)
    BY <1>1, <2>1, NothingRead DEF Reading
  <2>. QED BY <1>2, <2>2
<1>3. CASE (found \/ last) /\ Goes(r, resolved)
  <2>1. FileOf(q) \in Files
    BY <1>3, LastTry, ProviderAssumption DEF File, FileOf
  <2>2. /\ resolved \in RequestRecords /\ resolved.at = "update" /\ resolved.content = << >>
        /\ resolved.lu = q.lu /\ FileOf(resolved) = FileOf(q)
    BY <1>1 DEF RequestRecords, Steps, FileOf
  <2>. HIDE DEF resolved, q
  <2>3. RequestOK(resolved)
    BY <1>1, <2>1, <2>2, NothingRead DEF Reading
  <2>. QED BY <1>3, <2>3
<1>4. CASE found /\ Goes(r, fetched)
  <2>1. FileOf(q) \in Files
    BY <1>4 DEF File, FileOf
  <2>2. /\ fetched \in RequestRecords /\ fetched.at = "count" /\ fetched.content = << >>
        /\ fetched.lu = q.lu /\ FileOf(fetched) = FileOf(q)
    BY <1>1 DEF RequestRecords, Steps, FileOf
  <2>. HIDE DEF fetched, q
  <2>3. RequestOK(fetched)
    BY <1>1, <2>1, <2>2, NothingRead DEF Reading
  <2>. QED BY <1>4, <2>3
<1>5. CASE Broken(r)
  BY <1>5, BrokenOK
<1>. QED BY <1>2, <1>3, <1>4, <1>5 DEF Found

\* The resource is looked up again, to be fetched.
LEMMA FetchingOK ==
  ASSUME NEW r, RequestOK(req[r]), req[r].at \notin Reading,
         NEW lu \in DOMAIN Versions \cup {None}, lu # None => lu <= version
  PROVE  RequestOK(Fetching(r, lu))
<1>1. PICK q \in RequestRecords : q = req[r] /\ q.content = << >>
  BY DEF RequestOK
<1>2. Fetching(r, lu) = [q EXCEPT !.at = "exists", !.goal = "fetch", !.lu = lu]
  BY <1>1 DEF Fetching
<1>. "exists" \in Steps
  BY DEF Steps
<1>3. Fetching(r, lu) \in RequestRecords /\ Fetching(r, lu).at = "exists"
      /\ Fetching(r, lu).content = << >> /\ Fetching(r, lu).lu = lu
  BY <1>1, <1>2 DEF RequestRecords
<1>. QED BY <1>3, NothingRead DEF Reading

LEMMA AfterUpdateOK ==
  ASSUME NEW r, RequestOK(req[r]), At(r, "update"),
         NEW lu \in DOMAIN Versions \cup {None}, lu # None => lu <= version
  PROVE  RequestOK(AfterUpdate(r, lu))
<1>1. req[r] \in RequestRecords /\ req[r].content = << >> /\ FileOf(req[r]) \in Files
  BY DEF RequestOK, Reading, At
<1> DEFINE q == [req[r] EXCEPT !.at = "modified", !.lu = lu]
<1>2. q \in RequestRecords /\ q.at = "modified" /\ q.content = << >> /\ q.lu = lu
      /\ FileOf(q) \in Files
  BY <1>1 DEF RequestRecords, Steps, FileOf
<1> HIDE DEF q
<1>3. lu # None => RequestOK(q)
  BY <1>2, NothingRead DEF Reading
<1>. QED BY <1>3, FetchingOK DEF AfterUpdate, Reading, At, q
\* The request takes a step, to a state that is right.
IsServedOn(r) == \E q : Goes(r, q) /\ RequestOK(q)

\* A request that has read nothing goes on.
LEMMA GoesOnOK ==
  ASSUME NEW r, RequestOK(req[r]), req[r].at \notin Reading,
         NEW s \in {"keys", "hit", "outdated"},
         s \in {"hit", "outdated"} => FileOf(req[r]) \in Files /\ req[r].lu # None,
         Goes(r, [req[r] EXCEPT !.at = s])
  PROVE  IsServedOn(r)
<1> DEFINE q == [req[r] EXCEPT !.at = s]
<1>1. /\ req[r] \in RequestRecords /\ req[r].content = << >>
      /\ req[r].lu # None => req[r].lu <= version
  BY DEF RequestOK
<1>2. s \in Steps /\ s \notin Reading /\ s \notin {"resolved", "idle"} /\ s \notin {"update", "modified", "count"}
  BY DEF Steps, Reading
<1>3. /\ q \in RequestRecords /\ q.at = s /\ q.content = << >> /\ q.lu = req[r].lu
      /\ FileOf(q) = FileOf(req[r])
  BY <1>1, <1>2 DEF RequestRecords, FileOf
<1> HIDE DEF q
<1>4. RequestOK(q)
  BY <1>1, <1>2, <1>3, NothingRead
<1>. QED BY <1>4 DEF IsServedOn, q

\* The lookup in the list of the website's files.
LEMMA LookupOK ==
  ASSUME IInv, NEW r \in Requests,
         ListHit(r) \/ ListMiss(r) \/ ListFilled(r) \/ ReadsKeys(r) \/ ReadsValues(r) \/ StoresList(r)
         \/ LooksAgain(r)
  PROVE  IsServedOn(r) /\ (list' = None \/ list' \subseteq Files)
<1>1. RequestOK(req[r]) /\ (list = None \/ list \subseteq Files)
  BY DEF IInv, RequestsOK, CachesOK
<1>2. CASE ListHit(r)
  <2>1. File(r) \in list => File(r) \in Files
    BY <1>1, <1>2 DEF ListHit
  <2>. QED BY <1>1, <1>2, <2>1, FoundOK DEF ListHit, At, IsServedOn
<1>3. CASE ListMiss(r)
  BY <1>1, <1>3, GoesOnOK DEF ListMiss, At, Reading
<1>0. ASSUME NEW s \in {"storing", "listed"}, NEW keys \in SUBSET Files, req[r].at \notin Reading,
             Goes(r, [req[r] EXCEPT !.at = s, !.keys = keys])
      PROVE  IsServedOn(r)
  <2> DEFINE q == [req[r] EXCEPT !.at = s, !.keys = keys]
  <2>2. /\ req[r] \in RequestRecords /\ req[r].content = << >>
        /\ req[r].lu # None => req[r].lu <= version
    BY <1>0, <1>1 DEF RequestOK
  <2>3. q \in RequestRecords /\ q.at = s /\ q.content = << >> /\ q.lu = req[r].lu
    BY <2>2 DEF RequestRecords, Steps
  <2>4. Goes(r, q)
    BY <1>0
  <2> HIDE DEF q
  <2>5. RequestOK(q)
    BY <2>2, <2>3, NothingRead DEF Reading
  <2>. QED BY <2>4, <2>5 DEF IsServedOn
<1>4. CASE ListFilled(r)
  BY <1>0, <1>1, <1>4 DEF ListFilled, At, Reading
<1>5. CASE ReadsKeys(r)
  <2> DEFINE q == [req[r] EXCEPT !.at = "values", !.keys = Listed]
  <2>1. Listed \in SUBSET Files
    BY DEF Listed
  <2>2. /\ req[r] \in RequestRecords /\ req[r].content = << >>
        /\ req[r].lu # None => req[r].lu <= version
    BY <1>1, <1>5 DEF ReadsKeys, At, RequestOK, Reading
  <2>3. q \in RequestRecords /\ q.at = "values" /\ q.content = << >> /\ q.lu = req[r].lu
    BY <2>1, <2>2 DEF RequestRecords, Steps
  <2>4. Goes(r, q) /\ list' = list
    BY <1>5 DEF ReadsKeys
  <2> HIDE DEF q
  <2>5. RequestOK(q)
    BY <2>2, <2>3, NothingRead DEF Reading
  <2>. QED BY <1>1, <2>4, <2>5 DEF IsServedOn
<1>6. CASE ReadsValues(r) \/ StoresList(r)
  <2>1. req[r].keys \in SUBSET Files /\ req[r].at \notin Reading
    BY <1>1, <1>6 DEF RequestOK, RequestRecords, ReadsValues, StoresList, At, Reading
  <2>2. CASE ReadsValues(r)
    <3>1. Goes(r, [req[r] EXCEPT !.at = "storing", !.keys = req[r].keys \cap Listed])
      BY <2>2 DEF ReadsValues
    <3>. QED BY <1>0, <2>1, <2>2, <3>1 DEF ReadsValues
  <2>3. CASE StoresList(r)
    <3>1. Goes(r, [req[r] EXCEPT !.at = "listed", !.keys = {}]) /\ list' = req[r].keys
      BY <2>3 DEF StoresList
    <3>2. "listed" \in {"storing", "listed"} /\ {} \in SUBSET Files
      OBVIOUS
    <3>3. IsServedOn(r)
      BY <1>0, <2>1, <3>1, <3>2
    <3>. QED BY <2>1, <3>1, <3>3
  <2>. QED BY <1>6, <2>2, <2>3
<1>7. CASE LooksAgain(r)
  <2> DEFINE found == list # None /\ File(r) \in list
  <2>1. found => File(r) \in Files
    BY <1>1
  <2>2. Found(r, found) /\ req[r].at = "listed" /\ list' = list
    BY <1>7 DEF LooksAgain, At
  <2> HIDE DEF found
  <2>. QED BY <1>1, <2>1, <2>2, FoundOK DEF IsServedOn
<1>. QED BY <1>2, <1>3, <1>4, <1>5, <1>6, <1>7

\* Up to the fetch of the resource, but for the cache.
LEMMA ReadsUpdateOK ==
  ASSUME IInv, NEW r \in Requests, ReadsUpdate(r)
  PROVE  IsServedOn(r)
<1>1. globalMeta[LastUpdate] \in DOMAIN Versions \cup {None}
      /\ (globalMeta[LastUpdate] # None => globalMeta[LastUpdate] <= version)
  BY ProviderAssumption DEF IInv, SiteOK, PublisherOK
<1>2. RequestOK(req[r]) /\ At(r, "update") /\ Goes(r, AfterUpdate(r, globalMeta[LastUpdate]))
  BY DEF IInv, RequestsOK, ReadsUpdate
<1>. QED BY <1>1, <1>2, AfterUpdateOK DEF IsServedOn

LEMMA ReadsModifiedOK ==
  ASSUME IInv, NEW r \in Requests, ReadsModified(r)
  PROVE  IsServedOn(r)
<1>1. RequestOK(req[r]) /\ req[r].at = "modified"
  BY DEF IInv, RequestsOK, ReadsModified, At
<1>2. /\ FileOf(req[r]) \in Files /\ req[r].lu # None /\ req[r].lu <= version
      /\ req[r].lu \in DOMAIN Versions \cup {None} /\ req[r].at \notin Reading
  BY <1>1 DEF RequestOK, RequestRecords, Reading
<1>3. CASE Goes(r, Fetching(r, req[r].lu))
  BY <1>1, <1>2, <1>3, FetchingOK DEF IsServedOn
<1>4. CASE Goes(r, [req[r] EXCEPT !.at = "hit"])
  BY <1>1, <1>2, <1>4, GoesOnOK
<1>5. CASE Goes(r, [req[r] EXCEPT !.at = "outdated"])
  BY <1>1, <1>2, <1>5, GoesOnOK
<1>. QED BY <1>3, <1>4, <1>5 DEF ReadsModified

LEMMA ReadsCachedOK ==
  ASSUME IInv, NEW r \in Requests, ReadsCached(r)
  PROVE  IsServedOn(r)
<1>1. RequestOK(req[r]) /\ req[r].at = "hit"
  BY DEF IInv, RequestsOK, ReadsCached, At
<1>2. /\ File(r) \in Files /\ req[r].lu # None /\ req[r].lu <= version
      /\ req[r].lu \in DOMAIN Versions \cup {None} /\ req[r].at \notin Reading
  BY <1>1 DEF RequestOK, RequestRecords, Reading, FileOf, File
<1> DEFINE entry == cached[File(r)]
<1>3. CASE Goes(r, Fetching(r, req[r].lu))
  BY <1>1, <1>2, <1>3, FetchingOK DEF IsServedOn
<1>4. CASE entry # None /\ Ends(r, Answer("content", entry.content, entry.header))
  <2>1. entry \in Entries
    BY <1>2, <1>4 DEF IInv, CacheOK
  <2>2. Answer("content", entry.content, entry.header) \in Answers
    BY <2>1 DEF Entries, Answer, Answers, Pages
  <2>. QED BY <1>1, <1>4, <2>2, EndsOK DEF IsServedOn
<1>. QED BY <1>3, <1>4 DEF ReadsCached

LEMMA DeletesCachedOK ==
  ASSUME IInv, NEW r \in Requests, DeletesCached(r)
  PROVE  IsServedOn(r) /\ CacheOK'
<1>1. RequestOK(req[r]) /\ req[r].at = "outdated"
  BY DEF IInv, RequestsOK, DeletesCached, At
<1>2. /\ req[r].lu # None /\ req[r].lu <= version
      /\ req[r].lu \in DOMAIN Versions \cup {None} /\ req[r].at \notin Reading
  BY <1>1 DEF RequestOK, RequestRecords, Reading
<1>3. IsServedOn(r)
  BY <1>1, <1>2, FetchingOK DEF DeletesCached, IsServedOn
<1>4. CacheOK'
  BY DEF IInv, CacheOK, CacheTruthful, DeletesCached, chainVars, Content
<1>. QED BY <1>3, <1>4
\* What a request finds in the keys of the file it fetches.
LEMMA FileRead ==
  ASSUME IInv, NEW r \in Requests, RequestOK(req[r]), File(r) \in Files
  PROVE  /\ files[File(r)].count # None => files[File(r)].count \in 0 .. MaxChunks
         /\ \A i \in Site!Indices : files[File(r)].chunks[i] \in Data \cup {None}
         /\ files[File(r)].meta[Header] \in Headers \cup {None}
         /\ File(r) \notin late => OfContent(files[File(r)], Content(version)[File(r)])
<1>1. files[File(r)] \in Website!FileKeys
  BY WebsiteAssumption, Website!FilesAreOK DEF IInv, SiteOK, Website!FileOK
<1>2. File(r) \notin late => OfContent(files[File(r)], Content(version)[File(r)])
  BY DEF IInv, SiteOK, OfVersion
<1>3. files[File(r)].meta[Header] \in Headers \cup {None}
  BY DEF IInv, SiteOK, HeadersOK
<1>. QED BY <1>1, <1>2, <1>3 DEF Website!FileKeys, Website!Indices, Site!Indices

LEMMA ReadsCountOK ==
  ASSUME IInv, NEW r \in Requests, ReadsCount(r)
  PROVE  IsServedOn(r)
<1> DEFINE f == File(r)
           count == files[f].count
           q == [req[r] EXCEPT !.at = "chunks", !.count = count]
<1>1. RequestOK(req[r]) /\ req[r].at = "count"
  BY DEF IInv, RequestsOK, ReadsCount, At
<1>2. /\ f \in Files /\ req[r] \in RequestRecords /\ req[r].content = << >>
      /\ req[r].lu # None => req[r].lu <= version
  BY <1>1 DEF RequestOK, Reading, FileOf, File
<1>3. CASE count \in {None, 0}
  BY <1>1, <1>3, BrokenOK DEF ReadsCount, IsServedOn
<1>4. CASE count \notin {None, 0}
  <2>1. count \in 0 .. MaxChunks
    BY <1>1, <1>2, <1>4, FileRead
  <2>2. f \notin late => count = Len(Content(version)[f])
    BY <1>1, <1>2, <1>4, FileRead DEF OfContent
  <2> HIDE DEF count
  <2>3. /\ q \in RequestRecords /\ q.at = "chunks" /\ q.count = count /\ q.content = << >>
        /\ q.lu = req[r].lu /\ FileOf(q) = f
    BY <1>2, <2>1 DEF RequestRecords, Steps, FileOf, File
  <2> HIDE DEF q, f
  <2>4. ReadOK(q)
    BY <2>2, <2>3, EmptySeq DEF ReadOK
  <2>5. Len(q.content) <= q.count
    BY <2>1, <2>3, EmptySeq
  <2>6. RequestOK(q)
    BY <1>2, <2>3, <2>4, <2>5 DEF RequestOK, Reading
  <2>7. Goes(r, q)
    BY <1>4 DEF ReadsCount, q, count, f
  <2>. QED BY <2>6, <2>7 DEF IsServedOn
<1>. QED BY <1>3, <1>4

LEMMA SmallerOf ==
  ASSUME NEW a \in Nat, NEW b \in Nat
  PROVE  Min({a, b}) \in {a, b} /\ Min({a, b}) <= a /\ Min({a, b}) <= b
BY DEF Min

LEMMA ReadsChunksOK ==
  ASSUME IInv, NEW r \in Requests, ReadsChunks(r)
  PROVE  IsServedOn(r)
<1> DEFINE f == File(r)
           start == Len(req[r].content)
           end == Min({start + FetchBatch, req[r].count})
           more == Fetched(r)
           content == req[r].content \o more
           step == IF Len(content) = req[r].count THEN "headerKeys" ELSE "chunks"
           q == [req[r] EXCEPT !.content = content, !.at = step]
<1>1. RequestOK(req[r]) /\ req[r].at = "chunks"
  BY DEF IInv, RequestsOK, ReadsChunks, At
<1>2. /\ f \in Files /\ req[r] \in RequestRecords
      /\ req[r].content \in Seq(Data) /\ req[r].count \in Nat
      /\ req[r].count <= MaxChunks /\ MaxChunks \in Nat
      /\ req[r].lu # None => req[r].lu <= version
      /\ start \in Nat /\ start <= req[r].count
  <2>1. /\ f \in Files /\ req[r] \in RequestRecords /\ start <= req[r].count
        /\ req[r].lu # None => req[r].lu <= version
    BY <1>1 DEF RequestOK, Reading, FileOf, File
  <2>. QED BY <2>1, CountType, LenProperties
<1>3. end \in Nat /\ start <= end /\ end <= req[r].count
  <2> HIDE DEF start
  <2>1. start + FetchBatch \in Nat /\ start <= start + FetchBatch
    BY <1>2, ProviderAssumption
  <2>. QED BY <1>2, <2>1, SmallerOf
<1> DEFINE n == end - start
<1>4. more = [i \in 1 .. n |-> files[f].chunks[start + i - 1]] /\ n \in Nat /\ start + n = end
  <2>1. more = [i \in 1 .. n |-> files[f].chunks[start + i - 1]]
    BY DEF Fetched
  <2> HIDE DEF start, end
  <2>. QED BY <1>2, <1>3, <2>1
<1> HIDE DEF start, end, n
<1>5. CASE \E i \in DOMAIN more : more[i] = None
  BY <1>1, <1>5, BrokenOK DEF ReadsChunks, IsServedOn
<1>6. CASE \A i \in DOMAIN more : more[i] # None
  <2>1. Goes(r, q)
    BY <1>1, <1>6 DEF ReadsChunks
  <2>2. ASSUME NEW i \in 1 .. n
        PROVE  /\ start + i - 1 \in Site!Indices /\ start + i - 1 + 1 = start + i
               /\ more[i] = files[f].chunks[start + i - 1] /\ more[i] # None /\ more[i] \in Data
    <3>1. start + i - 1 \in Site!Indices /\ start + i - 1 + 1 = start + i
      <4>1. start \in Nat /\ n \in Nat /\ i \in Nat /\ 1 <= i /\ i <= n /\ MaxChunks \in Nat
        BY <1>2, <1>4
      <4>2. start + n <= MaxChunks
        <5>1. end <= MaxChunks
          BY <1>2, <1>3
        <5>. QED BY <1>4, <5>1
      <4>. QED BY <4>1, <4>2 DEF Site!Indices
    <3>2. more[i] = files[f].chunks[start + i - 1] /\ more[i] # None
      BY <1>4, <1>6
    <3>. QED BY <1>1, <1>2, <3>1, <3>2, FileRead
  <2>3. more \in Seq(Data) /\ Len(more) = n
    <3> HIDE DEF more
    <3>1. more \in [1 .. n -> Data]
      BY <1>4, <2>2
    <3>. QED BY <1>4, <3>1
  <2> HIDE DEF more
  <2>4. /\ content \in Seq(Data) /\ Len(content) = end
        /\ \A i \in 1 .. end : content[i] = IF i <= start THEN req[r].content[i] ELSE more[i - start]
    BY <1>2, <1>4, <2>3, ConcatProperties DEF start
  <2> HIDE DEF content
  <2>5. step \in Steps /\ step \in Reading
        /\ (step # "chunks" => Len(content) = req[r].count)
    BY DEF Steps, Reading
  <2> HIDE DEF step
  <2>6. /\ q \in RequestRecords /\ q.at = step /\ q.count = req[r].count /\ q.content = content
        /\ q.lu = req[r].lu /\ FileOf(q) = f
    BY <1>2, <2>4, <2>5 DEF RequestRecords, FileOf, File
  <2>7. ASSUME f \notin late, q.lu # None, q.lu = version
        PROVE  /\ q.count = Len(Content(version)[f])
               /\ \A i \in DOMAIN content : content[i] = Content(version)[f][i]
    <3>1. /\ req[r].count = Len(Content(version)[f])
          /\ \A i \in DOMAIN req[r].content : req[r].content[i] = Content(version)[f][i]
      BY <1>1, <1>2, <2>6, <2>7 DEF RequestOK, ReadOK, Reading, FileOf, File
    <3>2. OfContent(files[f], Content(version)[f])
      BY <1>1, <1>2, <2>7, FileRead
    <3>3. ASSUME NEW i \in 1 .. end
          PROVE  content[i] = Content(version)[f][i]
      <4>1. CASE i <= start
        BY <1>2, <2>4, <3>1, <4>1, LenProperties DEF start
      <4>2. CASE ~(i <= start)
        <5>1. i - start \in 1 .. n /\ start + (i - start) = i
          BY <1>2, <1>3, <1>4, <4>2
        <5>2. more[i - start] = Content(version)[f][i]
          BY <2>2, <3>2, <5>1 DEF OfContent
        <5>. QED BY <2>4, <4>2, <5>2
      <4>. QED BY <4>1, <4>2
    <3>4. DOMAIN content = 1 .. end
      BY <2>4, LenProperties
    <3>. QED BY <2>6, <3>1, <3>3, <3>4
  <2> HIDE DEF q, f
  <2>8. ReadOK(q)
    BY <2>5, <2>6, <2>7 DEF ReadOK
  <2>9. RequestOK(q)
    BY <1>2, <1>3, <2>4, <2>5, <2>6, <2>8 DEF RequestOK, Reading
  <2>. QED BY <2>1, <2>9 DEF IsServedOn
<1>. QED BY <1>5, <1>6
\* The headers, once the content is read.
LEMMA StillRead ==
  ASSUME NEW r, RequestOK(req[r]), req[r].at \in {"headerKeys", "headers"},
         NEW q \in RequestRecords, q.at \in {"headers", "save"},
         q.content = req[r].content, q.count = req[r].count, q.lu = req[r].lu,
         FileOf(q) = FileOf(req[r])
  PROVE  RequestOK(q)
BY DEF RequestOK, ReadOK, Reading

LEMMA ReadsHeaderKeysOK ==
  ASSUME IInv, NEW r \in Requests, ReadsHeaderKeys(r)
  PROVE  IsServedOn(r)
<1> DEFINE key == IF files[File(r)].meta[Header] # None THEN "file"
                  ELSE IF globalMeta[Header] # None THEN "global" ELSE None
           q == [req[r] EXCEPT !.at = "headers", !.key = key]
<1>1. RequestOK(req[r]) /\ req[r].at = "headerKeys" /\ req[r] \in RequestRecords
  BY DEF IInv, RequestsOK, ReadsHeaderKeys, At, RequestOK
<1>2. key \in {"file", "global", None}
  OBVIOUS
<1>3. Goes(r, q)
  BY DEF ReadsHeaderKeys
<1> HIDE DEF key
<1>4. /\ q \in RequestRecords /\ q.at = "headers" /\ q.content = req[r].content
      /\ q.count = req[r].count /\ q.lu = req[r].lu /\ FileOf(q) = FileOf(req[r])
  BY <1>1, <1>2 DEF RequestRecords, Steps, FileOf
<1> HIDE DEF q
<1>. QED BY <1>1, <1>3, <1>4, StillRead DEF IsServedOn

LEMMA ReadsHeadersOK ==
  ASSUME IInv, NEW r \in Requests, ReadsHeaders(r)
  PROVE  IsServedOn(r)
<1> DEFINE value == CASE req[r].key = "file"   -> files[File(r)].meta[Header]
                      [] req[r].key = "global" -> globalMeta[Header]
                      [] OTHER -> None
           header == IF req[r].key # None /\ value = None THEN "empty" ELSE value
           q == [req[r] EXCEPT !.at = "save", !.key = None, !.header = header]
<1>1. RequestOK(req[r]) /\ req[r].at = "headers" /\ req[r] \in RequestRecords
      /\ File(r) \in Files
  BY DEF IInv, RequestsOK, ReadsHeaders, At, RequestOK, Reading, File, FileOf
<1>2. value \in Headers \cup {None}
  BY <1>1, FileRead DEF IInv, SiteOK, HeadersOK
<1>3. Goes(r, q)
  BY DEF ReadsHeaders
<1> HIDE DEF value
<1>4. header \in Headers \cup {None, "empty"}
  BY <1>2
<1> HIDE DEF header
<1>5. /\ q \in RequestRecords /\ q.at = "save" /\ q.content = req[r].content
      /\ q.count = req[r].count /\ q.lu = req[r].lu /\ FileOf(q) = FileOf(req[r])
  <2>1. PICK p \in RequestRecords : p = req[r]
    BY <1>1
  <2>2. q = [p EXCEPT !.at = "save", !.key = None, !.header = header]
    BY <2>1
  <2>. HIDE DEF q
  <2>. "save" \in Steps
    BY DEF Steps
  <2>3. q \in RequestRecords /\ q.at = "save" /\ q.name = p.name /\ q.try = p.try
    BY <2>1, <2>2, <1>4 DEF RequestRecords
  <2>4. q.content = p.content /\ q.count = p.count /\ q.lu = p.lu
    BY <2>1, <2>2 DEF RequestRecords
  <2>. QED BY <2>1, <2>3, <2>4 DEF FileOf
<1> HIDE DEF q
<1>. QED BY <1>1, <1>3, <1>5, StillRead DEF IsServedOn

\* The resource is complete, and it is the version's if its time is.
LEMMA SavedType ==
  ASSUME NEW r, RequestOK(req[r]), req[r].at = "save"
  PROVE  /\ Answer("content", req[r].content, req[r].header) \in Answers
         /\ req[r].lu # None => Entry(r) \in Entries /\ Entry(r).modified <= version
         /\ /\ req[r].lu # None /\ req[r].lu = version /\ version \in 0 .. Len(Versions)
            /\ File(r) \in Files \ late
            => Entry(r).content = Content(version)[File(r)]
<1>1. /\ req[r].content \in Seq(Data) /\ req[r].header \in Headers \cup {None, "empty"}
      /\ req[r].lu \in DOMAIN Versions \cup {None}
  BY DEF RequestOK, RequestRecords
<1>2. Answer("content", req[r].content, req[r].header) \in Answers
  BY <1>1 DEF Answer, Answers, Pages
<1>3. ASSUME req[r].lu # None
      PROVE  Entry(r) \in Entries /\ Entry(r).modified <= version
  BY <1>1, <1>3 DEF Entry, Entries, RequestOK
<1>4. ASSUME req[r].lu # None, req[r].lu = version, version \in 0 .. Len(Versions),
             File(r) \in Files \ late
      PROVE  Entry(r).content = Content(version)[File(r)]
  <2> DEFINE content == Content(version)[File(r)]
  <2>1. /\ Len(req[r].content) = Len(content)
        /\ \A i \in 1 .. Len(req[r].content) : req[r].content[i] = content[i]
    BY <1>1, <1>4, LenProperties DEF RequestOK, ReadOK, Reading, FileOf, File
  <2>2. content \in Seq(Data)
    BY <1>4, ContentType
  <2> HIDE DEF content
  <2>3. req[r].content = content
    BY <1>1, <2>1, <2>2, SeqEqual
  <2>. QED BY <2>3 DEF Entry, content
<1>. QED BY <1>2, <1>3, <1>4

LEMMA SavesOK ==
  ASSUME IInv, NEW r \in Requests, Saves(r)
  PROVE  IsServedOn(r) /\ CacheOK'
<1>1. RequestOK(req[r]) /\ req[r].at = "save"
  BY DEF IInv, RequestsOK, Saves, At
<1>2. CASE cached' = cached
  <2>1. CacheOK'
    BY <1>2 DEF IInv, CacheOK, CacheTruthful, Saves, chainVars, Content
  <2>2. Page("none") \in Answers
    BY PageType DEF Pages
  <2>3. IsServedOn(r)
    BY <1>1, <2>2, SavedType, EndsOK DEF Saves, IsServedOn
  <2>. QED BY <2>1, <2>3
<1>3. CASE req[r].lu # None /\ cached' = [cached EXCEPT ![File(r)] = Entry(r)]
           /\ Ends(r, Answer("content", req[r].content, req[r].header))
  <2>1. IsServedOn(r)
    BY <1>1, <1>3, SavedType, EndsOK DEF IsServedOn
  <2>2. Entry(r) \in Entries /\ Entry(r).modified <= version /\ Entry(r).modified = req[r].lu
    BY <1>1, <1>3, SavedType DEF Entry
  <2>3. version \in 0 .. Len(Versions) /\ cached \in [Files -> Entries \cup {None}]
        /\ version' = version /\ late' = late
    BY DEF IInv, SiteOK, PublisherOK, CacheOK, Saves, chainVars
  <2>4. cached' \in [Files -> Entries \cup {None}]
    BY <1>3, <2>2, <2>3
  <2>5. ASSUME NEW f \in Files, cached'[f] # None
        PROVE  /\ cached'[f].modified <= version
               /\ f \notin late /\ cached'[f].modified = version =>
                    cached'[f].content = Content(version)[f]
    <3>1. CASE f = File(r)
      <4>1. cached'[f] = Entry(r)
        BY <1>3, <2>3, <3>1
      <4>. QED BY <1>1, <1>3, <2>2, <2>3, <3>1, <4>1, SavedType
    <3>2. CASE f # File(r)
      <4>1. cached'[f] = cached[f]
        BY <1>3, <2>3, <3>2
      <4>. QED BY <2>5, <4>1 DEF IInv, CacheOK, CacheTruthful
    <3>. QED BY <3>1, <3>2
  <2>6. CacheOK'
    BY <2>3, <2>4, <2>5 DEF CacheOK, CacheTruthful, Content
  <2>. QED BY <2>1, <2>6
<1>. QED BY <1>2, <1>3 DEF Saves

LEMMA SavesNothingOK ==
  ASSUME IInv, NEW r \in Requests, SavesNothing(r)
  PROVE  IsServedOn(r)
BY SavedType, EndsOK DEF IInv, RequestsOK, SavesNothing, At, IsServedOn

LEMMA ReadFailsOK ==
  ASSUME IInv, NEW r \in Requests, ReadFails(r)
  PROVE  IsServedOn(r)
<1>1. RequestOK(req[r])
  BY DEF IInv, RequestsOK
<1>2. CASE At(r, "update")
  BY <1>1, <1>2, AfterUpdateOK DEF ReadFails, IsServedOn
<1>3. CASE ~At(r, "update")
  BY <1>1, <1>3, BrokenOK DEF ReadFails, IsServedOn
<1>. QED BY <1>2, <1>3
-----------------------------------------------------------------------------
(* What comes before a request is served.                                  *)

\* A request for an address of the domain.
LEMMA AdmitsOK ==
  ASSUME NEW r, NEW q, RequestOK(q), q.at \in {"idle", "resolved"}, NEW address \in Targets,
         Admits(r, q, address)
  PROVE  IsServedOn(r)
<1>1. q \in RequestRecords /\ q.content = << >> /\ (q.lu # None => q.lu <= version)
  BY DEF RequestOK, Reading
<1> DEFINE done(page) == [q EXCEPT !.at = "done", !.target = address, !.answer = Page(page)]
           exists == [q EXCEPT !.at = "exists", !.target = address]
<1>2. ASSUME NEW page \in Pages, Goes(r, done(page))
      PROVE  IsServedOn(r)
  <2> DEFINE p == done(page)
  <2>1. Page(page) \in Answers \cup {None} /\ address \in Targets \cup {None} /\ "done" \in Steps
    BY PageType DEF Steps
  <2>2. PICK answer \in Answers \cup {None} : answer = Page(page)
    BY <2>1
  <2>3. p = [q EXCEPT !.at = "done", !.target = address, !.answer = answer]
    BY <2>2
  <2> HIDE DEF p
  <2>4. p \in RequestRecords /\ p.at = "done" /\ p.content = << >> /\ p.lu = q.lu
    BY <1>1, <2>1, <2>3 DEF RequestRecords
  <2>5. RequestOK(p)
    BY <1>1, <2>4, NothingRead DEF Reading
  <2>. QED BY <1>2, <2>5 DEF IsServedOn, p
<1>3. ASSUME Goes(r, exists)
      PROVE  IsServedOn(r)
  <2>1. address \in Targets \cup {None} /\ "exists" \in Steps
    BY DEF Steps
  <2>2. exists \in RequestRecords /\ exists.at = "exists" /\ exists.content = << >>
        /\ exists.lu = q.lu
    BY <1>1, <2>1 DEF RequestRecords
  <2> HIDE DEF exists
  <2>3. RequestOK(exists)
    BY <1>1, <2>2, NothingRead DEF Reading
  <2>. QED BY <1>3, <2>3 DEF IsServedOn
<1>4. "broken" \in Pages /\ "notAvailable" \in Pages
  BY DEF Pages
<1>. QED BY <1>2, <1>3, <1>4 DEF Admits

LEMMA ComesOK ==
  ASSUME IInv, NEW r \in Requests, Comes(r)
  PROVE  IsServedOn(r) /\ server = "up" /\ UNCHANGED mnsCache /\ gateUnchanged
<1>1. RequestOK(req[r])
  BY DEF IInv, RequestsOK
<1>2. ASSUME NEW page \in OwnPages, ServesOwnPage(r, page)
      PROVE  IsServedOn(r)
  BY <1>1, <1>2, EndsOK, PageType DEF ServesOwnPage, IsServedOn, Pages
<1>3. ASSUME NEW name \in Names, Arrives(r, name)
      PROVE  IsServedOn(r)
  <2> DEFINE q == [Idle EXCEPT !.name = name]
             p == [q EXCEPT !.at = "resolve"]
  <2>1. PICK idle : idle = Idle
    OBVIOUS
  <2>2. /\ idle \in RequestRecords /\ idle.content = << >> /\ idle.at = "idle" /\ idle.lu = None
        /\ name \in Names \cup {None} /\ idle.target = None
    BY <2>1, IdleOK DEF RequestOK, Idle
  <2>3. q = [idle EXCEPT !.name = name]
    BY <2>1
  <2> HIDE DEF q
  <2>4. q \in RequestRecords /\ q.content = << >> /\ q.at = "idle" /\ q.lu = None
        /\ q.target = None
    BY <2>2, <2>3 DEF RequestRecords
  <2>5. p \in RequestRecords /\ p.content = << >> /\ p.at = "resolve" /\ p.lu = None
    BY <2>4 DEF RequestRecords, Steps
  <2> HIDE DEF p
  <2>6. RequestOK(q) /\ RequestOK(p)
    BY <2>4, <2>5, NothingRead DEF Reading
  <2>7. (mnsCache # None /\ Admits(r, q, mnsCache)) \/ Goes(r, p)
    BY <1>3 DEF Arrives, q, p
  <2>8. mnsCache # None => mnsCache \in Targets
    BY DEF IInv, CachesOK
  <2>. QED BY <2>4, <2>6, <2>7, <2>8, AdmitsOK DEF IsServedOn
<1>. QED BY <1>2, <1>3 DEF Comes, ServesOwnPage, Arrives

LEMMA ResolvesOK ==
  ASSUME IInv, NEW r \in Requests, NEW address \in Targets, Resolves(r, address)
  PROVE  IsServedOn(r)
<1> DEFINE q == [req[r] EXCEPT !.at = "resolved", !.target = address]
<1>1. /\ req[r] \in RequestRecords /\ req[r].content = << >>
      /\ req[r].lu # None => req[r].lu <= version
  BY DEF IInv, RequestsOK, RequestOK, Resolves, At, Reading
<1>2. address \in Targets \cup {None} /\ "resolved" \in Steps /\ address # None
  BY GatewayAssumption DEF Steps, Targets
<1>3. /\ q \in RequestRecords /\ q.at = "resolved" /\ q.content = << >> /\ q.lu = req[r].lu
      /\ q.target = address
  BY <1>1, <1>2 DEF RequestRecords
<1>4. Goes(r, q)
  BY DEF Resolves
<1> HIDE DEF q
<1>5. RequestOK(q)
  BY <1>1, <1>2, <1>3, NothingRead DEF Reading
<1>. QED BY <1>4, <1>5 DEF IsServedOn

LEMMA CachesTargetOK ==
  ASSUME IInv, NEW r \in Requests, Caches(r)
  PROVE  IsServedOn(r) /\ mnsCache' \in Targets \cup {None}
<1>1. RequestOK(req[r]) /\ req[r].at = "resolved"
  BY DEF IInv, RequestsOK, Caches, At
<1>2. req[r].target \in Targets
  BY <1>1 DEF RequestOK, RequestRecords
<1>. QED BY <1>1, <1>2, AdmitsOK DEF Caches
-----------------------------------------------------------------------------
(* Every step keeps the invariant.                                         *)

\* A step of the publisher: no update time is the next version's yet.
LEMMA SiteStep ==
  ASSUME IInv, Publisher
  PROVE  IInv'
<1>1. SiteOK'
  BY PublishesKeepsSite, PublishesRestKeepsSite, PostsKeepsSite DEF IInv, Publisher
<1>2. /\ UNCHANGED <<cached, list, conf, req, server, attempts, accepted, online, mnsCache>>
      /\ version \in 0 .. Len(Versions)
      /\ \/ version' = version /\ late' = late
         \/ version' = version + 1
  BY DEF Publisher, Unserved, serverVars, Publishes, PublishesRest, Posts, IInv, SiteOK, PublisherOK
<1>3. ASSUME NEW f \in Files, cached[f] # None
      PROVE  cached[f].modified <= version /\ cached[f].modified \in Nat
  <2>1. cached[f] \in Entries /\ cached[f].modified <= version
    BY <1>3 DEF IInv, CacheOK
  <2>2. cached[f].modified \in DOMAIN Versions
    BY <2>1 DEF Entries
  <2>. QED BY <2>1, <2>2, VersionType
<1>4. CacheOK'
  BY <1>2, <1>3 DEF IInv, CacheOK, CacheTruthful, Content
<1>5. ASSUME NEW r \in Requests
      PROVE  RequestOK(req[r])'
  <2>1. RequestOK(req[r]) /\ req[r] \in RequestRecords
    BY DEF IInv, RequestsOK, RequestOK
  <2>2. req[r].lu # None => req[r].lu <= version /\ req[r].lu \in Nat
    <3>1. req[r].lu # None => req[r].lu <= version /\ req[r].lu \in DOMAIN Versions
      BY <2>1 DEF RequestOK, RequestRecords
    <3>. QED BY <3>1, VersionType
  <2>. QED BY <1>2, <2>1, <2>2 DEF RequestOK, ReadOK, Content
<1>6. RequestsOK' /\ ServerOK' /\ CachesOK'
  BY <1>2, <1>5 DEF IInv, RequestsOK, ServerOK, CachesOK
<1>. QED BY <1>1, <1>4, <1>6 DEF IInv

\* A step that leaves the website as it is, and the requests as they are or idle.
LEMMA OtherStep ==
  ASSUME IInv, UNCHANGED chainVars, CacheOK', ServerOK', CachesOK',
         \/ req' = req /\ (server' = server \/ server # "up")
         \/ req' = [r \in Requests |-> Idle]
  PROVE  IInv'
<1>1. SiteOK'
  BY DEF IInv, SiteOK, PublisherOK, HeadersOK, OfVersion, chainVars, Content,
         Website!IInv, Website!TypeOK, Website!StorageConsistent, Website!PurgedIsEmpty,
         Website!TotalChunk
<1>2. ASSUME NEW r \in Requests
      PROVE  RequestOK(req[r])' /\ (req'[r].at # "idle" => server' = "up")
  <2>1. RequestOK(req[r]) /\ (req[r].at # "idle" => server = "up")
    BY DEF IInv, RequestsOK
  <2>2. CASE req' = req /\ (server' = server \/ server # "up")
    BY <2>1, <2>2 DEF RequestOK, ReadOK, chainVars, Content
  <2>3. CASE req' = [p \in Requests |-> Idle]
    <3>1. req'[r] = Idle /\ Idle.at = "idle" /\ "idle" \notin Reading
      BY <2>3 DEF Idle, Reading
    <3>. QED BY <3>1, IdleOK DEF RequestOK, ReadOK, chainVars
  <2>. QED BY <2>2, <2>3
<1>3. req' = [r \in Requests |-> req'[r]]
  BY DEF IInv, RequestsOK
<1>. QED BY <1>1, <1>2, <1>3 DEF IInv, RequestsOK

\* A step of one request.
LEMMA RequestStep ==
  ASSUME IInv, NEW r \in Requests, IsServedOn(r), server = "up",
         UNCHANGED <<chainVars, serverVars, conf>>, CacheOK', CachesOK'
  PROVE  IInv'
<1>1. SiteOK'
  BY DEF IInv, SiteOK, PublisherOK, HeadersOK, OfVersion, chainVars, Content,
         Website!IInv, Website!TypeOK, Website!StorageConsistent, Website!PurgedIsEmpty,
         Website!TotalChunk
<1>2. PICK q : Goes(r, q) /\ RequestOK(q)
  BY DEF IsServedOn
<1>3. RequestOK(q)' /\ \A p \in Requests : RequestOK(req[p])'
  BY <1>2 DEF IInv, RequestsOK, RequestOK, ReadOK, chainVars, Content, Goes
<1>. QED BY <1>1, <1>2, <1>3 DEF IInv, RequestsOK, ServerOK, serverVars, Goes
\* What holds of the cache depends on the website and the cache alone.
LEMMA CacheKept ==
  ASSUME IInv, UNCHANGED <<chainVars, cached>>
  PROVE  CacheOK'
BY DEF IInv, CacheOK, CacheTruthful, chainVars, Content

\* Only a server that is up has requests.
LEMMA UpToServe ==
  ASSUME IInv, NEW r \in Requests, req[r].at # "idle"
  PROVE  server = "up"
BY DEF IInv, RequestsOK

LEMMA ServesStep ==
  ASSUME IInv, NEW r \in Requests, Serves(r) \/ Fails(r)
  PROVE  IInv'
<1> USE DEF At
<1>1. ASSUME Unserved, ListHit(r) \/ ListMiss(r) \/ ListFilled(r) \/ ReadsKeys(r)
                       \/ ReadsValues(r) \/ StoresList(r) \/ LooksAgain(r)
      PROVE  IInv'
  <2>1. UNCHANGED <<chainVars, cached, conf>> /\ req[r].at # "idle"
    BY <1>1 DEF ListHit, ListMiss, ListFilled, ReadsKeys, ReadsValues, StoresList, LooksAgain
  <2>2. CachesOK' /\ IsServedOn(r)
    BY <1>1, LookupOK DEF Unserved, IInv, CachesOK
  <2>. QED BY <1>1, <2>1, <2>2, CacheKept, UpToServe, RequestStep DEF Unserved
<1>2. ASSUME Unserved, \/ ReadsUpdate(r) \/ ReadsModified(r) \/ ReadsCached(r) \/ ReadsCount(r)
                       \/ ReadsChunks(r) \/ ReadsHeaderKeys(r) \/ ReadsHeaders(r)
                       \/ SavesNothing(r) \/ ReadFails(r)
      PROVE  IInv'
  <2>1. UNCHANGED <<chainVars, cached, list, conf>> /\ req[r].at # "idle"
    BY <1>2 DEF ReadsUpdate, ReadsModified, ReadsCached, ReadsCount, ReadsChunks, ReadsHeaderKeys,
                ReadsHeaders, SavesNothing, ReadFails
  <2>2. CachesOK'
    BY <1>2, <2>1 DEF Unserved, IInv, CachesOK
  <2>3. IsServedOn(r)
    BY <1>2, ReadsUpdateOK, ReadsModifiedOK, ReadsCachedOK, ReadsCountOK, ReadsChunksOK,
       ReadsHeaderKeysOK, ReadsHeadersOK, SavesNothingOK, ReadFailsOK
  <2>. QED BY <1>2, <2>1, <2>2, <2>3, CacheKept, UpToServe, RequestStep DEF Unserved
<1>3. ASSUME Unserved, DeletesCached(r) \/ Saves(r)
      PROVE  IInv'
  <2>1. UNCHANGED <<chainVars, list, conf>> /\ req[r].at # "idle"
    BY <1>3 DEF DeletesCached, Saves
  <2>2. CachesOK'
    BY <1>3, <2>1 DEF Unserved, IInv, CachesOK
  <2>3. IsServedOn(r) /\ CacheOK'
    BY <1>3, DeletesCachedOK, SavesOK
  <2>. QED BY <1>3, <2>1, <2>2, <2>3, UpToServe, RequestStep DEF Unserved
<1>4. ASSUME Caches(r) \/ \E address \in Targets : Resolves(r, address)
      PROVE  IInv'
  <2>1. gateUnchanged /\ req[r].at # "idle"
    BY <1>4 DEF Caches, Resolves
  <2>2. IsServedOn(r) /\ mnsCache' \in Targets \cup {None}
    <3>1. CASE Caches(r)
      BY <3>1, CachesTargetOK
    <3>2. ASSUME NEW address \in Targets, Resolves(r, address)
          PROVE  IsServedOn(r) /\ mnsCache' \in Targets \cup {None}
      <4>1. mnsCache' = mnsCache
        BY <3>2 DEF Resolves
      <4>. QED BY <3>2, <4>1, ResolvesOK DEF IInv, CachesOK
    <3>. QED BY <1>4, <3>1, <3>2
  <2>3. CachesOK'
    BY <2>1, <2>2 DEF gateUnchanged, IInv, CachesOK
  <2>. QED BY <2>1, <2>2, <2>3, CacheKept, UpToServe, RequestStep DEF gateUnchanged
<1>5. ASSUME ResolveFails(r)
      PROVE  IInv'
  <2>1. gateUnchanged /\ req[r].at # "idle" /\ mnsCache' = mnsCache
    BY <1>5 DEF ResolveFails
  <2>2. IsServedOn(r)
    BY <1>5, EndsOK, PageType DEF ResolveFails, IsServedOn, Pages, IInv, RequestsOK
  <2>3. CachesOK'
    BY <2>1 DEF gateUnchanged, IInv, CachesOK
  <2>. QED BY <2>1, <2>2, <2>3, CacheKept, UpToServe, RequestStep DEF gateUnchanged
<1>. QED BY <1>1, <1>2, <1>3, <1>4, <1>5 DEF Serves, Fails

LEMMA ComesStep ==
  ASSUME IInv, NEW r \in Requests, Comes(r)
  PROVE  IInv'
<1>1. IsServedOn(r) /\ server = "up" /\ UNCHANGED mnsCache /\ gateUnchanged
  BY ComesOK
<1>2. CachesOK'
  BY <1>1 DEF gateUnchanged, IInv, CachesOK
<1>. QED BY <1>1, <1>2, CacheKept, RequestStep DEF gateUnchanged

LEMMA LeavesStep ==
  ASSUME IInv, NEW r \in Requests, Leaves(r), Unserved
  PROVE  IInv'
<1>1. IsServedOn(r)
  BY IdleOK DEF Leaves, IsServedOn
<1>2. CachesOK' /\ server = "up"
  BY UpToServe DEF Leaves, Unserved, At, IInv, CachesOK
<1>. QED BY <1>1, <1>2, CacheKept, RequestStep DEF Leaves, Unserved

LEMMA PassesStep ==
  ASSUME IInv, Passes
  PROVE  IInv'
<1>1. UNCHANGED <<chainVars, serverVars, conf, req>>
  BY DEF Passes, ListExpires, Forgets, MnsExpires, Unserved, gateUnchanged
<1>2. ServerOK' /\ server' = server
  BY <1>1 DEF IInv, ServerOK, serverVars
<1>3. CachesOK'
  BY DEF Passes, ListExpires, Forgets, MnsExpires, Unserved, gateUnchanged, IInv, CachesOK
<1>4. CacheOK'
  <2>1. CASE cached' = cached
    BY <1>1, <2>1, CacheKept
  <2>2. ASSUME NEW f \in Files, Forgets(f)
        PROVE  CacheOK'
    BY <1>1, <2>2 DEF Forgets, IInv, CacheOK, CacheTruthful, chainVars, Content
  <2>. QED BY <2>1, <2>2 DEF Passes, ListExpires, MnsExpires, gateUnchanged
<1>. QED BY <1>1, <1>2, <1>3, <1>4, OtherStep

LEMMA ServerStep ==
  ASSUME IInv, Server
  PROVE  IInv'
<1>1. UNCHANGED <<chainVars, cached>>
  BY DEF Server, Boots, Accepts, AsksAgain, Refuses, Stops, IsUpgraded, Loads, bootUnchanged
<1>2. CachesOK'
  BY DEF Server, Boots, Accepts, AsksAgain, Refuses, Stops, IsUpgraded, Loads, bootUnchanged,
         IInv, CachesOK
<1>3. ServerOK'
  BY DEF Server, Boots, Accepts, AsksAgain, Refuses, Stops, IsUpgraded, Loads, bootUnchanged,
         IInv, ServerOK
<1>4. \/ req' = req /\ server # "up"
      \/ req' = [r \in Requests |-> Idle]
  BY DEF Server, Boots, Accepts, AsksAgain, Refuses, Stops, IsUpgraded, Loads, bootUnchanged
<1>. QED BY <1>1, <1>2, <1>3, <1>4, CacheKept, OtherStep

LEMMA InitIInv == Init => IInv /\ calm \subseteq Requests
<1> SUFFICES ASSUME Init PROVE IInv /\ calm \subseteq Requests
  OBVIOUS
<1>1. Website!FileOK(Website!NoFile) /\ Site!NoFile = Website!NoFile
  BY WebsiteAssumption, Website!NoFileOK
     DEF Site!NoFile, Website!NoFile, Site!NoChunks, Website!NoChunks, Site!NoMetadata,
         Website!NoMetadata, Site!Indices, Website!Indices
<1>2. files = [f \in Files |-> Website!NoFile] /\ globalMeta = [m \in MetaKeys |-> None]
  BY <1>1 DEF Init
<1>3. Website!TypeOK /\ Website!PurgedIsEmpty
  BY <1>1, <1>2, WebsiteAssumption
     DEF Website!TypeOK, Website!PurgedIsEmpty, Website!Metadata, Website!FileOK, Site!SiteAssumption
<1>4. Website!IInv
  BY <1>1, <1>2, <1>3, WebsiteAssumption, Website!FilesAreOK
<1>5. PublisherOK
  BY <1>2, ProviderAssumption, LenProperties DEF Init, PublisherOK, MetaKeys
<1>6. HeadersOK
  BY <1>2, WebsiteAssumption
     DEF HeadersOK, MetaKeys, Website!NoFile, Website!NoMetadata
<1>7. \A f \in Files : OfVersion(f)
  <2>1. Website!NoFile.count = None /\ Website!NoFile.chunks = Website!NoChunks
    BY DEF Website!NoFile
  <2>. QED BY <1>2, <2>1, EmptyOfContent DEF OfVersion
<1>8. SiteOK
  BY <1>4, <1>5, <1>6, <1>7 DEF SiteOK
<1>9. CacheOK
  BY DEF Init, CacheOK, CacheTruthful
<1>10. RequestsOK
  BY IdleOK DEF Init, RequestsOK, Idle
<1>11. ServerOK
  BY DEF Init, ServerOK, Loaded
<1>12. CachesOK /\ calm \subseteq Requests
  BY DEF Init, CachesOK
<1>. QED BY <1>8, <1>9, <1>10, <1>11, <1>12 DEF IInv

LEMMA NextIInv == IInv /\ calm \subseteq Requests /\ [Next]_<<gatewayVars, calm>>
                  => IInv' /\ calm' \subseteq Requests
<1> SUFFICES ASSUME IInv, calm \subseteq Requests, [Next]_<<gatewayVars, calm>>
             PROVE  IInv' /\ calm' \subseteq Requests
  OBVIOUS
<1>1. calm' \subseteq Requests
  BY DEF Next
<1>2. CASE UNCHANGED <<gatewayVars, calm>>
  <2>1. UNCHANGED <<chainVars, cached, req, server>>
    BY <1>2 DEF gatewayVars, chainVars
  <2>2. CachesOK' /\ ServerOK'
    BY <1>2 DEF gatewayVars, IInv, CachesOK, ServerOK
  <2>. QED BY <1>1, <2>1, <2>2, CacheKept, OtherStep
<1>3. CASE Next
  BY <1>1, <1>3, ComesStep, ServesStep, LeavesStep, SiteStep, PassesStep, ServerStep DEF Next
<1>. QED BY <1>2, <1>3

-----------------------------------------------------------------------------
(* What a request that nothing interferes with is answered.                *)

\* The headers of a file, and the key that GetHttpHeaders finds them under.
TheHeader(f) ==
  IF files[f].meta[Header] # None THEN files[f].meta[Header] ELSE globalMeta[Header]

TheKey(f) ==
  IF files[f].meta[Header] # None THEN "file"
  ELSE IF globalMeta[Header] # None THEN "global" ELSE None

\* The website has the file, and its chunks begin with this content.
HeldBy(f, content) ==
  /\ f \in Listed /\ files[f].count > 0 /\ Len(content) <= files[f].count
  /\ \A i \in DOMAIN content : content[i] # None /\ content[i] = files[f].chunks[i - 1]

\* What a request has read is what the website has.
ReadNow(q) ==
  /\ HeldBy(FileOf(q), q.content) /\ q.count = files[FileOf(q)].count
  /\ q.at # "chunks" => Len(q.content) = q.count
  /\ q.at = "headers" => q.key = TheKey(FileOf(q))
  /\ q.at = "save" => q.header = TheHeader(FileOf(q))

SiteNow ==
  /\ version = 0 => Listed = {}
  /\ Listed \cap toInit \subseteq late

\* What is cached with the time of the last update is what the website has, headers
\* included, and wholly uploaded.
CacheNow ==
  \A f \in Files \ late :
    cached[f] # None /\ cached[f].modified = version =>
      /\ HeldBy(f, cached[f].content) /\ Len(cached[f].content) = files[f].count
      /\ cached[f].header = TheHeader(f)

RequestsNow ==
  \A r \in Requests :
    /\ req[r].at \in Reading /\ req[r].lu # None /\ req[r].lu = version
    /\ FileOf(req[r]) \in Files \ late
    => ReadNow(req[r])

Looking == {"exists", "keys", "values", "storing", "listed"}
Timed == {"modified", "hit", "outdated", "count"} \cup Reading
Serving == Looking \cup Timed \cup {"update"}

\* The request has chosen the file it serves, and knows the update time.
Chosen(q) == q.at \in Timed \/ (q.at \in Looking /\ q.goal = "fetch")

RightFor(q) ==
  q.answer = IF q.target \in NotAnAddress THEN Page("broken")
             ELSE IF ~IsAllowed(conf, q.target) THEN Page("notAvailable")
             ELSE Expected(q.name)

\* A request that nothing has interfered with, with the list l and the cache k: it
\* has skipped the names that do not exist, its update time is the website's, and
\* what it has read, or is about to take from the cache, is what the website has.
Calm(q, l, k) ==
  /\ l \in {None, Listed}
  /\ q.at # "idle"
  /\ q.at \in {"resolve", "resolved"} => q.name \in Names /\ q.try = 1 /\ q.goal = "resolve"
  /\ q.at \in Serving =>
       /\ q.name \in Names /\ q.target # None /\ q.target \notin NotAnAddress
       /\ IsAllowed(conf, q.target)
       /\ q.try \in DOMAIN Tries(q.name)
       /\ \A i \in 1 .. q.try - 1 : Tries(q.name)[i] \notin Listed
  /\ q.at \in {"values", "storing"} => q.keys = Listed
  /\ q.at = "listed" => l = Listed
  /\ Chosen(q) \/ q.at = "update" =>
       q.try = Len(Tries(q.name)) \/ FileOf(q) \in Listed
  /\ Chosen(q) => q.lu = globalMeta[LastUpdate]
  /\ q.at = "hit" => k[FileOf(q)] = None \/ k[FileOf(q)].modified = version
  /\ q.at = "count" => FileOf(q) \in Listed
  /\ q.at \in Reading => ReadNow(q)
  /\ q.at = "done" /\ q.target # None /\ late \cap ToSet(Tries(q.name)) = {} => RightFor(q)

CalmOK == \A r \in calm : Calm(req[r], list, cached)

Now == SiteNow /\ CacheNow /\ RequestsNow /\ CalmOK

\* A step of the publisher that leaves what the website has of a file, and may add
\* a chunk to it.
Kept(f) ==
  /\ files'[f].location = files[f].location /\ files'[f].count = files[f].count
  /\ files'[f].meta = files[f].meta /\ globalMeta' = globalMeta
  /\ \A i \in Site!Indices :
       files[f].chunks[i] # None => files'[f].chunks[i] = files[f].chunks[i]

LEMMA FileTyped ==
  ASSUME IInv, NEW f \in Files
  PROVE  /\ f \in Listed <=> files[f].count # None
         /\ files[f].count # None => files[f].count \in 0 .. MaxChunks /\ files[f].count \in Nat
         /\ MaxChunks \in Nat
         /\ \A i \in Site!Indices : files[f].chunks[i] \in Data \cup {None}
<1>1. Website!FileOK(files[f])
  BY WebsiteAssumption, Website!FilesAreOK DEF IInv, SiteOK
<1>. QED BY <1>1, WebsiteAssumption
         DEF Website!FileOK, Website!FileKeys, Website!Indices, Site!Indices, Listed,
             Site!SiteAssumption

\* The chunks that hold a content are there.
LEMMA HeldIndices ==
  ASSUME IInv, NEW f \in Files, NEW content \in Seq(Data), HeldBy(f, content)
  PROVE  \A i \in DOMAIN content : i - 1 \in Site!Indices
<1>1. /\ files[f].count \in Nat /\ files[f].count <= MaxChunks /\ MaxChunks \in Nat
      /\ Len(content) <= files[f].count
  BY FileTyped DEF HeldBy
<1>2. Len(content) \in Nat /\ DOMAIN content = 1 .. Len(content)
  BY LenProperties
<1>. QED BY <1>1, <1>2 DEF Site!Indices

LEMMA HeldIsKept ==
  ASSUME IInv, NEW f \in Files, Kept(f)
  PROVE  /\ \A content \in Seq(Data) : HeldBy(f, content) => HeldBy(f, content)'
         /\ TheHeader(f)' = TheHeader(f) /\ TheKey(f)' = TheKey(f)
<1>1. ASSUME NEW content \in Seq(Data), HeldBy(f, content)
      PROVE  HeldBy(f, content)'
  <2>1. \A i \in DOMAIN content : i - 1 \in Site!Indices
    BY <1>1, HeldIndices
  <2>. QED BY <1>1, <2>1 DEF HeldBy, Kept, Listed
<1>. QED BY <1>1 DEF Kept, TheHeader, TheKey

\* A step of the publisher within a version.
LEMMA NowIsKept ==
  ASSUME IInv, CacheNow, RequestsNow, UNCHANGED <<version, late, cached, req>>,
         \A f \in Files \ late : f \in Listed => Kept(f)
  PROVE  CacheNow' /\ RequestsNow'
<1>1. ASSUME NEW f \in Files \ late, cached[f] # None, cached[f].modified = version
      PROVE  (/\ HeldBy(f, cached[f].content) /\ Len(cached[f].content) = files[f].count
              /\ cached[f].header = TheHeader(f))'
  <2>1. /\ HeldBy(f, cached[f].content) /\ Len(cached[f].content) = files[f].count
        /\ cached[f].header = TheHeader(f)
    BY <1>1 DEF CacheNow
  <2>2. Kept(f)
    BY <2>1 DEF HeldBy
  <2>3. PICK content \in Seq(Data) : content = cached[f].content
    BY <1>1 DEF IInv, CacheOK, Entries
  <2>4. HeldBy(f, content)' /\ TheHeader(f)' = TheHeader(f)
    BY <2>1, <2>2, <2>3, HeldIsKept
  <2>5. cached'[f].content = content
    BY <2>3
  <2>. QED BY <2>1, <2>2, <2>4, <2>5 DEF Kept, HeldBy
<1>2. ASSUME NEW r \in Requests, req[r].at \in Reading, req[r].lu # None, req[r].lu = version,
             FileOf(req[r]) \in Files \ late
      PROVE  ReadNow(req[r])'
  <2>1. PICK q : q = req[r]
    OBVIOUS
  <2>2. ReadNow(q) /\ FileOf(q) \in Files \ late /\ q.content \in Seq(Data)
    BY <1>2, <2>1 DEF RequestsNow, IInv, RequestsOK, RequestOK, RequestRecords
  <2>3. Kept(FileOf(q))
    BY <2>2 DEF ReadNow, HeldBy
  <2>4. /\ HeldBy(FileOf(q), q.content)' /\ TheHeader(FileOf(q))' = TheHeader(FileOf(q))
        /\ TheKey(FileOf(q))' = TheKey(FileOf(q))
    BY <2>2, <2>3, HeldIsKept DEF ReadNow, FileOf
  <2>5. ReadNow(q)'
    BY <2>2, <2>3, <2>4 DEF ReadNow, Kept, FileOf
  <2>. QED BY <2>1, <2>5
<1>. QED BY <1>1, <1>2 DEF CacheNow, RequestsNow

LEMMA PublishesNow ==
  ASSUME IInv, Publishes
  PROVE  SiteNow' /\ CacheNow' /\ RequestsNow'
<1> DEFINE v == version + 1
           changed == {f \in Files : Versions[v].content[f] \notin {<< >>, Content(version)[f]}}
           deleted == {f \in Files : Versions[v].content[f] = << >> /\ files[f].location}
           edits == [m \in MetaKeys |-> IF m = LastUpdate THEN v ELSE Versions[v].globalHeader]
           inits == FileInits(v, Batch(changed))
<1>1. /\ v \in DOMAIN Versions /\ version' = v /\ version \in Nat
      /\ Site!FilesInit("publisher", {}, deleted, edits, inits)
      /\ toInit' = changed \ Batch(changed) /\ late' = toInit' \cap Listed
      /\ UNCHANGED <<cached, req>>
  BY ProviderAssumption DEF Publishes, IInv, SiteOK, PublisherOK
<1>2. Batch(changed) \subseteq Files /\ changed \subseteq Files
  BY DEF Batch
<1>3. DOMAIN inits = Batch(changed)
  BY <1>1, <1>2, FileInitsType
<1> HIDE DEF v, changed, deleted, edits, inits
<1>4. version' > version /\ version' # 0
  BY <1>1 DEF v
<1>5. ASSUME NEW f \in Files, f \in toInit', f \in Listed'
      PROVE  f \in Listed
  <2>1. files'[f] = IF f \in deleted THEN Website!DeletedFile(files[f]) ELSE files[f]
    BY <1>1, <1>3, <1>5, SameFilesInit
  <2>2. Website!FileOK(files[f])
    BY WebsiteAssumption, Website!FilesAreOK DEF IInv, SiteOK
  <2>. QED BY <1>5, <2>1, <2>2, WebsiteAssumption, Website!DeletedFileOK DEF Listed
<1>6. SiteNow'
  BY <1>1, <1>2, <1>4, <1>5 DEF SiteNow, Listed
<1>7. ASSUME NEW f \in Files, cached[f] # None
      PROVE  cached[f].modified # version'
  <2>1. cached[f].modified <= version /\ cached[f].modified \in DOMAIN Versions
    BY <1>7 DEF IInv, CacheOK, Entries
  <2>. QED BY <1>1, <1>4, <2>1, VersionType
<1>8. ASSUME NEW r \in Requests, req[r].lu # None
      PROVE  req[r].lu # version'
  <2>1. req[r].lu <= version /\ req[r].lu \in DOMAIN Versions
    BY <1>8 DEF IInv, RequestsOK, RequestOK, RequestRecords
  <2>. QED BY <1>1, <1>4, <2>1, VersionType
<1>9. CacheNow' /\ RequestsNow'
  BY <1>1, <1>7, <1>8 DEF CacheNow, RequestsNow
<1>. QED BY <1>6, <1>9

LEMMA PublishesRestNow ==
  ASSUME IInv, Now, PublishesRest
  PROVE  SiteNow' /\ CacheNow' /\ RequestsNow'
<1> DEFINE inits == FileInits(version, Batch(toInit))
           edits == << >>
<1>1. /\ version \in DOMAIN Versions /\ version' = version /\ version # 0
      /\ toInit \subseteq Files /\ Site!FilesInit("publisher", {}, {}, edits, inits)
      /\ toInit' = toInit \ Batch(toInit) /\ UNCHANGED <<late, cached, req>>
  BY ProviderAssumption DEF PublishesRest, IInv, SiteOK, PublisherOK
<1>2. Batch(toInit) \subseteq toInit /\ DOMAIN edits = {}
  BY DEF Batch
<1>3. DOMAIN inits = Batch(toInit)
  BY <1>1, <1>2, FileInitsType
<1> HIDE DEF inits, edits
<1>4. globalMeta' = globalMeta
  <2>1. globalMeta' = Website!Edited(Website!Without(globalMeta, {}), edits)
    BY <1>1, SameFilesInit
  <2>2. DOMAIN globalMeta = MetaKeys /\ globalMeta = [m \in MetaKeys |-> globalMeta[m]]
    BY DEF IInv, SiteOK, Website!IInv, Website!TypeOK, Website!Metadata
  <2>. QED BY <1>2, <2>1, <2>2 DEF Website!Edited, Website!Without
<1>5. \A f \in Files : f \notin Batch(toInit) => files'[f] = files[f]
  BY <1>1, <1>3, SameFilesInit
<1>6. SiteNow'
  BY <1>1, <1>5 DEF Now, SiteNow, Listed
<1>7. \A f \in Files \ late : f \in Listed => Kept(f)
  BY <1>2, <1>4, <1>5 DEF Now, SiteNow, Kept
<1>. QED BY <1>1, <1>6, <1>7, NowIsKept DEF Now

LEMMA PostsNow ==
  ASSUME IInv, Now, NEW p \in toPost, Posts(p)
  PROVE  SiteNow' /\ CacheNow' /\ RequestsNow'
<1> DEFINE posts == [q \in {p} |-> Versions[version].content[p[1]][p[2] + 1]]
<1>1. /\ version \in 0 .. Len(Versions) /\ version' = version /\ version # 0
      /\ toInit = {} /\ toInit' = {} /\ UNCHANGED <<late, cached, req>>
      /\ Site!UploadFileChunks("publisher", posts)
  BY DEF Posts, IInv, SiteOK, PublisherOK
<1> HIDE DEF posts
<1>2. Website!UploadFileChunks("publisher", posts)
  BY <1>1, SameUpload
<1>3. globalMeta' = globalMeta /\ SiteOK'
  BY <1>2, PostsKeepsSite DEF Website!UploadFileChunks, IInv
<1>4. ASSUME NEW f \in Files
      PROVE  Kept(f)
  <2>1. files[f] \in Website!FileKeys /\ OfContent(files[f], Content(version)[f])
    BY <1>1, WebsiteAssumption, Website!FilesAreOK DEF IInv, SiteOK, OfVersion, Website!FileOK
  <2>2. OfContent(files'[f], Content(version)[f])
    BY <1>1, <1>3 DEF SiteOK, OfVersion, Content
  <2>3. files'[f] = Website!ChunksSet(f, posts)
    BY <1>2 DEF Website!UploadFileChunks
  <2>4. /\ files'[f].location = files[f].location /\ files'[f].count = files[f].count
        /\ files'[f].meta = files[f].meta
    BY <2>1, <2>3 DEF Website!ChunksSet, Website!FileKeys
  <2>5. ASSUME NEW i \in Site!Indices, files[f].chunks[i] # None
        PROVE  files'[f].chunks[i] = files[f].chunks[i]
    <3>1. files[f].chunks[i] = Content(version)[f][i + 1]
      BY <2>1, <2>5 DEF OfContent
    <3>2. files'[f].chunks[i] # None
      <4>1. files'[f].chunks[i] = IF <<f, i>> \in DOMAIN posts THEN posts[<<f, i>>]
                                                               ELSE files[f].chunks[i]
        BY <2>1, <2>3 DEF Website!ChunksSet, Website!FileKeys, Website!Indices, Site!Indices
      <4>2. CASE <<f, i>> \in DOMAIN posts
        <5>1. p = <<f, i>>
          BY <4>2 DEF posts
        <5>2. posts[<<f, i>>] = Versions[version].content[f][i + 1]
          BY <5>1 DEF posts
        <5>3. Content(version)[f] = Versions[version].content[f]
          BY <1>1 DEF Content
        <5>. QED BY <2>5, <3>1, <4>1, <5>2, <5>3
      <4>3. CASE <<f, i>> \notin DOMAIN posts
        BY <2>5, <4>1, <4>3
      <4>. QED BY <4>2, <4>3
    <3>3. files'[f].chunks[i] = Content(version)[f][i + 1]
      BY <2>2, <3>2 DEF OfContent
    <3>. QED BY <3>1, <3>3
  <2>. QED BY <1>3, <2>4, <2>5 DEF Kept
<1>5. SiteNow'
  BY <1>1 DEF SiteNow
<1>. QED BY <1>1, <1>4, <1>5, NowIsKept DEF Now

\* The names that are tried.
LEMMA TriesType ==
  ASSUME NEW name
  PROVE  /\ Len(Tries(name)) \in Nat /\ DOMAIN Tries(name) = 1 .. Len(Tries(name))
         /\ 1 \in DOMAIN Tries(name)
<1> DEFINE named == IF name \in DOMAIN WithHtml THEN <<name, WithHtml[name]>> ELSE <<name>>
           S == {name, WithHtml[name], Index}
<1>1. named \in Seq(S) /\ (Len(named) = 1 \/ Len(named) = 2)
  <2> DEFINE html == WithHtml[name]
  <2>1. name \in S /\ html \in S
    OBVIOUS
  <2> HIDE DEF S, html
  <2>2. <<name>> \in Seq(S) /\ Len(<<name>>) = 1
    BY <2>1
  <2>3. <<name, html>> \in Seq(S) /\ Len(<<name, html>>) = 2
    BY <2>1
  <2>4. named = <<name, html>> \/ named = <<name>>
    BY DEF html
  <2> HIDE DEF named
  <2>. QED BY <2>2, <2>3, <2>4
<1>2. Tries(name) \in {named, Append(named, Index)}
  BY DEF Tries
<1> HIDE DEF named
<1>3. Index \in S
  OBVIOUS
<1> HIDE DEF S
<1> DEFINE more == Append(named, Index)
<1>4. more \in Seq(S) /\ Len(more) = Len(named) + 1
  BY <1>1, <1>3, AppendProperties
<1>5. Tries(name) = named \/ Tries(name) = more
  BY <1>2
<1> HIDE DEF more
<1>6. Tries(name) \in Seq(S)
  BY <1>1, <1>4, <1>5
<1>7. Len(Tries(name)) \in Nat /\ Len(Tries(name)) > 0
  <2>1. Len(named) = 1 \/ Len(named) = 2
    BY <1>1
  <2>2. Len(more) = 2 \/ Len(more) = 3
    <3>1. CASE Len(named) = 1
      <4>1. Len(more) = 1 + 1
        BY <1>4, <3>1, Zenon
      <4>. QED BY <4>1
    <3>2. CASE Len(named) = 2
      <4>1. Len(more) = 2 + 1
        BY <1>4, <3>2, Zenon
      <4>. QED BY <4>1
    <3>. QED BY <2>1, <3>1, <3>2
  <2>3. Len(Tries(name)) = 1 \/ Len(Tries(name)) = 2 \/ Len(Tries(name)) = 3
    BY <1>5, <2>1, <2>2, Zenon
  <2>. QED BY <2>3
<1>. QED BY <1>6, <1>7, LenProperties

\* The website has none of the names, or it has the one that is tried last.
LEMMA ExpectedNone ==
  ASSUME NEW name, \A i \in DOMAIN Tries(name) : Tries(name)[i] \notin Listed
  PROVE  Expected(name) = Page("broken")
BY DEF Expected

LEMMA ExpectedSome ==
  ASSUME NEW name, NEW t \in DOMAIN Tries(name), Tries(name)[t] \in Listed,
         \A i \in 1 .. t - 1 : Tries(name)[i] \notin Listed
  PROVE  LET f == Tries(name)[t]
             n == files[f].count
         IN  Expected(name) =
               IF n = 0 \/ \E i \in 0 .. n - 1 : files[f].chunks[i] = None THEN Page("broken")
               ELSE Answer("content", [i \in 1 .. n |-> files[f].chunks[i - 1]], TheHeader(f))
<1> DEFINE existing == {i \in DOMAIN Tries(name) : Tries(name)[i] \in Listed}
<1>1. t \in existing /\ existing \subseteq Nat
  BY TriesType
<1>2. \A i \in existing : t <= i
  <2>1. \A i \in existing : i \in Nat /\ i >= 1 /\ i \notin 1 .. t - 1
    BY TriesType
  <2>. QED BY <1>1, <2>1
<1>3. Min(existing) = t
  <2> HIDE DEF existing
  <2>1. t \in existing /\ \A y \in existing : t <= y
    BY <1>1, <1>2
  <2>2. \A x \in existing : (\A y \in existing : x <= y) => x = t
    BY <1>1, <2>1
  <2>. QED BY <2>1, <2>2 DEF Min
<1>. QED BY <1>1, <1>3 DEF Expected, TheHeader

\* A file that is held wholly is what is expected.
LEMMA ExpectedHeld ==
  ASSUME IInv, NEW name, NEW t \in DOMAIN Tries(name),
         \A i \in 1 .. t - 1 : Tries(name)[i] \notin Listed,
         NEW content \in Seq(Data), HeldBy(Tries(name)[t], content),
         Len(content) = files[Tries(name)[t]].count
  PROVE  Expected(name) = Answer("content", content, TheHeader(Tries(name)[t]))
<1> DEFINE f == Tries(name)[t]
           n == files[f].count
           now == [i \in 1 .. n |-> files[f].chunks[i - 1]]
<1>1. f \in Files /\ f \in Listed /\ n > 0 /\ n \in Nat
  BY FileTyped DEF HeldBy, Listed
<1>2. DOMAIN content = 1 .. n
  BY LenProperties
<1>3. \A i \in 1 .. n : content[i] = files[f].chunks[i - 1] /\ files[f].chunks[i - 1] # None
  BY <1>2 DEF HeldBy
<1> HIDE DEF f, n
<1>4. content = now
  BY <1>2, <1>3
<1>5. ~(n = 0 \/ \E i \in 0 .. n - 1 : files[f].chunks[i] = None)
  <2>1. ASSUME NEW i \in 0 .. n - 1
        PROVE  files[f].chunks[i] # None
    <3>1. i + 1 \in 1 .. n /\ (i + 1) - 1 = i
      BY <1>1
    <3>. QED BY <1>3, <3>1
  <2>. QED BY <1>1, <2>1
<1>. QED BY <1>1, <1>4, <1>5, ExpectedSome DEF f, n

\* What is calm depends on the website, and the configuration, alone.
LEMMA CalmStays ==
  ASSUME NEW q, NEW l, NEW k, Calm(q, l, k),
         UNCHANGED <<files, globalMeta, version, late, conf>>
  PROVE  Calm(q, l, k)'
<1>1. Listed' = Listed /\ Expected(q.name)' = Expected(q.name) /\ ReadNow(q)' = ReadNow(q)
      /\ RightFor(q)' = RightFor(q) /\ IsAllowed(conf, q.target)' = IsAllowed(conf, q.target)
  BY DEF Listed, Expected, ReadNow, HeldBy, TheHeader, TheKey, RightFor, IsAllowed
<1>. QED BY <1>1 DEF Calm

\* Only a request that fetches a resource looks at the cache with its file.
LEMMA CalmInCache ==
  ASSUME NEW q, NEW l, NEW k, NEW l2 \in {None, Listed}, NEW k2, Calm(q, l, k),
         q.at = "listed" => l2 = l,
         q.at = "hit" =>
           k2[FileOf(q)] \in {k[FileOf(q)], None} \/ k2[FileOf(q)].modified = version
  PROVE  Calm(q, l2, k2)
BY DEF Calm

LEMMA AdmitsGoes ==
  ASSUME NEW r, NEW q, NEW address, Admits(r, q, address)
  PROVE  \E p : Goes(r, p)
<1> DEFINE done(page) == [q EXCEPT !.at = "done", !.target = address, !.answer = Page(page)]
<1>1. \/ Goes(r, done("broken")) \/ Goes(r, done("notAvailable"))
      \/ Goes(r, [q EXCEPT !.at = "exists", !.target = address])
  BY DEF Admits
<1> HIDE DEF done
<1>. QED BY <1>1

\* The steps of requests.
LEMMA OwnStepKeeps ==
  ASSUME NEW r \in Requests, Comes(r) \/ Serves(r) \/ Fails(r) \/ (Leaves(r) /\ Unserved)
  PROVE  UNCHANGED <<chainVars, serverVars, conf>> /\ \E q : Goes(r, q)
<1>1. CASE Comes(r)
  <2>1. CASE \E page \in OwnPages : ServesOwnPage(r, page)
    BY <2>1 DEF ServesOwnPage, Ends, gateUnchanged
  <2>2. ASSUME NEW name \in Names, Arrives(r, name)
        PROVE  UNCHANGED <<chainVars, serverVars, conf>> /\ \E q : Goes(r, q)
    BY <2>2, AdmitsGoes DEF Arrives, gateUnchanged
  <2>. QED BY <1>1, <2>1, <2>2 DEF Comes
<1>2. CASE Leaves(r) /\ Unserved
  BY <1>2 DEF Leaves, Unserved
<1>3. CASE Fails(r)
  BY <1>3 DEF Fails, ResolveFails, ReadFails, Broken, Ends, gateUnchanged, Unserved
<1>4. CASE Caches(r) \/ \E address \in Targets : Resolves(r, address)
  <2>1. CASE Caches(r)
    BY <2>1, AdmitsGoes DEF Caches, gateUnchanged
  <2>2. CASE \E address \in Targets : Resolves(r, address)
    BY <2>2 DEF Resolves, gateUnchanged
  <2>. QED BY <1>4, <2>1, <2>2
<1>5. CASE Unserved /\ (ListHit(r) \/ ListMiss(r) \/ ListFilled(r) \/ ReadsKeys(r)
                      \/ ReadsValues(r) \/ StoresList(r) \/ LooksAgain(r))
  BY <1>5 DEF ListHit, ListMiss, ListFilled, ReadsKeys, ReadsValues, StoresList, LooksAgain, Found, Broken,
              Ends, Unserved
<1>6. CASE Unserved /\ (ReadsUpdate(r) \/ ReadsModified(r) \/ ReadsCached(r) \/ DeletesCached(r))
  BY <1>6 DEF ReadsUpdate, ReadsModified, ReadsCached, DeletesCached, Ends, Unserved
<1>7. CASE Unserved /\ (ReadsCount(r) \/ ReadsChunks(r) \/ ReadsHeaderKeys(r) \/ ReadsHeaders(r)
                      \/ Saves(r) \/ SavesNothing(r))
  BY <1>7 DEF ReadsCount, ReadsChunks, ReadsHeaderKeys, ReadsHeaders, Saves, SavesNothing, Broken,
              Ends, Unserved
<1>. QED BY <1>1, <1>2, <1>3, <1>4, <1>5, <1>6, <1>7 DEF Serves

\* What a step that does not disturb a request changes.
LEMMA UndisturbedKeeps ==
  ASSUME IInv, IInv', [Next]_<<gatewayVars, calm>>, NEW r \in Requests, req[r].at # "idle",
         UNCHANGED <<files, globalMeta>>
  PROVE  UNCHANGED <<version, late, conf>>
<1>1. /\ version \in Nat /\ version' \in Nat /\ None \notin DOMAIN Versions
      /\ globalMeta[LastUpdate] = (IF version = 0 THEN None ELSE version)
      /\ globalMeta'[LastUpdate] = (IF version' = 0 THEN None ELSE version')
      /\ version # 0 => version \in DOMAIN Versions
      /\ version' # 0 => version' \in DOMAIN Versions
  BY ProviderAssumption, WebsiteAssumption DEF IInv, SiteOK, PublisherOK, Site!SiteAssumption
<1>2. version' = version
  BY <1>1
<1>3. server = "up"
  BY UpToServe
<1>4. CASE Publisher
  <2>1. conf' = conf
    BY <1>4 DEF Publisher, Publishes, PublishesRest, Posts
  <2>2. ~Publishes
    BY <1>1, <1>2 DEF Publishes
  <2>. QED BY <1>2, <1>4, <2>1, <2>2 DEF Publisher, PublishesRest, Posts
<1>5. CASE Server
  BY <1>3, <1>5 DEF Server, Boots, Accepts, AsksAgain, Refuses, Stops, IsUpgraded, Loads,
                    bootUnchanged, chainVars
<1>6. CASE Passes
  BY <1>6 DEF Passes, ListExpires, Forgets, MnsExpires, gateUnchanged, chainVars
<1>7. CASE \E p \in Requests : Comes(p) \/ Serves(p) \/ Fails(p) \/ (Leaves(p) /\ Unserved)
  BY <1>7, OwnStepKeeps DEF chainVars
<1>8. CASE UNCHANGED <<gatewayVars, calm>>
  BY <1>8 DEF gatewayVars
<1>. QED BY <1>4, <1>5, <1>6, <1>7, <1>8 DEF Next

\* A step of others.
LEMMA CalmOfOthers ==
  ASSUME IInv, IInv', [Next]_<<gatewayVars, calm>>, NEW r \in Requests,
         Calm(req[r], list, cached), req'[r] = req[r], Undisturbed(r)
  PROVE  Calm(req[r], list, cached)'
<1>1. PICK q, l, k, l2, k2 :
        q = req[r] /\ l = list /\ k = cached /\ l2 = list' /\ k2 = cached'
  OBVIOUS
<1>2. Calm(q, l, k) /\ q.at # "idle" /\ RequestOK(q) /\ UNCHANGED <<files, globalMeta>>
  BY <1>1 DEF Calm, IInv, RequestsOK, Undisturbed
<1>3. UNCHANGED <<version, late, conf>>
  BY <1>1, <1>2, UndisturbedKeeps
<1>4. l2 \in {None, Listed} /\ (q.at = "listed" => l2 = l)
  BY <1>1, <1>2 DEF Undisturbed, Listed, At
<1>5. q.at = "hit" =>
        k2[FileOf(q)] \in {k[FileOf(q)], None} \/ k2[FileOf(q)].modified = version
  BY <1>1, <1>2 DEF Undisturbed, RequestOK
<1>6. Calm(q, l2, k2)
  BY <1>2, <1>4, <1>5, CalmInCache
<1>7. Calm(q, l2, k2)'
  BY <1>2, <1>3, <1>6, CalmStays
<1>. QED BY <1>1, <1>7

\* A step of a calm request itself.
GoesCalmly(r) == \E q : Goes(r, q) /\ Calm(q, list', cached')

LEMMA CalmEnds ==
  ASSUME NEW r \in Requests, Calm(req[r], list, cached), req[r].at \in Serving,
         list' \in {None, Listed}, NEW answer, Ends(r, answer),
         late \cap ToSet(Tries(req[r].name)) = {} => answer = Expected(req[r].name)
  PROVE  GoesCalmly(r)
<1>1. PICK q, idle : q = req[r] /\ idle = Idle
  OBVIOUS
<1> DEFINE p == [idle EXCEPT !.at = "done", !.name = q.name, !.target = q.target, !.answer = answer]
<1>2. /\ p.at = "done" /\ p.name = q.name /\ p.target = q.target /\ p.answer = answer
  BY <1>1 DEF Idle
<1>3. Goes(r, p)
  BY <1>1 DEF Ends
<1> HIDE DEF p
<1>4. q.target \notin NotAnAddress /\ IsAllowed(conf, q.target)
  BY <1>1 DEF Calm
<1>5. late \cap ToSet(Tries(p.name)) = {} => RightFor(p)
  BY <1>1, <1>2, <1>4 DEF RightFor
<1>6. Calm(p, list', cached')
  BY <1>2, <1>5 DEF Calm, Serving, Looking, Timed, Reading, Chosen
<1>. QED BY <1>3, <1>6 DEF GoesCalmly

\* The file that a request has chosen, if it exists, is the one that is expected.
LEMMA CalmFile ==
  ASSUME IInv, NEW r \in Requests, NEW l, NEW k, Calm(req[r], l, k),
         Chosen(req[r]) \/ req[r].at \in Serving
  PROVE  /\ req[r].try \in DOMAIN Tries(req[r].name)
         /\ \A i \in 1 .. req[r].try - 1 : Tries(req[r].name)[i] \notin Listed
         /\ File(r) = Tries(req[r].name)[req[r].try] /\ File(r) = FileOf(req[r])
         /\ File(r) \in ToSet(Tries(req[r].name))
<1>1. req[r].at \in Serving
  BY DEF Chosen, Serving
<1>. QED BY <1>1 DEF Calm, File, FileOf, ToSet

\* Not even the last name exists.
LEMMA CalmNotFound ==
  ASSUME IInv, NEW r \in Requests, NEW l, NEW k, Calm(req[r], l, k), Chosen(req[r]),
         File(r) \notin Listed
  PROVE  Expected(req[r].name) = Page("broken")
<1>1. PICK q : q = req[r]
  OBVIOUS
<1>2. /\ q.try \in DOMAIN Tries(q.name) /\ \A i \in 1 .. q.try - 1 : Tries(q.name)[i] \notin Listed
      /\ Tries(q.name)[q.try] \notin Listed /\ q.try = Len(Tries(q.name))
  BY <1>1, CalmFile DEF Calm, FileOf
<1>3. DOMAIN Tries(q.name) = 1 .. Len(Tries(q.name)) /\ Len(Tries(q.name)) \in Nat
  BY TriesType
<1>4. \A i \in DOMAIN Tries(q.name) : i \in 1 .. q.try - 1 \/ i = q.try
  BY <1>2, <1>3
<1>5. \A i \in DOMAIN Tries(q.name) : Tries(q.name)[i] \notin Listed
  BY <1>2, <1>4
<1>. QED BY <1>1, <1>5, ExpectedNone

LEMMA CalmFound ==
  ASSUME IInv, NEW r \in Requests, Calm(req[r], list, cached), req[r].at \in {"exists", "listed"},
         list' \in {None, Listed}, NEW found, found <=> File(r) \in Listed, Found(r, found)
  PROVE  GoesCalmly(r)
<1>1. PICK q : q = req[r]
  OBVIOUS
<1> DEFINE last == q.try = Len(Tries(q.name))
           tried == [q EXCEPT !.at = "exists", !.try = @ + 1]
           resolved == [q EXCEPT !.at = "update"]
           fetched == [q EXCEPT !.at = "count"]
<1>2. /\ q \in RequestRecords /\ Calm(q, list, cached) /\ q.at \in Looking
      /\ FileOf(q) = File(r) /\ FileOf(q) = Tries(q.name)[q.try]
  BY <1>1 DEF IInv, RequestsOK, RequestOK, Looking, File, FileOf
<1>3. /\ q.name \in Names /\ q.target # None /\ q.target \notin NotAnAddress
      /\ IsAllowed(conf, q.target) /\ q.try \in DOMAIN Tries(q.name)
      /\ \A i \in 1 .. q.try - 1 : Tries(q.name)[i] \notin Listed
  BY <1>2 DEF Calm, Serving
<1>4. /\ DOMAIN Tries(q.name) = 1 .. Len(Tries(q.name)) /\ Len(Tries(q.name)) \in Nat
      /\ q.try \in Nat
  BY <1>2, TriesType DEF RequestRecords
<1>5. CASE q.goal = "resolve" /\ ~found /\ ~last /\ Goes(r, tried)
  <2>1. /\ tried.at = "exists" /\ tried.try = q.try + 1 /\ tried.name = q.name
        /\ tried.target = q.target /\ tried.goal = "resolve"
    BY <1>2, <1>5 DEF RequestRecords
  <2>2. /\ q.try + 1 \in DOMAIN Tries(q.name)
        /\ \A i \in 1 .. (q.try + 1) - 1 : i \in 1 .. q.try - 1 \/ i = q.try
    BY <1>3, <1>4, <1>5
  <2>3. \A i \in 1 .. tried.try - 1 : Tries(tried.name)[i] \notin Listed
    BY <1>2, <1>3, <1>5, <2>1, <2>2
  <2> HIDE DEF tried
  <2>4. Calm(tried, list', cached')
    BY <1>3, <2>1, <2>2, <2>3 DEF Calm, Serving, Looking, Timed, Reading, Chosen
  <2>. QED BY <1>5, <2>4 DEF GoesCalmly
<1>6. CASE q.goal = "resolve" /\ (found \/ last) /\ Goes(r, resolved)
  <2>1. /\ resolved.at = "update" /\ resolved.try = q.try /\ resolved.name = q.name
        /\ resolved.target = q.target /\ FileOf(resolved) = FileOf(q)
    BY <1>2 DEF RequestRecords, FileOf
  <2> HIDE DEF resolved
  <2>2. resolved.try = Len(Tries(resolved.name)) \/ FileOf(resolved) \in Listed
    BY <1>2, <1>6, <2>1
  <2>3. Calm(resolved, list', cached')
    BY <1>3, <2>1, <2>2 DEF Calm, Serving, Looking, Timed, Reading, Chosen
  <2>. QED BY <1>6, <2>3 DEF GoesCalmly
<1>7. CASE q.goal = "fetch" /\ found /\ Goes(r, fetched)
  <2>1. /\ fetched.at = "count" /\ fetched.try = q.try /\ fetched.name = q.name
        /\ fetched.target = q.target /\ FileOf(fetched) = FileOf(q) /\ fetched.lu = q.lu
    BY <1>2 DEF RequestRecords, FileOf
  <2> HIDE DEF fetched
  <2>2. q.lu = globalMeta[LastUpdate]
    BY <1>2, <1>7 DEF Calm, Chosen
  <2>3. FileOf(fetched) \in Listed
    BY <1>2, <1>7, <2>1
  <2>4. Calm(fetched, list', cached')
    BY <1>3, <2>1, <2>2, <2>3 DEF Calm, Serving, Looking, Timed, Reading, Chosen
  <2>. QED BY <1>7, <2>4 DEF GoesCalmly
<1>8. CASE q.goal = "fetch" /\ ~found /\ Broken(r)
  <2>1. Chosen(req[r])
    BY <1>1, <1>2, <1>8 DEF Chosen
  <2>2. Expected(req[r].name) = Page("broken")
    BY <1>8, <2>1, CalmNotFound
  <2>. QED BY <1>1, <1>2, <1>8, <2>2, CalmEnds DEF Broken, Serving
<1>. QED BY <1>1, <1>5, <1>6, <1>7, <1>8 DEF Found

LEMMA CalmLooks ==
  ASSUME IInv, NEW r \in Requests, Calm(req[r], list, cached), list' \in {None, Listed},
         ListHit(r) \/ ListMiss(r) \/ ListFilled(r) \/ ReadsKeys(r) \/ ReadsValues(r) \/ StoresList(r)
         \/ LooksAgain(r)
  PROVE  GoesCalmly(r)
<1> USE DEF At
<1>1. PICK q : q = req[r]
  OBVIOUS
<1>2. q \in RequestRecords /\ Calm(q, list, cached)
  BY <1>1 DEF IInv, RequestsOK, RequestOK
<1>3. CASE ListHit(r)
  <2>1. list = Listed /\ Found(r, File(r) \in list) /\ req[r].at = "exists"
    BY <1>1, <1>2, <1>3 DEF ListHit, Calm
  <2>. QED BY <2>1, CalmFound
<1>4. CASE LooksAgain(r)
  <2>1. list = Listed /\ req[r].at = "listed" /\ Found(r, list # None /\ File(r) \in list)
    BY <1>1, <1>2, <1>4 DEF LooksAgain, Calm
  <2>2. list # None
    BY <2>1, ProviderAssumption DEF Listed
  <2> DEFINE found == list # None /\ File(r) \in list
  <2>3. found <=> File(r) \in Listed
    BY <2>1, <2>2
  <2> HIDE DEF found
  <2>. QED BY <2>1, <2>3, CalmFound DEF found
<1>5. CASE ListMiss(r) \/ ListFilled(r) \/ ReadsKeys(r) \/ ReadsValues(r) \/ StoresList(r)
  <2>1. /\ q.name \in Names /\ q.target # None /\ q.target \notin NotAnAddress
        /\ IsAllowed(conf, q.target) /\ q.try \in DOMAIN Tries(q.name)
        /\ \A i \in 1 .. q.try - 1 : Tries(q.name)[i] \notin Listed
        /\ q.goal = "fetch" => /\ q.try = Len(Tries(q.name)) \/ FileOf(q) \in Listed
                               /\ q.lu = globalMeta[LastUpdate]
    BY <1>1, <1>2, <1>5 DEF Calm, Serving, Looking, Chosen, ListMiss, ListFilled, ReadsKeys, ReadsValues,
       StoresList
  <2>2. ASSUME NEW p, Goes(r, p), p.at \in Looking,
               p.name = q.name, p.target = q.target, p.try = q.try, p.goal = q.goal, p.lu = q.lu,
               p.at \in {"values", "storing"} => p.keys = Listed, p.at = "listed" => list' = Listed
        PROVE  GoesCalmly(r)
    <3>1. FileOf(p) = FileOf(q)
      BY <2>2 DEF FileOf
    <3>2. p.at \notin Timed \cup {"update", "idle", "done", "resolve", "resolved"}
      BY <2>2 DEF Looking, Timed, Reading
    <3>3. p.at \notin {"hit", "count"} \cup Reading
      BY <3>2 DEF Timed
    <3>4. Calm(p, list', cached')
      BY <2>1, <2>2, <3>1, <3>2, <3>3 DEF Calm, Chosen
    <3>. QED BY <2>2, <3>4 DEF GoesCalmly
  <2>3. CASE ListMiss(r)
    <3> DEFINE p == [q EXCEPT !.at = "keys"]
    <3>1. /\ p.at = "keys" /\ p.name = q.name /\ p.target = q.target /\ p.try = q.try
          /\ p.goal = q.goal /\ p.lu = q.lu
      BY <1>2 DEF RequestRecords
    <3>2. Goes(r, p)
      BY <1>1, <2>3 DEF ListMiss
    <3> HIDE DEF p
    <3>. QED BY <2>2, <3>1, <3>2 DEF Looking
  <2>4. CASE ListFilled(r)
    <3> DEFINE p == [q EXCEPT !.at = "storing", !.keys = list]
    <3>1. /\ p.at = "storing" /\ p.name = q.name /\ p.target = q.target /\ p.try = q.try
          /\ p.goal = q.goal /\ p.lu = q.lu /\ p.keys = list
      BY <1>2 DEF RequestRecords
    <3>2. Goes(r, p) /\ list # None
      BY <1>1, <2>4 DEF ListFilled
    <3>3. list = Listed
      BY <1>2, <3>2 DEF Calm
    <3> HIDE DEF p
    <3>. QED BY <2>2, <3>1, <3>2, <3>3 DEF Looking
  <2>5. CASE ReadsKeys(r)
    <3> DEFINE p == [q EXCEPT !.at = "values", !.keys = Listed]
    <3>1. /\ p.at = "values" /\ p.name = q.name /\ p.target = q.target /\ p.try = q.try
          /\ p.goal = q.goal /\ p.lu = q.lu /\ p.keys = Listed
      BY <1>2 DEF RequestRecords
    <3>2. Goes(r, p)
      BY <1>1, <2>5 DEF ReadsKeys
    <3> HIDE DEF p
    <3>. QED BY <2>2, <3>1, <3>2 DEF Looking
  <2>6. CASE ReadsValues(r)
    <3> DEFINE p == [q EXCEPT !.at = "storing", !.keys = q.keys \cap Listed]
    <3>1. /\ p.at = "storing" /\ p.name = q.name /\ p.target = q.target /\ p.try = q.try
          /\ p.goal = q.goal /\ p.lu = q.lu /\ p.keys = q.keys \cap Listed
      BY <1>2 DEF RequestRecords
    <3>2. Goes(r, p) /\ q.at = "values"
      BY <1>1, <2>6 DEF ReadsValues
    <3>3. p.keys = Listed
      BY <1>2, <3>1, <3>2 DEF Calm
    <3> HIDE DEF p
    <3>. QED BY <2>2, <3>1, <3>2, <3>3 DEF Looking
  <2>7. CASE StoresList(r)
    <3> DEFINE p == [q EXCEPT !.at = "listed", !.keys = {}]
    <3>1. /\ p.at = "listed" /\ p.name = q.name /\ p.target = q.target /\ p.try = q.try
          /\ p.goal = q.goal /\ p.lu = q.lu
      BY <1>2 DEF RequestRecords
    <3>2. Goes(r, p) /\ list' = q.keys /\ q.at = "storing"
      BY <1>1, <2>7 DEF StoresList
    <3>3. list' = Listed
      BY <1>2, <3>2 DEF Calm
    <3> HIDE DEF p
    <3>. QED BY <2>2, <3>1, <3>2, <3>3 DEF Looking
  <2>. QED BY <1>5, <2>3, <2>4, <2>5, <2>6, <2>7
<1>. QED BY <1>3, <1>4, <1>5

\* The resource is looked up again, to be fetched.
LEMMA CalmFetches ==
  ASSUME IInv, NEW r \in Requests, Calm(req[r], list, cached), list' \in {None, Listed},
         req[r].at \in {"update", "modified", "hit", "outdated"},
         Goes(r, Fetching(r, globalMeta[LastUpdate]))
  PROVE  GoesCalmly(r)
<1>1. PICK q : q = req[r]
  OBVIOUS
<1> DEFINE p == [q EXCEPT !.at = "exists", !.goal = "fetch", !.lu = globalMeta[LastUpdate]]
<1>2. q \in RequestRecords /\ Calm(q, list, cached) /\ q.at \in {"update", "modified", "hit", "outdated"}
  BY <1>1 DEF IInv, RequestsOK, RequestOK
<1>3. /\ p.at = "exists" /\ p.name = q.name /\ p.target = q.target /\ p.try = q.try
      /\ p.goal = "fetch" /\ p.lu = globalMeta[LastUpdate] /\ FileOf(p) = FileOf(q)
  BY <1>2 DEF RequestRecords, FileOf
<1>4. Goes(r, p)
  BY <1>1 DEF Fetching
<1> HIDE DEF p
<1>5. /\ q.name \in Names /\ q.target # None /\ q.target \notin NotAnAddress
      /\ IsAllowed(conf, q.target) /\ q.try \in DOMAIN Tries(q.name)
      /\ \A i \in 1 .. q.try - 1 : Tries(q.name)[i] \notin Listed
      /\ q.try = Len(Tries(q.name)) \/ FileOf(q) \in Listed
  BY <1>2 DEF Calm, Serving, Timed, Chosen
<1>6. Calm(p, list', cached')
  BY <1>3, <1>5 DEF Calm, Serving, Looking, Timed, Reading, Chosen
<1>. QED BY <1>4, <1>6 DEF GoesCalmly

LEMMA CalmTimes ==
  ASSUME IInv, CacheNow, NEW r \in Requests, Calm(req[r], list, cached), list' \in {None, Listed},
         ReadsUpdate(r) \/ ReadsModified(r) \/ ReadsCached(r) \/ DeletesCached(r)
  PROVE  GoesCalmly(r)
<1> USE DEF At
<1>1. PICK q : q = req[r]
  OBVIOUS
<1>2. q \in RequestRecords /\ Calm(q, list, cached) /\ RequestOK(q)
  BY <1>1 DEF IInv, RequestsOK, RequestOK
<1>3. /\ q.at \in {"update", "modified", "hit", "outdated"}
      /\ q.at # "update" => q.lu = globalMeta[LastUpdate] /\ q.lu = version
  <2>1. q.at \in {"update", "modified", "hit", "outdated"}
    BY <1>1 DEF ReadsUpdate, ReadsModified, ReadsCached, DeletesCached
  <2>2. q.at # "update" => q.lu = globalMeta[LastUpdate] /\ q.lu # None
    BY <1>2, <2>1 DEF Calm, Chosen, Timed, RequestOK
  <2>. QED BY <2>1, <2>2 DEF IInv, SiteOK, PublisherOK
<1>4. /\ q.name \in Names /\ q.target # None /\ q.target \notin NotAnAddress
      /\ IsAllowed(conf, q.target) /\ q.try \in DOMAIN Tries(q.name)
      /\ \A i \in 1 .. q.try - 1 : Tries(q.name)[i] \notin Listed
      /\ q.try = Len(Tries(q.name)) \/ FileOf(q) \in Listed
  BY <1>2, <1>3 DEF Calm, Serving, Timed, Chosen
<1>5. ASSUME NEW p, Goes(r, p), p.at \in {"modified", "hit", "outdated"},
             p.name = q.name, p.target = q.target, p.try = q.try, p.lu = globalMeta[LastUpdate],
             p.at = "hit" => cached'[FileOf(q)] = None \/ cached'[FileOf(q)].modified = version
      PROVE  GoesCalmly(r)
  <2>1. FileOf(p) = FileOf(q)
    BY <1>5 DEF FileOf
  <2>2. Calm(p, list', cached')
    BY <1>4, <1>5, <2>1 DEF Calm, Chosen, Serving, Looking, Timed, Reading
  <2>. QED BY <1>5, <2>2 DEF GoesCalmly
<1>6. CASE Goes(r, Fetching(r, globalMeta[LastUpdate]))
  BY <1>1, <1>3, <1>6, CalmFetches
<1>7. CASE ReadsUpdate(r)
  <2> DEFINE p == [q EXCEPT !.at = "modified", !.lu = globalMeta[LastUpdate]]
  <2>1. p.at = "modified" /\ p.name = q.name /\ p.target = q.target /\ p.try = q.try
        /\ p.lu = globalMeta[LastUpdate]
    BY <1>2 DEF RequestRecords
  <2>2. Goes(r, p) \/ Goes(r, Fetching(r, globalMeta[LastUpdate]))
    BY <1>1, <1>7 DEF ReadsUpdate, AfterUpdate
  <2> HIDE DEF p
  <2>. QED BY <1>5, <1>6, <2>1, <2>2
<1>8. CASE ReadsModified(r)
  <2>1. q.at = "modified" /\ UNCHANGED cached /\ q.lu = globalMeta[LastUpdate]
    BY <1>1, <1>3, <1>8 DEF ReadsModified
  <2>2. CASE UpToDate(File(r), req[r].lu) /\ Goes(r, [req[r] EXCEPT !.at = "hit"])
    <3> DEFINE p == [q EXCEPT !.at = "hit"]
    <3>1. p.at = "hit" /\ p.name = q.name /\ p.target = q.target /\ p.try = q.try /\ p.lu = q.lu
      BY <1>2 DEF RequestRecords
    <3>2. Goes(r, p)
      BY <1>1, <2>2
    <3> HIDE DEF p
    <3>3. /\ cached[FileOf(q)] # None /\ cached[FileOf(q)].modified >= version
          /\ FileOf(q) \in Files
      BY <1>1, <1>2, <1>3, <2>1, <2>2 DEF UpToDate, File, FileOf, RequestOK
    <3>4. /\ cached[FileOf(q)].modified <= version /\ cached[FileOf(q)].modified \in DOMAIN Versions
          /\ version \in Nat
      BY <3>3 DEF IInv, CacheOK, Entries, SiteOK, PublisherOK
    <3>5. cached[FileOf(q)].modified = version
      BY <3>3, <3>4, VersionType
    <3>. QED BY <1>5, <2>1, <3>1, <3>2, <3>5
  <2>3. CASE Goes(r, [req[r] EXCEPT !.at = "outdated"])
    <3> DEFINE p == [q EXCEPT !.at = "outdated"]
    <3>1. p.at = "outdated" /\ p.name = q.name /\ p.target = q.target /\ p.try = q.try /\ p.lu = q.lu
      BY <1>2 DEF RequestRecords
    <3>2. Goes(r, p)
      BY <1>1, <2>3
    <3> HIDE DEF p
    <3>. QED BY <1>5, <2>1, <3>1, <3>2
  <2>. QED BY <1>1, <1>6, <1>8, <2>1, <2>2, <2>3 DEF ReadsModified
<1>9. CASE ReadsCached(r)
  <2> DEFINE entry == cached[File(r)]
  <2>1. q.at = "hit" /\ q.lu = globalMeta[LastUpdate]
    BY <1>1, <1>3, <1>9 DEF ReadsCached
  <2>2. CASE entry # None /\ Ends(r, Answer("content", entry.content, entry.header))
    <3>1. entry.modified = version /\ File(r) \in Files /\ File(r) = Tries(q.name)[q.try]
      BY <1>1, <1>2, <2>1, <2>2 DEF Calm, File, FileOf, RequestOK
    <3>2. entry.content \in Seq(Data)
      BY <2>2, <3>1 DEF IInv, CacheOK, Entries
    <3>3. ASSUME late \cap ToSet(Tries(q.name)) = {}
          PROVE  Answer("content", entry.content, entry.header) = Expected(q.name)
      <4>1. File(r) \notin late
        BY <1>4, <3>1, <3>3 DEF ToSet
      <4>2. /\ HeldBy(File(r), entry.content) /\ Len(entry.content) = files[File(r)].count
            /\ entry.header = TheHeader(File(r))
        BY <2>2, <3>1, <4>1 DEF CacheNow
      <4> HIDE DEF entry
      <4>. QED BY <1>4, <3>1, <3>2, <4>2, ExpectedHeld
    <3>. QED BY <1>1, <2>1, <2>2, <3>3, CalmEnds DEF Serving, Timed
  <2>. QED BY <1>1, <1>6, <1>9, <2>1, <2>2 DEF ReadsCached
<1>10. CASE DeletesCached(r)
  BY <1>1, <1>3, <1>6, <1>10 DEF DeletesCached
<1>. QED BY <1>7, <1>8, <1>9, <1>10

\* What a request reads next is what the website has now, if all before was.
ReadsOn(r) ==
  \E q : /\ Goes(r, q) /\ q.at \in Reading /\ q.lu = req[r].lu /\ FileOf(q) = FileOf(req[r])
         /\ q.name = req[r].name /\ q.target = req[r].target /\ q.try = req[r].try
         /\ req[r].at = "count" \/ ReadNow(req[r]) => ReadNow(q)

\* Or the resource is not wholly there.
IsBroken(r) ==
  /\ Broken(r)
  /\ (FileOf(req[r]) \in Listed /\ (req[r].at = "count" \/ ReadNow(req[r]))) =>
       LET n == files[FileOf(req[r])].count
       IN  n = 0 \/ \E i \in 0 .. n - 1 : files[FileOf(req[r])].chunks[i] = None

LEMMA CountRead ==
  ASSUME IInv, NEW r \in Requests, ReadsCount(r)
  PROVE  ReadsOn(r) \/ IsBroken(r)
<1>1. PICK q : q = req[r]
  OBVIOUS
<1> DEFINE f == FileOf(q)
           count == files[f].count
           p == [q EXCEPT !.at = "chunks", !.count = count]
<1>2. /\ q \in RequestRecords /\ q.at = "count" /\ q.content = << >> /\ f \in Files /\ f = File(r)
  BY <1>1 DEF IInv, RequestsOK, RequestOK, ReadsCount, At, File, FileOf, Reading
<1>3. CASE count \in {None, 0}
  <2>1. Broken(r)
    BY <1>1, <1>2, <1>3 DEF ReadsCount
  <2>2. f \in Listed => count = 0
    BY <1>2, <1>3, FileTyped
  <2>. QED BY <1>1, <1>2, <2>1, <2>2 DEF IsBroken
<1>4. CASE count \notin {None, 0}
  <2>1. Goes(r, p)
    BY <1>1, <1>2, <1>4 DEF ReadsCount
  <2>2. f \in Listed /\ count \in Nat
    BY <1>2, <1>4, FileTyped
  <2>3. count > 0
    BY <1>4, <2>2
  <2> HIDE DEF count
  <2>4. /\ p.at = "chunks" /\ p.lu = q.lu /\ FileOf(p) = f /\ p.name = q.name
        /\ p.target = q.target /\ p.try = q.try /\ p.count = count /\ p.content = << >>
    BY <1>2 DEF RequestRecords, FileOf
  <2> HIDE DEF p, f
  <2>5. HeldBy(f, << >>)
    <3>1. Len(<< >>) = 0 /\ DOMAIN << >> = {}
      BY EmptySeq
    <3>. QED BY <2>2, <2>3, <3>1 DEF HeldBy, count
  <2>6. ReadNow(p)
    BY <2>4, <2>5 DEF ReadNow, count
  <2>. QED BY <1>1, <1>2, <2>1, <2>4, <2>6 DEF ReadsOn, Reading, f
<1>. QED BY <1>3, <1>4

LEMMA ChunksRead ==
  ASSUME IInv, NEW r \in Requests, ReadsChunks(r)
  PROVE  ReadsOn(r) \/ IsBroken(r)
<1>1. PICK q : q = req[r]
  OBVIOUS
<1> DEFINE f == FileOf(q)
           start == Len(q.content)
           end == Min({start + FetchBatch, q.count})
           more == Fetched(r)
           content == q.content \o more
           step == IF Len(content) = q.count THEN "headerKeys" ELSE "chunks"
           p == [q EXCEPT !.content = content, !.at = step]
           n == end - start
<1>2. /\ q \in RequestRecords /\ q.at = "chunks" /\ f \in Files /\ f = File(r)
      /\ q.content \in Seq(Data) /\ q.count \in Nat /\ q.count <= MaxChunks /\ MaxChunks \in Nat
      /\ start \in Nat /\ start <= q.count
  <2>1. q \in RequestRecords /\ q.at = "chunks" /\ RequestOK(q)
    BY <1>1 DEF IInv, RequestsOK, RequestOK, ReadsChunks, At
  <2>. QED BY <1>1, <2>1, CountType, LenProperties DEF RequestOK, Reading, File, FileOf
<1>3. end \in Nat /\ start <= end /\ end <= q.count
  <2> HIDE DEF start
  <2>1. start + FetchBatch \in Nat /\ start <= start + FetchBatch
    BY <1>2, ProviderAssumption
  <2>. QED BY <1>2, <2>1, SmallerOf
<1>4. more = [i \in 1 .. n |-> files[f].chunks[start + i - 1]] /\ n \in Nat /\ start + n = end
  <2>1. more = [i \in 1 .. n |-> files[f].chunks[start + i - 1]]
    BY <1>1, <1>2 DEF Fetched
  <2> HIDE DEF start, end
  <2>. QED BY <1>2, <1>3, <2>1
<1> HIDE DEF start, end, n
<1>5. CASE \E i \in DOMAIN more : more[i] = None
  <2>1. PICK i \in 1 .. n : files[f].chunks[start + i - 1] = None
    BY <1>4, <1>5
  <2>2. start + i - 1 \in 0 .. q.count - 1
    BY <1>2, <1>3, <1>4
  <2>3. ReadNow(q) => q.count = files[f].count
    BY DEF ReadNow
  <2>4. Broken(r) /\ q.at # "count"
    BY <1>1, <1>2, <1>5 DEF ReadsChunks
  <2>. QED BY <1>1, <2>1, <2>2, <2>3, <2>4 DEF IsBroken
<1>6. CASE \A i \in DOMAIN more : more[i] # None
  <2>1. Goes(r, p)
    BY <1>1, <1>2, <1>6 DEF ReadsChunks
  <2>2. ASSUME NEW i \in 1 .. n
        PROVE  /\ start + i - 1 \in Site!Indices /\ start + i - 1 + 1 = start + i
               /\ more[i] = files[f].chunks[start + i - 1] /\ more[i] # None /\ more[i] \in Data
    <3>1. start + i - 1 \in Site!Indices /\ start + i - 1 + 1 = start + i
      <4>1. start \in Nat /\ n \in Nat /\ i \in Nat /\ 1 <= i /\ i <= n
        BY <1>2, <1>4
      <4>2. start + n <= MaxChunks
        <5>1. end <= MaxChunks
          BY <1>2, <1>3
        <5>. QED BY <1>4, <5>1
      <4>. QED BY <1>2, <4>1, <4>2 DEF Site!Indices
    <3>2. more[i] = files[f].chunks[start + i - 1] /\ more[i] # None
      BY <1>4, <1>6
    <3>. QED BY <1>2, <3>1, <3>2, FileTyped
  <2>3. more \in Seq(Data) /\ Len(more) = n
    <3> HIDE DEF more
    <3>1. more \in [1 .. n -> Data]
      BY <1>4, <2>2
    <3>. QED BY <1>4, <3>1
  <2> HIDE DEF more
  <2>4. /\ content \in Seq(Data) /\ Len(content) = end
        /\ \A i \in 1 .. end : content[i] = IF i <= start THEN q.content[i] ELSE more[i - start]
    BY <1>2, <1>4, <2>3, ConcatProperties DEF start
  <2> HIDE DEF content
  <2>5. step \in {"chunks", "headerKeys"} /\ (step # "chunks" => Len(content) = q.count)
    OBVIOUS
  <2> HIDE DEF step
  <2>6. /\ p.at = step /\ p.lu = q.lu /\ FileOf(p) = f /\ p.name = q.name
        /\ p.target = q.target /\ p.try = q.try /\ p.count = q.count /\ p.content = content
    BY <1>2 DEF RequestRecords, FileOf
  <2>7. ASSUME ReadNow(q)
        PROVE  HeldBy(f, content) /\ q.count = files[f].count
    <3>1. HeldBy(f, q.content) /\ q.count = files[f].count
      BY <2>7 DEF ReadNow
    <3>2. ASSUME NEW i \in 1 .. end
          PROVE  content[i] # None /\ content[i] = files[f].chunks[i - 1]
      <4>1. CASE i <= start
        <5>1. i \in DOMAIN q.content
          BY <1>2, <4>1, LenProperties DEF start
        <5>. QED BY <2>4, <3>1, <4>1, <5>1 DEF HeldBy
      <4>2. CASE ~(i <= start)
        <5>1. i - start \in 1 .. n /\ start + (i - start) - 1 = i - 1
          BY <1>2, <1>3, <1>4, <4>2
        <5>. QED BY <2>2, <2>4, <4>2, <5>1
      <4>. QED BY <4>1, <4>2
    <3>3. DOMAIN content = 1 .. end
      BY <2>4, LenProperties
    <3>. QED BY <1>3, <2>4, <3>1, <3>2, <3>3 DEF HeldBy
  <2> HIDE DEF p, f
  <2>8. ReadNow(q) => ReadNow(p)
    BY <2>5, <2>6, <2>7 DEF ReadNow
  <2>. QED BY <1>1, <1>2, <2>1, <2>5, <2>6, <2>8 DEF ReadsOn, Reading, f
<1>. QED BY <1>5, <1>6

LEMMA HeadersRead ==
  ASSUME IInv, NEW r \in Requests, ReadsHeaderKeys(r) \/ ReadsHeaders(r)
  PROVE  ReadsOn(r)
<1> USE DEF At
<1>1. PICK q : q = req[r]
  OBVIOUS
<1>2. q \in RequestRecords /\ FileOf(q) = File(r)
  BY <1>1 DEF IInv, RequestsOK, RequestOK, File, FileOf
<1>3. CASE ReadsHeaderKeys(r)
  <2> DEFINE p == [q EXCEPT !.at = "headers", !.key = TheKey(FileOf(q))]
  <2>1. Goes(r, p) /\ q.at = "headerKeys"
    BY <1>1, <1>2, <1>3 DEF ReadsHeaderKeys, TheKey
  <2>2. /\ p.at = "headers" /\ p.lu = q.lu /\ FileOf(p) = FileOf(q) /\ p.name = q.name
        /\ p.target = q.target /\ p.try = q.try /\ p.count = q.count /\ p.content = q.content
        /\ p.key = TheKey(FileOf(q))
    BY <1>2 DEF RequestRecords, FileOf
  <2> HIDE DEF p
  <2>3. ReadNow(q) => ReadNow(p)
    BY <2>1, <2>2 DEF ReadNow
  <2>. QED BY <1>1, <2>1, <2>2, <2>3 DEF ReadsOn, Reading
<1>4. CASE ReadsHeaders(r)
  <2> DEFINE value == CASE q.key = "file"   -> files[File(r)].meta[Header]
                        [] q.key = "global" -> globalMeta[Header]
                        [] OTHER -> None
             header == IF q.key # None /\ value = None THEN "empty" ELSE value
             p == [q EXCEPT !.at = "save", !.key = None, !.header = header]
  <2>1. Goes(r, p) /\ q.at = "headers"
    BY <1>1, <1>4 DEF ReadsHeaders
  <2>2. ReadNow(q) => header = TheHeader(FileOf(q))
    BY <1>2, <2>1 DEF ReadNow, TheKey, TheHeader
  <2> HIDE DEF value, header
  <2>3. /\ p.at = "save" /\ p.lu = q.lu /\ FileOf(p) = FileOf(q) /\ p.name = q.name
        /\ p.target = q.target /\ p.try = q.try /\ p.count = q.count /\ p.content = q.content
        /\ p.header = header
    BY <1>2 DEF RequestRecords, FileOf
  <2> HIDE DEF p
  <2>4. ReadNow(q) => ReadNow(p)
    BY <2>1, <2>2, <2>3 DEF ReadNow
  <2>. QED BY <1>1, <2>1, <2>3, <2>4 DEF ReadsOn, Reading
<1>. QED BY <1>3, <1>4

LEMMA CalmReads ==
  ASSUME IInv, NEW r \in Requests, Calm(req[r], list, cached), list' \in {None, Listed},
         req[r].at \in {"count"} \cup Reading, ReadsOn(r) \/ IsBroken(r)
  PROVE  GoesCalmly(r)
<1>1. PICK q : q = req[r]
  OBVIOUS
<1>2. /\ q.name \in Names /\ q.target # None /\ q.target \notin NotAnAddress
      /\ IsAllowed(conf, q.target) /\ q.try \in DOMAIN Tries(q.name)
      /\ \A i \in 1 .. q.try - 1 : Tries(q.name)[i] \notin Listed
      /\ q.lu = globalMeta[LastUpdate] /\ FileOf(q) \in Listed
      /\ q.at = "count" \/ ReadNow(q)
  BY <1>1 DEF Calm, Serving, Timed, Chosen, ReadNow, HeldBy
<1>3. CASE ReadsOn(r)
  <2>1. PICK p : /\ Goes(r, p) /\ p.at \in Reading /\ p.lu = q.lu /\ FileOf(p) = FileOf(q)
                 /\ p.name = q.name /\ p.target = q.target /\ p.try = q.try /\ ReadNow(p)
    BY <1>1, <1>2, <1>3 DEF ReadsOn
  <2>2. Calm(p, list', cached')
    BY <1>2, <2>1 DEF Calm, Chosen, Serving, Looking, Timed, Reading
  <2>. QED BY <2>1, <2>2 DEF GoesCalmly
<1>4. CASE IsBroken(r)
  <2>1. Expected(q.name) = Page("broken")
    <3>1. PICK f, n : f = FileOf(q) /\ n = files[f].count
      OBVIOUS
    <3>2. n = 0 \/ \E i \in 0 .. n - 1 : files[f].chunks[i] = None
      BY <1>1, <1>2, <1>4, <3>1 DEF IsBroken
    <3>3. Expected(q.name) =
            IF n = 0 \/ \E i \in 0 .. n - 1 : files[f].chunks[i] = None THEN Page("broken")
            ELSE Answer("content", [i \in 1 .. n |-> files[f].chunks[i - 1]], TheHeader(f))
      BY <1>2, <3>1, ExpectedSome DEF FileOf
    <3>. QED BY <3>2, <3>3
  <2>. QED BY <1>1, <1>4, <2>1, CalmEnds DEF IsBroken, Broken, Serving, Timed
<1>. QED BY <1>3, <1>4

LEMMA CalmSaves ==
  ASSUME IInv, SiteNow, NEW r \in Requests, Calm(req[r], list, cached), list' \in {None, Listed},
         Saves(r) \/ SavesNothing(r)
  PROVE  GoesCalmly(r)
<1>1. PICK q : q = req[r]
  OBVIOUS
<1>2. /\ q \in RequestRecords /\ q.at = "save"
      /\ q.try \in DOMAIN Tries(q.name)
      /\ \A i \in 1 .. q.try - 1 : Tries(q.name)[i] \notin Listed
      /\ q.lu = globalMeta[LastUpdate] /\ ReadNow(q)
  BY <1>1 DEF Calm, Serving, Timed, Chosen, Reading, Saves, SavesNothing, At, IInv, RequestsOK,
              RequestOK
<1>3. q.content \in Seq(Data)
  BY <1>2 DEF RequestRecords
<1>4. Answer("content", q.content, q.header) = Expected(q.name)
  BY <1>2, <1>3, ExpectedHeld DEF ReadNow, FileOf
<1>5. q.lu # None
  <2>1. version # 0
    BY <1>2 DEF ReadNow, HeldBy, SiteNow
  <2>. QED BY <1>2, <2>1, WebsiteAssumption DEF IInv, SiteOK, PublisherOK, Site!SiteAssumption
<1>6. Ends(r, Answer("content", q.content, q.header))
  BY <1>1, <1>5 DEF Saves, SavesNothing
<1>. QED BY <1>1, <1>2, <1>4, <1>6, CalmEnds DEF Serving, Timed, Reading

\* The request is admitted, or not.
LEMMA CalmAdmits ==
  ASSUME NEW r \in Requests, NEW q \in RequestRecords, NEW address \in Targets,
         q.name \in Names, q.try = 1, q.goal = "resolve", list' \in {None, Listed},
         Admits(r, q, address)
  PROVE  GoesCalmly(r)
<1> DEFINE done(page) == [q EXCEPT !.at = "done", !.target = address, !.answer = Page(page)]
           p == [q EXCEPT !.at = "exists", !.target = address]
<1>1. ASSUME NEW page, Goes(r, done(page)),
             Page(page) = IF address \in NotAnAddress THEN Page("broken")
                          ELSE IF ~IsAllowed(conf, address) THEN Page("notAvailable")
                          ELSE Expected(q.name)
      PROVE  GoesCalmly(r)
  <2>1. PICK d : d = done(page)
    OBVIOUS
  <2>2. d.at = "done" /\ d.target = address /\ d.answer = Page(page) /\ d.name = q.name
    BY <2>1 DEF RequestRecords
  <2>3. RightFor(d)
    BY <1>1, <2>2 DEF RightFor
  <2>4. Calm(d, list', cached')
    BY <2>2, <2>3 DEF Calm, Chosen, Serving, Looking, Timed, Reading
  <2>. QED BY <1>1, <2>1, <2>4 DEF GoesCalmly
<1>2. CASE address \notin NotAnAddress /\ IsAllowed(conf, address) /\ Goes(r, p)
  <2>1. /\ p.at = "exists" /\ p.target = address /\ p.name = q.name /\ p.try = 1
        /\ p.goal = "resolve"
    BY DEF RequestRecords
  <2> HIDE DEF p
  <2>2. address # None /\ 1 \in DOMAIN Tries(q.name) /\ 1 .. p.try - 1 = {}
    BY <2>1, GatewayAssumption, TriesType DEF Targets
  <2>3. Calm(p, list', cached')
    BY <1>2, <2>1, <2>2 DEF Calm, Chosen, Serving, Looking, Timed, Reading
  <2>. QED BY <1>2, <2>3 DEF GoesCalmly
<1>3. \/ address \in NotAnAddress /\ Goes(r, done("broken"))
      \/ /\ address \notin NotAnAddress /\ ~IsAllowed(conf, address)
         /\ Goes(r, done("notAvailable"))
      \/ address \notin NotAnAddress /\ IsAllowed(conf, address) /\ Goes(r, p)
  BY DEF Admits
<1> HIDE DEF done, p
<1>. QED BY <1>1, <1>2, <1>3

LEMMA CalmResolved ==
  ASSUME IInv, NEW r \in Requests, Calm(req[r], list, cached), list' \in {None, Listed},
         NEW address \in Targets, Resolves(r, address)
  PROVE  GoesCalmly(r)
<1>1. PICK q : q = req[r]
  OBVIOUS
<1>2. q \in RequestRecords /\ q.at = "resolve"
  BY <1>1 DEF IInv, RequestsOK, RequestOK, Resolves, At
<1>3. q.name \in Names /\ q.try = 1 /\ q.goal = "resolve"
  BY <1>1, <1>2 DEF Calm
<1> DEFINE p == [q EXCEPT !.at = "resolved", !.target = address]
<1>4. p.at = "resolved" /\ p.name = q.name /\ p.try = q.try /\ p.goal = q.goal
  BY <1>2 DEF RequestRecords
<1>5. Goes(r, p)
  BY <1>1 DEF Resolves
<1> HIDE DEF p
<1>6. Calm(p, list', cached')
  BY <1>3, <1>4 DEF Calm, Chosen, Serving, Looking, Timed, Reading
<1>. QED BY <1>5, <1>6 DEF GoesCalmly

LEMMA CalmCaches ==
  ASSUME IInv, NEW r \in Requests, Calm(req[r], list, cached), list' \in {None, Listed}, Caches(r)
  PROVE  GoesCalmly(r)
<1>1. PICK q : q = req[r]
  OBVIOUS
<1>2. q \in RequestRecords /\ RequestOK(q) /\ q.at = "resolved" /\ Admits(r, q, q.target)
  BY <1>1 DEF IInv, RequestsOK, RequestOK, Caches, At
<1>3. q.name \in Names /\ q.try = 1 /\ q.goal = "resolve" /\ q.target \in Targets
  BY <1>1, <1>2 DEF Calm, RequestOK, RequestRecords
<1>. QED BY <1>2, <1>3, CalmAdmits

LEMMA CalmComes ==
  ASSUME IInv, NEW r \in Requests, Comes(r), list' \in {None, Listed}
  PROVE  GoesCalmly(r)
<1>1. PICK idle : idle = Idle
  OBVIOUS
<1>2. idle \in RequestRecords /\ idle.try = 1 /\ idle.goal = "resolve" /\ idle.target = None
  BY <1>1, IdleOK DEF RequestOK, Idle
<1>3. ASSUME NEW page \in OwnPages, ServesOwnPage(r, page)
      PROVE  GoesCalmly(r)
  <2> DEFINE p == [idle EXCEPT !.at = "done", !.name = req[r].name, !.target = req[r].target,
                               !.answer = Page(page)]
  <2>1. req[r].at = "idle" /\ RequestOK(req[r])
    BY <1>3 DEF ServesOwnPage, At, IInv, RequestsOK
  <2>2. p.at = "done" /\ p.target = None
    BY <1>2, <2>1 DEF RequestRecords, RequestOK
  <2>3. Goes(r, p)
    BY <1>1, <1>3 DEF ServesOwnPage, Ends
  <2> HIDE DEF p
  <2>4. Calm(p, list', cached')
    BY <2>2 DEF Calm, Chosen, Serving, Looking, Timed, Reading
  <2>. QED BY <2>3, <2>4 DEF GoesCalmly
<1>4. ASSUME NEW name \in Names, Arrives(r, name)
      PROVE  GoesCalmly(r)
  <2> DEFINE q == [idle EXCEPT !.name = name]
             p == [q EXCEPT !.at = "resolve"]
  <2>1. q \in RequestRecords /\ q.name = name /\ q.try = 1 /\ q.goal = "resolve"
    BY <1>2 DEF RequestRecords
  <2> HIDE DEF q
  <2>2. p.at = "resolve" /\ p.name = name /\ p.try = 1 /\ p.goal = "resolve"
    BY <2>1 DEF RequestRecords
  <2> HIDE DEF p
  <2>3. (mnsCache # None /\ Admits(r, q, mnsCache)) \/ Goes(r, p)
    BY <1>1, <1>4 DEF Arrives, q, p
  <2>4. mnsCache # None => mnsCache \in Targets
    BY DEF IInv, CachesOK
  <2>5. Calm(p, list', cached')
    BY <2>2 DEF Calm, Chosen, Serving, Looking, Timed, Reading
  <2>. QED BY <2>1, <2>3, <2>4, <2>5, CalmAdmits DEF GoesCalmly
<1>. QED BY <1>3, <1>4 DEF Comes

\* The request reads nothing of the resource, or stops to.
Rests(r) == \E q : Goes(r, q) /\ q.at \notin Reading

LEMMA EndsRests ==
  ASSUME NEW r, NEW answer, Ends(r, answer)
  PROVE  Rests(r)
<1>1. PICK idle, q : idle = Idle /\ q = req[r]
  OBVIOUS
<1> DEFINE p == [idle EXCEPT !.at = "done", !.name = q.name, !.target = q.target, !.answer = answer]
<1>2. p.at = "done"
  BY <1>1 DEF Idle
<1>3. Goes(r, p)
  BY <1>1 DEF Ends
<1> HIDE DEF p
<1>. QED BY <1>2, <1>3 DEF Rests, Reading

LEMMA MovesRests ==
  ASSUME NEW r, NEW q \in RequestRecords, NEW p, Goes(r, p), NEW step, p.at = step,
         step \notin Reading
  PROVE  Rests(r)
BY DEF Rests

LEMMA FoundRests ==
  ASSUME IInv, NEW r \in Requests, NEW found, Found(r, found)
  PROVE  Rests(r)
<1>1. PICK q : q = req[r]
  OBVIOUS
<1> DEFINE tried == [q EXCEPT !.at = "exists", !.try = @ + 1]
           resolved == [q EXCEPT !.at = "update"]
           fetched == [q EXCEPT !.at = "count"]
<1>2. q \in RequestRecords
  BY <1>1 DEF IInv, RequestsOK, RequestOK
<1>3. tried.at = "exists" /\ resolved.at = "update" /\ fetched.at = "count"
  BY <1>2 DEF RequestRecords
<1>4. Goes(r, tried) \/ Goes(r, resolved) \/ Goes(r, fetched) \/ Broken(r)
  BY <1>1 DEF Found
<1> HIDE DEF tried, resolved, fetched
<1>. QED BY <1>3, <1>4, EndsRests DEF Rests, Reading, Broken

LEMMA AdmitsRests ==
  ASSUME NEW r \in Requests, NEW q \in RequestRecords, NEW address, Admits(r, q, address)
  PROVE  Rests(r)
<1> DEFINE done(page) == [q EXCEPT !.at = "done", !.target = address, !.answer = Page(page)]
           p == [q EXCEPT !.at = "exists", !.target = address]
<1>1. done("broken").at = "done" /\ done("notAvailable").at = "done" /\ p.at = "exists"
  BY DEF RequestRecords
<1>2. Goes(r, done("broken")) \/ Goes(r, done("notAvailable")) \/ Goes(r, p)
  BY DEF Admits
<1> HIDE DEF done, p
<1>. QED BY <1>1, <1>2 DEF Rests, Reading

LEMMA ComesRests ==
  ASSUME IInv, NEW r \in Requests, Comes(r)
  PROVE  Rests(r)
<1>1. PICK idle : idle = Idle
  OBVIOUS
<1>2. idle \in RequestRecords
  BY <1>1, IdleOK DEF RequestOK
<1>3. ASSUME NEW page \in OwnPages, ServesOwnPage(r, page)
      PROVE  Rests(r)
  BY <1>3, EndsRests DEF ServesOwnPage
<1>4. ASSUME NEW name \in Names, Arrives(r, name)
      PROVE  Rests(r)
  <2> DEFINE q == [idle EXCEPT !.name = name]
             p == [q EXCEPT !.at = "resolve"]
  <2>1. q \in RequestRecords
    BY <1>2 DEF RequestRecords
  <2> HIDE DEF q
  <2>2. p.at = "resolve"
    BY <2>1 DEF RequestRecords
  <2> HIDE DEF p
  <2>3. Admits(r, q, mnsCache) \/ Goes(r, p)
    BY <1>1, <1>4 DEF Arrives, q, p
  <2>. QED BY <2>1, <2>2, <2>3, AdmitsRests DEF Rests, Reading
<1>. QED BY <1>3, <1>4 DEF Comes

\* What a request reads follows what it has read, and nothing else does.
LEMMA OwnReads ==
  ASSUME IInv, NEW r \in Requests, Comes(r) \/ Serves(r) \/ Fails(r) \/ (Leaves(r) /\ Unserved)
  PROVE  Rests(r) \/ (ReadsOn(r) /\ req[r].at \in {"count"} \cup Reading)
<1>1. PICK q : q = req[r]
  OBVIOUS
<1>2. q \in RequestRecords
  BY <1>1 DEF IInv, RequestsOK, RequestOK
<1>3. CASE Comes(r)
  BY <1>3, ComesRests
<1>4. CASE Leaves(r)
  BY <1>4 DEF Leaves, Rests, Idle, Reading
<1>5. CASE Caches(r)
  BY <1>1, <1>2, <1>5, AdmitsRests DEF Caches
<1>6. ASSUME NEW address \in Targets, Resolves(r, address)
      PROVE  Rests(r)
  <2> DEFINE p == [q EXCEPT !.at = "resolved", !.target = address]
  <2>1. p.at = "resolved"
    BY <1>2 DEF RequestRecords
  <2>2. Goes(r, p)
    BY <1>1, <1>6 DEF Resolves
  <2> HIDE DEF p
  <2>. QED BY <2>1, <2>2 DEF Rests, Reading
<1>7. CASE ResolveFails(r)
  BY <1>7, EndsRests DEF ResolveFails
<1>8. ASSUME NEW lu, Goes(r, Fetching(r, lu))
      PROVE  Rests(r)
  <2> DEFINE p == [q EXCEPT !.at = "exists", !.goal = "fetch", !.lu = lu]
  <2>1. p.at = "exists" /\ Goes(r, p)
    BY <1>1, <1>2, <1>8 DEF RequestRecords, Fetching
  <2> HIDE DEF p
  <2>. QED BY <2>1 DEF Rests, Reading
<1>9. ASSUME NEW lu, Goes(r, AfterUpdate(r, lu))
      PROVE  Rests(r)
  <2> DEFINE p == [q EXCEPT !.at = "modified", !.lu = lu]
  <2>1. p.at = "modified"
    BY <1>2 DEF RequestRecords
  <2>2. Goes(r, p) \/ Goes(r, Fetching(r, lu))
    BY <1>1, <1>9 DEF AfterUpdate
  <2> HIDE DEF p
  <2>. QED BY <1>8, <2>1, <2>2 DEF Rests, Reading
<1>10. CASE ReadFails(r)
  <2>1. Goes(r, AfterUpdate(r, None)) \/ Broken(r)
    BY <1>10 DEF ReadFails
  <2>. QED BY <1>9, <2>1, EndsRests DEF Broken
<1>11. CASE ListHit(r)
  BY <1>11, FoundRests DEF ListHit
<1>12. CASE LooksAgain(r)
  <2>1. PICK found : Found(r, found)
    BY <1>12 DEF LooksAgain
  <2>. QED BY <2>1, FoundRests
<1>13. CASE ListMiss(r) \/ ListFilled(r) \/ ReadsKeys(r) \/ ReadsValues(r) \/ StoresList(r)
  <2> DEFINE k == [q EXCEPT !.at = "keys"]
             l == [q EXCEPT !.at = "storing", !.keys = list]
             v == [q EXCEPT !.at = "values", !.keys = Listed]
             w == [q EXCEPT !.at = "storing", !.keys = q.keys \cap Listed]
             x == [q EXCEPT !.at = "listed", !.keys = {}]
  <2>1. k.at = "keys" /\ l.at = "storing" /\ v.at = "values" /\ w.at = "storing" /\ x.at = "listed"
    BY <1>2 DEF RequestRecords
  <2>2. Goes(r, k) \/ Goes(r, l) \/ Goes(r, v) \/ Goes(r, w) \/ Goes(r, x)
    BY <1>1, <1>13 DEF ListMiss, ListFilled, ReadsKeys, ReadsValues, StoresList
  <2> HIDE DEF k, l, v, w, x
  <2>. QED BY <2>1, <2>2 DEF Rests, Reading
<1>14. CASE ReadsUpdate(r)
  BY <1>9, <1>14 DEF ReadsUpdate
<1>15. CASE ReadsModified(r)
  <2> DEFINE h == [q EXCEPT !.at = "hit"]
             o == [q EXCEPT !.at = "outdated"]
  <2>1. h.at = "hit" /\ o.at = "outdated"
    BY <1>2 DEF RequestRecords
  <2>2. Goes(r, h) \/ Goes(r, o) \/ Goes(r, Fetching(r, req[r].lu))
    BY <1>1, <1>15 DEF ReadsModified
  <2> HIDE DEF h, o
  <2>. QED BY <1>8, <2>1, <2>2 DEF Rests, Reading
<1>16. CASE ReadsCached(r) \/ DeletesCached(r)
  <2>1. Goes(r, Fetching(r, req[r].lu)) \/ \E answer : Ends(r, answer)
    BY <1>16 DEF ReadsCached, DeletesCached
  <2>. QED BY <1>8, <2>1, EndsRests
<1>17. CASE ReadsCount(r) \/ ReadsChunks(r) \/ ReadsHeaderKeys(r) \/ ReadsHeaders(r)
  <2>1. ReadsOn(r) \/ IsBroken(r)
    BY <1>17, CountRead, ChunksRead, HeadersRead
  <2>2. req[r].at \in {"count"} \cup Reading
    BY <1>17 DEF ReadsCount, ReadsChunks, ReadsHeaderKeys, ReadsHeaders, At, Reading
  <2>. QED BY <2>1, <2>2, EndsRests DEF IsBroken, Broken
<1>18. CASE Saves(r) \/ SavesNothing(r)
  <2>1. \E answer : Ends(r, answer)
    BY <1>18 DEF Saves, SavesNothing
  <2>. QED BY <2>1, EndsRests
<1>. QED BY <1>3, <1>4, <1>5, <1>6, <1>7, <1>10, <1>11, <1>12, <1>13, <1>14, <1>15, <1>16, <1>17,
            <1>18 DEF Serves, Fails

\* A step of a request, or of none.
LEMMA RequestsNowKept ==
  ASSUME IInv, RequestsNow, UNCHANGED <<files, globalMeta, version, late>>,
         NEW r \in Requests,
         Rests(r) \/ (ReadsOn(r) /\ req[r].at \in {"count"} \cup Reading)
  PROVE  RequestsNow'
<1>1. ASSUME NEW q
      PROVE  ReadNow(q)' <=> ReadNow(q)
  BY DEF ReadNow, HeldBy, TheHeader, TheKey, Listed
<1>2. req = [p \in Requests |-> req[p]]
  BY DEF IInv, RequestsOK
<1>3. ASSUME NEW q, Goes(r, q),
             q.at \in Reading /\ q.lu # None /\ q.lu = version /\ FileOf(q) \in Files \ late
               => ReadNow(q)
      PROVE  RequestsNow'
  <2>1. ASSUME NEW p \in Requests
        PROVE  req'[p] = IF p = r THEN q ELSE req[p]
    BY <1>2, <1>3 DEF Goes
  <2>2. ASSUME NEW p \in Requests, NEW d, d = req'[p], d.at \in Reading, d.lu # None,
               d.lu = version, FileOf(d) \in Files \ late
        PROVE  ReadNow(d)'
    <3>1. ReadNow(d)
      BY <1>3, <2>1, <2>2 DEF RequestsNow
    <3>. QED BY <1>1, <3>1
  <2>3. ASSUME NEW p \in Requests, req'[p].at \in Reading, req'[p].lu # None,
               req'[p].lu = version, FileOf(req'[p]) \in Files \ late
        PROVE  ReadNow(req[p])'
    <3>1. PICK d : d = req'[p]
      OBVIOUS
    <3>2. ReadNow(d)'
      BY <2>2, <2>3, <3>1
    <3>. QED BY <3>1, <3>2
  <2>. QED BY <2>3 DEF RequestsNow, FileOf
<1>4. CASE Rests(r)
  <2>1. PICK q : Goes(r, q) /\ q.at \notin Reading
    BY <1>4 DEF Rests
  <2>. QED BY <1>3, <2>1
<1>5. CASE ReadsOn(r) /\ req[r].at \in {"count"} \cup Reading
  <2>1. PICK q : /\ Goes(r, q) /\ q.lu = req[r].lu /\ FileOf(q) = FileOf(req[r])
                 /\ req[r].at = "count" \/ ReadNow(req[r]) => ReadNow(q)
    BY <1>5 DEF ReadsOn
  <2>2. ASSUME q.lu # None, q.lu = version, FileOf(q) \in Files \ late
        PROVE  ReadNow(q)
    BY <1>5, <2>1, <2>2 DEF RequestsNow
  <2>. QED BY <1>3, <2>1, <2>2
<1>. QED BY <1>4, <1>5

LEMMA RequestsNowIdle ==
  ASSUME RequestsNow, UNCHANGED <<files, globalMeta, version, late>>,
         req' = req \/ req' = [r \in Requests |-> Idle]
  PROVE  RequestsNow'
<1>1. CASE req' = req
  BY <1>1 DEF RequestsNow, ReadNow, HeldBy, TheHeader, TheKey, Listed, FileOf
<1>2. CASE req' = [r \in Requests |-> Idle]
  <2>1. \A r \in Requests : req'[r].at = "idle"
    BY <1>2 DEF Idle
  <2>. QED BY <2>1 DEF RequestsNow, Reading
<1>. QED BY <1>1, <1>2

\* What the cache loses, and what a request saves in it.
LEMMA CacheNowKept ==
  ASSUME CacheNow, UNCHANGED <<files, globalMeta, version, late>>,
         \A f \in Files : cached'[f] \in {cached[f], None}
  PROVE  CacheNow'
<1>1. ASSUME NEW f \in Files \ late, cached'[f] # None, cached'[f].modified = version
      PROVE  (/\ HeldBy(f, cached[f].content) /\ Len(cached[f].content) = files[f].count
              /\ cached[f].header = TheHeader(f))'
  <2>1. cached'[f] = cached[f]
    BY <1>1
  <2>2. /\ HeldBy(f, cached[f].content) /\ Len(cached[f].content) = files[f].count
        /\ cached[f].header = TheHeader(f)
    BY <1>1, <2>1 DEF CacheNow
  <2>. QED BY <2>1, <2>2 DEF HeldBy, TheHeader, Listed
<1>. QED BY <1>1 DEF CacheNow

LEMMA SavesNow ==
  ASSUME IInv, CacheNow, RequestsNow, NEW r \in Requests, Saves(r)
  PROVE  CacheNow'
<1>1. PICK q : q = req[r]
  OBVIOUS
<1>2. UNCHANGED <<files, globalMeta, version, late>> /\ q.at = "save" /\ File(r) = FileOf(q)
  BY <1>1 DEF Saves, chainVars, At, File, FileOf
<1>3. CASE cached' = cached
  BY <1>2, <1>3, CacheNowKept
<1>4. CASE req[r].lu # None /\ cached' = [cached EXCEPT ![File(r)] = Entry(r)]
  <2> DEFINE entry == [content |-> q.content, header |-> q.header, modified |-> q.lu]
  <2>1. cached \in [Files -> Entries \cup {None}]
    BY DEF IInv, CacheOK
  <2>2. \A f \in Files : cached'[f] = IF f = FileOf(q) THEN entry ELSE cached[f]
    BY <1>1, <1>2, <1>4, <2>1 DEF Entry
  <2>3. entry.content = q.content /\ entry.header = q.header /\ entry.modified = q.lu
    OBVIOUS
  <2> HIDE DEF entry
  <2>4. ASSUME NEW f \in Files \ late, NEW e, e = cached'[f], e # None, e.modified = version
        PROVE  (HeldBy(f, e.content) /\ Len(e.content) = files[f].count /\ e.header = TheHeader(f))'
    <3>1. HeldBy(f, e.content) /\ Len(e.content) = files[f].count /\ e.header = TheHeader(f)
      <4>1. CASE f = FileOf(q)
        <5>1. e = entry
          BY <2>2, <2>4, <4>1
        <5>2. ReadNow(q)
          BY <1>1, <1>2, <1>4, <2>3, <2>4, <4>1, <5>1 DEF RequestsNow, Reading
        <5>. QED BY <1>2, <2>3, <4>1, <5>1, <5>2 DEF ReadNow
      <4>2. CASE f # FileOf(q)
        BY <2>2, <2>4, <4>2 DEF CacheNow
      <4>. QED BY <4>1, <4>2
    <3>. QED BY <1>2, <3>1 DEF HeldBy, TheHeader, Listed
  <2>5. ASSUME NEW f \in Files \ late, cached'[f] # None, cached'[f].modified = version
        PROVE  (/\ HeldBy(f, cached[f].content) /\ Len(cached[f].content) = files[f].count
                /\ cached[f].header = TheHeader(f))'
    <3>1. PICK e : e = cached'[f]
      OBVIOUS
    <3>2. (HeldBy(f, e.content) /\ Len(e.content) = files[f].count /\ e.header = TheHeader(f))'
      BY <2>4, <2>5, <3>1
    <3>. QED BY <3>1, <3>2
  <2>. QED BY <1>2, <2>5 DEF CacheNow
<1>. QED BY <1>3, <1>4 DEF Saves

\* What the steps of requests do to the cache.
LEMMA OwnCache ==
  ASSUME IInv, NEW r \in Requests, Comes(r) \/ Serves(r) \/ Fails(r) \/ (Leaves(r) /\ Unserved)
  PROVE  Saves(r) \/ \A f \in Files : cached'[f] \in {cached[f], None}
<1>1. ASSUME gateUnchanged
      PROVE  \A f \in Files : cached'[f] \in {cached[f], None}
  BY <1>1 DEF gateUnchanged
<1>5. CASE Comes(r)
  BY <1>1, <1>5, ComesOK
<1>6. CASE Caches(r) \/ ResolveFails(r)
  BY <1>1, <1>6 DEF Caches, ResolveFails
<1>7. ASSUME NEW address \in Targets, Resolves(r, address)
      PROVE  \A f \in Files : cached'[f] \in {cached[f], None}
  <2>1. gateUnchanged
    BY <1>7 DEF Resolves
  <2>. QED BY <1>1, <2>1
<1>2. CASE Leaves(r) \/ ReadFails(r) \/ ListHit(r) \/ ListMiss(r) \/ ListFilled(r) \/ ReadsKeys(r)
           \/ ReadsValues(r) \/ StoresList(r) \/ LooksAgain(r)
  <2>1. cached' = cached
    BY <1>2 DEF Leaves, ReadFails, ListHit, ListMiss, ListFilled, ReadsKeys, ReadsValues, StoresList,
                LooksAgain
  <2>. QED BY <2>1
<1>3. CASE ReadsUpdate(r) \/ ReadsModified(r) \/ ReadsCached(r) \/ ReadsCount(r) \/ ReadsChunks(r)
           \/ ReadsHeaderKeys(r) \/ ReadsHeaders(r) \/ SavesNothing(r)
  <2>1. cached' = cached
    BY <1>3 DEF ReadsUpdate, ReadsModified, ReadsCached, ReadsCount, ReadsChunks, ReadsHeaderKeys,
                ReadsHeaders, SavesNothing
  <2>. QED BY <2>1
<1>4. CASE DeletesCached(r)
  <2>1. cached \in [Files -> Entries \cup {None}]
    BY DEF IInv, CacheOK
  <2>2. cached' = cached \/ cached' = [cached EXCEPT ![File(r)] = None]
    BY <1>4 DEF DeletesCached
  <2>. QED BY <2>1, <2>2
<1>. QED BY <1>2, <1>3, <1>4, <1>5, <1>6, <1>7 DEF Serves, Fails

\* Every step keeps what the cache and the requests know of the website.
LEMMA WebsiteNow ==
  ASSUME IInv, Now, [Next]_<<gatewayVars, calm>>
  PROVE  SiteNow' /\ CacheNow' /\ RequestsNow'
<1>1. ASSUME UNCHANGED chainVars
      PROVE  SiteNow' /\ UNCHANGED <<files, globalMeta, version, late>>
  BY <1>1 DEF Now, SiteNow, Listed, chainVars
<1>2. CASE UNCHANGED <<gatewayVars, calm>>
  <2>1. UNCHANGED <<chainVars, cached, req>>
    BY <1>2 DEF gatewayVars, chainVars
  <2>. QED BY <1>1, <2>1, RequestsNowIdle, CacheNowKept DEF Now
<1>3. CASE Publisher
  BY <1>3, PublishesNow, PublishesRestNow, PostsNow DEF Publisher
<1>4. CASE Passes
  <2>1. UNCHANGED <<chainVars, req>>
    BY <1>4 DEF Passes, ListExpires, Forgets, MnsExpires, gateUnchanged
  <2>2. \A f \in Files : cached'[f] \in {cached[f], None}
    <3>1. CASE cached' = cached
      BY <3>1
    <3>2. ASSUME NEW g \in Files, Forgets(g)
          PROVE  \A f \in Files : cached'[f] \in {cached[f], None}
      BY <3>2 DEF Forgets, IInv, CacheOK
    <3>. QED BY <1>4, <3>1, <3>2 DEF Passes, ListExpires, MnsExpires, gateUnchanged
  <2>. QED BY <1>1, <2>1, <2>2, RequestsNowIdle, CacheNowKept DEF Now
<1>5. CASE Server
  <2>1. UNCHANGED <<chainVars, cached>> /\ (req' = req \/ req' = [r \in Requests |-> Idle])
    BY <1>5 DEF Server, Boots, Accepts, AsksAgain, Refuses, Stops, IsUpgraded, Loads, bootUnchanged
  <2>. QED BY <1>1, <2>1, RequestsNowIdle, CacheNowKept DEF Now
<1>6. ASSUME NEW r \in Requests, Comes(r) \/ Serves(r) \/ Fails(r) \/ (Leaves(r) /\ Unserved)
      PROVE  SiteNow' /\ CacheNow' /\ RequestsNow'
  <2>1. UNCHANGED chainVars
    BY <1>6, OwnStepKeeps
  <2>2. RequestsNow'
    BY <1>1, <1>6, <2>1, OwnReads, RequestsNowKept DEF Now
  <2>3. CacheNow'
    BY <1>1, <1>6, <2>1, OwnCache, SavesNow, CacheNowKept DEF Now
  <2>. QED BY <1>1, <2>1, <2>2, <2>3
<1>. QED BY <1>2, <1>3, <1>4, <1>5, <1>6 DEF Next

\* A step of a request keeps it calm.
LEMMA CalmGoes ==
  ASSUME RequestsOK, NEW r \in Requests, GoesCalmly(r),
         UNCHANGED <<files, globalMeta, version, late, conf>>
  PROVE  Calm(req[r], list, cached)'
<1>1. PICK q : Goes(r, q) /\ Calm(q, list', cached')
  BY DEF GoesCalmly
<1>2. req'[r] = q
  BY <1>1 DEF RequestsOK, Goes
<1>3. PICK l, k : l = list' /\ k = cached'
  OBVIOUS
<1>4. Calm(q, l, k)'
  BY <1>1, <1>3, CalmStays
<1>. QED BY <1>2, <1>3, <1>4

LEMMA CalmServes ==
  ASSUME IInv, Now, NEW r \in Requests, Calm(req[r], list, cached), list' \in {None, Listed}, Serves(r)
  PROVE  GoesCalmly(r)
<1>1. SiteNow /\ CacheNow
  BY DEF Now
<1>2. CASE Caches(r) \/ \E address \in Targets : Resolves(r, address)
  BY <1>2, CalmCaches, CalmResolved
<1>3. CASE ListHit(r) \/ ListMiss(r) \/ ListFilled(r) \/ ReadsKeys(r) \/ ReadsValues(r)
           \/ StoresList(r) \/ LooksAgain(r)
  BY <1>3, CalmLooks
<1>4. CASE ReadsUpdate(r) \/ ReadsModified(r) \/ ReadsCached(r) \/ DeletesCached(r)
  BY <1>1, <1>4, CalmTimes
<1>5. CASE ReadsCount(r) \/ ReadsChunks(r) \/ ReadsHeaderKeys(r) \/ ReadsHeaders(r)
  <2>1. req[r].at \in {"count"} \cup Reading
    BY <1>5 DEF ReadsCount, ReadsChunks, ReadsHeaderKeys, ReadsHeaders, At, Reading
  <2>. QED BY <1>5, <2>1, CountRead, ChunksRead, HeadersRead, CalmReads
<1>6. CASE Saves(r) \/ SavesNothing(r)
  BY <1>1, <1>6, CalmSaves
<1>. QED BY <1>2, <1>3, <1>4, <1>5, <1>6 DEF Serves

\* A request that is served has come.
LEMMA ServesLater ==
  ASSUME NEW r \in Requests, Serves(r)
  PROVE  req[r].at # "idle"
<1> USE DEF At
<1>1. CASE Unserved /\ (ListHit(r) \/ ListMiss(r) \/ ListFilled(r) \/ ReadsKeys(r)
                      \/ ReadsValues(r) \/ StoresList(r) \/ LooksAgain(r))
  BY <1>1 DEF ListHit, ListMiss, ListFilled, ReadsKeys, ReadsValues, StoresList, LooksAgain
<1>2. CASE Unserved /\ (ReadsUpdate(r) \/ ReadsModified(r) \/ ReadsCached(r) \/ DeletesCached(r))
  BY <1>2 DEF ReadsUpdate, ReadsModified, ReadsCached, DeletesCached
<1>3. CASE Unserved /\ (ReadsCount(r) \/ ReadsChunks(r) \/ ReadsHeaderKeys(r) \/ ReadsHeaders(r)
                      \/ Saves(r) \/ SavesNothing(r))
  BY <1>3 DEF ReadsCount, ReadsChunks, ReadsHeaderKeys, ReadsHeaders, Saves, SavesNothing
<1>4. CASE Caches(r)
  BY <1>4 DEF Caches
<1>5. ASSUME NEW address \in Targets, Resolves(r, address)
      PROVE  req[r].at # "idle"
  BY <1>5 DEF Resolves
<1>. QED BY <1>1, <1>2, <1>3, <1>4, <1>5 DEF Serves

\* Whose step it is.
LEMMA OthersKeep ==
  ASSUME NEW r \in Requests, NEW p \in Requests, p # r, RequestsOK,
         Comes(p) \/ Serves(p) \/ Fails(p) \/ (Leaves(p) /\ Unserved)
  PROVE  req'[r] = req[r]
<1>1. \E q : Goes(p, q)
  BY OwnStepKeeps
<1>. QED BY <1>1 DEF Goes, RequestsOK

\* Nothing but interference makes a request less than calm.
LEMMA CalmNext ==
  ASSUME IInv, IInv', Now, calm \subseteq Requests, [Next]_<<gatewayVars, calm>>
  PROVE  CalmOK'
<1>1. CASE UNCHANGED <<gatewayVars, calm>>
  <2>1. ASSUME NEW r \in calm
        PROVE  Calm(req[r], list, cached)'
    <3>1. PICK q, l, k : q = req[r] /\ l = list /\ k = cached
      OBVIOUS
    <3>2. Calm(q, l, k)
      BY <3>1 DEF Now, CalmOK
    <3>3. UNCHANGED <<files, globalMeta, version, late, conf, req, list, cached>>
      BY <1>1 DEF gatewayVars
    <3>4. Calm(q, l, k)'
      BY <3>2, <3>3, CalmStays
    <3>. QED BY <3>1, <3>3, <3>4
  <2>. QED BY <1>1, <2>1 DEF CalmOK
<1>2. ASSUME NEW r \in Requests, NEW p \in Requests, Fails(p),
             calm' = {q \in calm \ {p} : Undisturbed(q)}, r \in calm'
      PROVE  Calm(req[r], list, cached)'
  <2>1. r \in calm /\ r # p /\ Undisturbed(r)
    BY <1>2
  <2>2. req'[r] = req[r]
    BY <1>2, <2>1, OthersKeep DEF IInv
  <2>. QED BY <2>1, <2>2, CalmOfOthers DEF Now, CalmOK
<1>3. ASSUME NEW r \in Requests,
             (\E p \in Requests : Comes(p) \/ Serves(p) \/ (Leaves(p) /\ Unserved))
               \/ Publisher \/ Passes \/ Server,
             r \in calm \/ At(r, "idle"), req'[r].at # "idle", Undisturbed(r)
      PROVE  Calm(req[r], list, cached)'
  <2>1. list' \in {None, Listed}
    BY <1>3 DEF Undisturbed, Listed
  <2>2. CASE req'[r] = req[r]
    <3>1. Calm(req[r], list, cached)
      BY <1>3, <2>2 DEF At, Now, CalmOK
    <3>. QED BY <1>3, <2>2, <3>1, CalmOfOthers
  <2>3. CASE Comes(r) \/ Serves(r)
    <3>1. GoesCalmly(r)
      <4>1. CASE Comes(r)
        BY <2>1, <4>1, CalmComes
      <4>2. CASE Serves(r)
        <5>1. req[r].at # "idle"
          BY <4>2, ServesLater
        <5>2. Calm(req[r], list, cached)
          BY <1>3, <5>1 DEF At, Now, CalmOK
        <5>. QED BY <2>1, <4>2, <5>2, CalmServes
      <4>. QED BY <2>3, <4>1, <4>2
    <3>2. UNCHANGED <<files, globalMeta, version, late, conf>>
      BY <2>3, OwnStepKeeps DEF chainVars
    <3>. QED BY <3>1, <3>2, CalmGoes DEF IInv
  <2>4. ~Leaves(r)
    BY <1>3 DEF Leaves, Goes, IInv, RequestsOK, Idle
  <2>5. CASE Publisher \/ Passes
    BY <2>2, <2>5 DEF Publisher, Passes, Publishes, PublishesRest, Posts, ListExpires, Forgets, MnsExpires
  <2>6. CASE Server
    <3>1. req' = req \/ req' = [p \in Requests |-> Idle]
      BY <2>6 DEF Server, Boots, Accepts, AsksAgain, Refuses, Stops, IsUpgraded, Loads, bootUnchanged
    <3>2. Idle.at = "idle"
      BY DEF Idle
    <3>. QED BY <1>3, <2>2, <3>1, <3>2
  <2>7. ASSUME NEW p \in Requests, p # r, Comes(p) \/ Serves(p) \/ (Leaves(p) /\ Unserved)
        PROVE  req'[r] = req[r]
    BY <2>7, OthersKeep DEF IInv
  <2>. QED BY <1>3, <2>2, <2>3, <2>4, <2>5, <2>6, <2>7
<1>4. CASE Next
  <2>1. ASSUME NEW r \in calm'
        PROVE  Calm(req[r], list, cached)'
    <3>1. CASE \E p \in Requests : Fails(p) /\ calm' = {q \in calm \ {p} : Undisturbed(q)}
      <4>1. r \in Requests
        BY <2>1, <3>1
      <4>. QED BY <1>2, <2>1, <3>1, <4>1
    <3>2. CASE /\ (\E p \in Requests : Comes(p) \/ Serves(p) \/ (Leaves(p) /\ Unserved))
                  \/ Publisher \/ Passes \/ Server
               /\ calm' = {p \in Requests : /\ p \in calm \/ At(p, "idle")
                                            /\ req'[p].at # "idle" /\ Undisturbed(p)}
      BY <1>3, <2>1, <3>2
    <3>. QED BY <1>4, <3>1, <3>2 DEF Next
  <2>. QED BY <2>1 DEF CalmOK
<1>. QED BY <1>1, <1>4

LEMMA InitNow == Init => Now
<1> SUFFICES ASSUME Init PROVE Now
  OBVIOUS
<1>1. Listed = {}
  BY DEF Init, Listed, Site!NoFile
<1>2. \A r \in Requests : req[r].at = "idle"
  BY DEF Init, Idle
<1>. QED BY <1>1, <1>2 DEF Init, Now, SiteNow, CacheNow, RequestsNow, CalmOK, Reading

-----------------------------------------------------------------------------
(* The theorems.                                                           *)

Inductive == IInv /\ Now /\ calm \subseteq Requests

LEMMA Invariant == Spec => []Inductive
<1>1. Init => Inductive
  BY InitIInv, InitNow DEF Inductive
<1>2. Inductive /\ [Next]_<<gatewayVars, calm>> => Inductive'
  BY NextIInv, WebsiteNow, CalmNext DEF Inductive, Now
<1>. QED BY <1>1, <1>2, PTL DEF Spec

LEMMA IInvType == IInv /\ calm \subseteq Requests => TypeOK
<1> SUFFICES ASSUME IInv, calm \subseteq Requests PROVE TypeOK
  OBVIOUS
<1>1. Site!TypeOK
  BY DEF IInv, SiteOK, Website!IInv, Website!TypeOK, Site!TypeOK, Website!FileKeys, Site!FileKeys,
         Website!Metadata, Site!Metadata, Website!Indices, Site!Indices
<1>2. ASSUME NEW r \in Requests
      PROVE  /\ req[r].at # "idle" => server = "up"
             /\ req[r].at \in {"modified", "hit", "outdated"} => req[r].lu \in DOMAIN Versions
             /\ Len(req[r].content) <= req[r].count
  <2>1. RequestOK(req[r]) /\ (req[r].at # "idle" => server = "up")
    BY DEF IInv, RequestsOK
  <2>2. req[r].lu \in DOMAIN Versions \cup {None}
    BY <2>1 DEF RequestOK, RequestRecords
  <2>. QED BY <2>1, <2>2 DEF RequestOK
<1>. QED BY <1>1, <1>2 DEF TypeOK, IInv, SiteOK, PublisherOK, CacheOK, ServerOK, CachesOK

\* The state has its type, for any number of requests and any website.
THEOREM GatewayTypeOK == Spec => []TypeOK
<1>1. Inductive => TypeOK
  BY IInvType DEF Inductive
<1>. QED BY <1>1, Invariant, PTL

\* What is cached with the time of the last update is the resource of that update.
THEOREM CacheIsTruthful == Spec => []CacheTruthful
<1>1. Inductive => CacheTruthful
  BY DEF Inductive, IInv, CacheOK
<1>. QED BY <1>1, Invariant, PTL

\* A request that nothing interferes with is answered with what the website has now,
\* from the cache or not, or with the page that says why not; but for the files that
\* are declared late.
THEOREM CalmIsServed == Spec => []CalmServed
<1>1. ASSUME Inductive, NEW r \in calm, At(r, "done"), req[r].target # None,
             late \cap ToSet(Tries(req[r].name)) = {}
      PROVE  Right(r)
  <2>1. Calm(req[r], list, cached)
    BY <1>1 DEF Inductive, Now, CalmOK
  <2>2. RightFor(req[r])
    BY <1>1, <2>1 DEF Calm, At
  <2>. QED BY <2>2 DEF RightFor, Right
<1>2. Inductive => CalmServed
  BY <1>1 DEF CalmServed
<1>. QED BY <1>2, Invariant, PTL
=============================================================================
