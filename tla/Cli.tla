-------------------------------- MODULE Cli --------------------------------
(***************************************************************************)
(* The commands of the command line interface that change a website        *)
(* (src/cli/src): upload, delete (with or without purge), metadata and     *)
(* immutable.  A run of a command reads the website, plans phases of       *)
(* calls, and makes the calls of a phase, a few at a time, before the next *)
(* phase.                                                                  *)
(*                                                                         *)
(* An operation that was sent is executed when the chain likes, or never.  *)
(* The interface may stop waiting for it, or lose the answer to its        *)
(* sending: such an operation is loose, and may be executed during a later *)
(* run of the interface.                                                   *)
(*                                                                         *)
(* An upload without an address deploys a new website, to which all later  *)
(* runs apply; one with an address is called "edit" here.  The address may *)
(* be that of a website that is gone, or has never been there: no command  *)
(* asks.  The reads of a run are one step.  Coins are left out, the index  *)
(* is in DewebChain.                                                       *)
(***************************************************************************)
EXTENDS DewebSite, Sequences, FiniteSets, SequencesExt, FiniteSetsExt

CONSTANTS
  Publisher,       \* the account of the user
  IndexHtml,       \* the file "index.html"
  LastUpdate,      \* the key LAST_UPDATE
  Directories,     \* the local directories: for each local file its chunks
  Config,          \* the metadata of the configuration file
  Size(_),         \* the size of the data of a chunk
  ChunkSize,       \* the largest size of a chunk, and of a batch of chunks
  BatchSize,       \* filesInit: how many elements of each list a call takes
  Window,          \* how many calls are made at a time
  Commands,        \* the commands that the user runs
  MaxRuns          \* bound: how many

ASSUME CliAssumption ==
  /\ Publisher \in Callers
  /\ LastUpdate \in MetaKeys /\ 1 .. MaxRuns \subseteq MetaValues
  /\ \A d \in Directories :
       /\ DOMAIN d \subseteq Files
       /\ \A f \in DOMAIN d : d[f] \in Seq(Data) /\ Len(d[f]) <= MaxChunks
  /\ IsFiniteSet(Files) /\ IsFiniteSet(MetaKeys)
  /\ Config \in Pairs(MetaKeys \ {LastUpdate}, MetaValues)
  /\ \A d \in Data : Size(d) \in 1 .. ChunkSize
  /\ MaxRuns \in Nat /\ ChunkSize \in Nat /\ BatchSize \in Nat \ {0} /\ Window > 0

VARIABLES
  pc,         \* what the run does: "idle", "reading", "calling", or its end
  run,        \* the number of the run, and its LAST_UPDATE
  command,
  directory,  \* the local files, during an upload
  phase,      \* the name of the phase
  calls,      \* its calls, in order
  plan,       \* the phases that follow
  loose,      \* the operations that nobody waits for and that are not executed
  disturbed   \* history: did the network, the chain or an earlier run interfere?

cliVars == <<pc, run, command, directory, phase, calls, plan, loose, disturbed>>
allVars == <<code, owner, files, globalMeta,
             pc, run, command, directory, phase, calls, plan, loose, disturbed>>

CliInit ==
  /\ code = "none" /\ owner = None
  /\ files = [f \in Files |-> NoFile]
  /\ globalMeta = NoMetadata
  /\ pc = "idle" /\ run = 0
  /\ command = "none" /\ directory = << >>
  /\ phase = "none" /\ calls = << >> /\ plan = << >>
  /\ loose = {} /\ disturbed = FALSE

Editing == command = "edit"

-----------------------------------------------------------------------------
(* What an upload plans.                                                   *)

\* The content of a file on chain, as the interface reads it: the chunks that
\* are found, one after the other.
OnChain(s) ==
  LET found == {i \in 0 .. TotalChunk(s) - 1 : s.chunks[i] # None}
      nth(k) == CHOOSE i \in found : Cardinality({j \in found : j < i}) = k - 1
  IN  [k \in 1 .. Cardinality(found) |-> s.chunks[nth(k)]]

\* Mutant: only the lengths are compared.
RequiresUpdateByLength(f) ==
  /\ directory[f] # << >>
  /\ Editing => files[f].count = None \/ Len(OnChain(files[f])) # Len(directory[f])

\* An empty local file is never uploaded.
RequiresUpdate(f) ==
  /\ directory[f] # << >>
  /\ Editing => files[f].count = None \/ OnChain(files[f]) # directory[f]

\* The local files that are uploaded, in the order of reading, and their chunks.
Updated == {f \in DOMAIN directory : RequiresUpdate(f)}
ToInit == SetToSeq(Updated)
ToPost == UNION {{f} \X (0 .. Len(directory[f]) - 1) : f \in Updated}

\* The chunk p of the directory d.
DataOf(d, p) == d[p[1]][p[2] + 1]

BatchBytes(d, b) == MapThenSumSet(LAMBDA p : Size(DataOf(d, p)), b)

\* Mutant: each chunk is compared with the limit, not the batch.
PlacedAnywhere(d, batches, p) ==
  LET fitting == {b \in DOMAIN batches : Size(DataOf(d, p)) <= ChunkSize}
  IN  IF fitting = {} THEN Append(batches, {p})
                      ELSE [batches EXCEPT ![Min(fitting)] = @ \cup {p}]

\* First fit: the first batch that has room, or a new one.
Placed(d, batches, p) ==
  LET fitting == {b \in DOMAIN batches : BatchBytes(d, batches[b] \cup {p}) <= ChunkSize}
  IN  IF fitting = {} THEN Append(batches, {p})
                      ELSE [batches EXCEPT ![Min(fitting)] = @ \cup {p}]

\* The chunks are placed by decreasing size.
Largest(d, chunks) ==
  CHOOSE p \in chunks : \A q \in chunks : Size(DataOf(d, q)) <= Size(DataOf(d, p))

Batcher(d, chunks) ==
  LET after(state) == LET p == Largest(d, state.left)
                      IN  [left |-> state.left \ {p}, batches |-> Placed(d, state.batches, p)]
      state[n \in Nat] == IF n = 0 THEN [left |-> chunks, batches |-> << >>]
                                   ELSE after(state[n - 1])
  IN  state[Cardinality(chunks)].batches

\* Mutant: the last element of a list that does not fill a call is left out.
SliceShort(list, k) == SubSeq(list, (k - 1) * BatchSize + 1, k * BatchSize - 1)

\* The part of a list that the k-th call of filesInit takes.
Slice(list, k) ==
  SubSeq(list, (k - 1) * BatchSize + 1, Min({k * BatchSize, Len(list)}))

\* The metadata of the configuration that differ, and LAST_UPDATE last.
ToSetMetadata ==
  Append(SetToSeq({m \in DOMAIN Config : Editing => globalMeta[m] # Config[m]}), LastUpdate)

FilesToDelete == SetToSeq({f \in Files \ DOMAIN directory : Editing /\ files[f].location})

NoChanges == ToInit = << >> /\ FilesToDelete = << >> /\ Len(ToSetMetadata) = 1

FilesInitCalls ==
  LET longest == Max({Len(ToInit), Len(FilesToDelete), Len(ToSetMetadata)})
      call(k) ==
        [ fn      |-> "filesInit",
          run     |-> run,
          deletes |-> ToSet(Slice(FilesToDelete, k)),
          metas   |-> [m \in ToSet(Slice(ToSetMetadata, k)) |->
                         IF m = LastUpdate THEN run ELSE Config[m]],
          inits   |-> [f \in ToSet(Slice(ToInit, k)) |->
                         [totalChunk |-> Len(directory[f]), metadata |-> << >>]] ]
  IN  [k \in 1 .. (longest + BatchSize - 1) \div BatchSize |-> call(k)]

UploadCalls ==
  LET batches == Batcher(directory, ToPost)
  IN  [b \in DOMAIN batches |->
         [ fn |-> "uploadFileChunks", run |-> run,
           posts |-> [p \in batches[b] |-> DataOf(directory, p)] ]]

-----------------------------------------------------------------------------
(* The course of a run.                                                    *)

Waiting(ops) == [k \in DOMAIN ops |-> [op |-> ops[k], status |-> "waiting", chain |-> "none"]]

Phase(name, ops) == [name |-> name, ops |-> ops]

Enter(phases) ==
  /\ pc' = "calling"
  /\ phase' = phases[1].name
  /\ calls' = Waiting(phases[1].ops)
  /\ plan' = Tail(phases)

\* The operations of these calls that are still pending are nobody's then.
Leaves(cs) == loose' = loose \cup {cs[i].op : i \in {j \in DOMAIN cs : cs[j].chain = "pending"}}

Quits(how) == pc' = how /\ phase' = "none" /\ calls' = << >> /\ plan' = << >>
Ends(how, cs) == Quits(how) /\ Leaves(cs)

Start(c, d) ==
  /\ pc \notin {"reading", "calling"} /\ run < MaxRuns
  /\ pc' = "reading" /\ run' = run + 1
  /\ command' = c
  /\ directory' = IF c \in {"upload", "edit"} THEN d ELSE << >>
  /\ disturbed' = FALSE
  /\ UNCHANGED <<vars, phase, calls, plan, loose>>

Immutable == command # "upload" /\ owner = Nobody

\* exitIfImmutable, or index.html is missing, or a read fails.
ReadStops ==
  /\ pc = "reading"
  /\ Ends("aborted", calls)
  /\ UNCHANGED <<vars, run, command, directory, disturbed>>

UploadPhases ==
  LET deploy == IF Editing THEN << >> ELSE <<Phase("deploy", << >>)>>
      init   == IF NoChanges THEN << >> ELSE <<Phase("init", FilesInitCalls)>>
  IN  deploy \o init \o <<Phase("upload", UploadCalls)>>

UploadReads ==
  /\ pc = "reading" /\ command \in {"upload", "edit"}
  /\ ~Immutable /\ IndexHtml \in DOMAIN directory
  /\ Enter(UploadPhases)
  /\ UNCHANGED <<vars, run, command, directory, loose, disturbed>>

\* A new website, and the operations for the old one no longer matter.  The run
\* stops when the index cannot be told of it.
Deploys ==
  /\ pc = "calling" /\ phase = "deploy"
  /\ code' = "website" /\ owner' = Publisher
  /\ files' = [f \in Files |-> NoFile] /\ globalMeta' = NoMetadata
  /\ loose' = {}
  /\ \/ Enter(plan) /\ disturbed' = disturbed
     \/ Quits("failed") /\ disturbed' = TRUE
  /\ UNCHANGED <<run, command, directory>>

\* deploySC waits for the final execution and throws otherwise.
DeployFails ==
  /\ pc = "calling" /\ phase = "deploy"
  /\ Ends("failed", calls)
  /\ disturbed' = TRUE
  /\ UNCHANGED <<vars, run, command, directory>>

\* What is on chain is deleted: the files that are listed, and the metadata.
Listed == {f \in Files : files[f].location}
Present == {m \in MetaKeys : globalMeta[m] # None}

DeletePhases(purge) ==
  LET deletes == IF Listed = {} THEN << >>
                 ELSE <<Phase("delete", <<[fn |-> "deleteFiles", run |-> run, files |-> Listed]>>)>>
      removes == IF Present = {} THEN << >>
                 ELSE <<Phase("remove", <<[fn |-> "removeMetadataGlobal", run |-> run, keys |-> Present]>>)>>
      purges == IF purge THEN <<Phase("purge", <<[fn |-> "purge", run |-> run]>>)>> ELSE << >>
  IN  deletes \o removes \o purges

DeleteReads(purge) ==
  /\ pc = "reading" /\ command = IF purge THEN "purge" ELSE "delete"
  /\ ~Immutable
  /\ LET phases == DeletePhases(purge)
     IN  \/ phases # << >> /\ Enter(phases) /\ loose' = loose
         \/ phases = << >> /\ Ends("done", calls)
  /\ UNCHANGED <<vars, run, command, directory, disturbed>>

ImmutableReads ==
  /\ pc = "reading" /\ command = "immutable"
  /\ ~Immutable
  /\ Enter(<<Phase("setOwner", <<[fn |-> "setOwner", run |-> run]>>)>>)
  /\ UNCHANGED <<vars, run, command, directory, loose, disturbed>>

\* Of the whole website, or of one file that is listed: the values that differ
\* are set, or keys that exist are removed.  Of a file without any metadata the
\* keys are not looked at.  LAST_UPDATE is not touched.
MetadataReads ==
  /\ pc = "reading" /\ command = "metadata"
  /\ \E key \in MetaKeys \ {LastUpdate}, value \in {run, None}, f \in Files \cup {None} :
       LET current == IF f = None THEN globalMeta[key] ELSE files[f].meta[key]
           op == [fn |-> "metadata", run |-> run, file |-> f, key |-> key, value |-> value]
       IN  /\ f # None => files[f].location
           /\ value # current \/ (f # None /\ files[f].meta = NoMetadata)
           /\ Enter(<<Phase("metadata", <<op>>)>>)
  /\ UNCHANGED <<vars, run, command, directory, loose, disturbed>>

\* The prompts come before the first call of a phase.
Declined ==
  /\ pc = "calling" /\ phase \notin {"remove", "metadata"}
  /\ phase # "deploy" => calls # << >>
  /\ \A i \in DOMAIN calls : calls[i].status = "waiting"
  /\ Ends("aborted", calls)
  /\ UNCHANGED <<vars, run, command, directory, disturbed>>

-----------------------------------------------------------------------------
(* The calls of a phase: CallManager and UploadManager.                    *)

InFlight == {i \in DOMAIN calls : calls[i].status = "sent"}

\* The calls are made in their order, Window at a time.
MaySend(i) ==
  /\ calls[i].status = "waiting"
  /\ \A j \in 1 .. i - 1 : calls[j].status # "waiting"
  /\ Cardinality(InFlight) < Window

Send(i) ==
  /\ MaySend(i)
  /\ calls' = [calls EXCEPT ![i].status = "sent", ![i].chain = "pending"]
  /\ UNCHANGED <<vars, pc, run, command, directory, phase, plan, loose, disturbed>>

\* What a call that throws does; of its operation, chain is known to the model
\* only.  CallManager logs it.  UploadManager throws it again and startUpload is
\* rejected, unless the call settles together with another one: then it is
\* found when all have settled.
Thrown(i, chain) ==
  LET after == [calls EXCEPT ![i].status = "thrown", ![i].chain = chain]
  IN  /\ \/ calls' = after /\ UNCHANGED <<pc, phase, plan, loose>>
         \/ phase = "upload" /\ Ends("failed", after)
      /\ disturbed' = TRUE
      /\ UNCHANGED <<vars, run, command, directory>>

\* sc.call throws: the node has not accepted the operation, or it has and the
\* answer was lost.
SendFails(i) == MaySend(i) /\ \E chain \in {"none", "pending"} : Thrown(i, chain)

Answered(i) ==
  /\ calls[i].status = "sent" /\ calls[i].chain \in {"ok", "refused"}
  /\ calls' = [calls EXCEPT ![i].status = IF calls[i].chain = "ok" THEN "success" ELSE "error"]
  /\ UNCHANGED <<vars, pc, run, command, directory, phase, plan, loose, disturbed>>

\* waitSpeculativeExecution returns a status that is neither.
TimesOut(i) ==
  /\ calls[i].status = "sent" /\ calls[i].chain = "pending"
  /\ calls' = [calls EXCEPT ![i].status = "unanswered"]
  /\ disturbed' = TRUE
  /\ UNCHANGED <<vars, pc, run, command, directory, phase, plan, loose>>

AnswerFails(i) == calls[i].status = "sent" /\ Thrown(i, calls[i].chain)

\* Mutant: a call that was not answered is waited for.
SettledByAnswer == \A i \in DOMAIN calls : calls[i].status \notin {"waiting", "sent", "unanswered"}

Settled == \A i \in DOMAIN calls : calls[i].status \notin {"waiting", "sent"}

\* What each phase makes of its calls.  Of filesInit the calls that failed are
\* logged, the ones that were not answered are waited for once more; uploads
\* must not have failed; metadata are said to be finalized in any case.
PhaseOK ==
  LET is(i, S) == calls[i].status \in S
  IN  CASE phase = "init"     -> \A i \in DOMAIN calls : is(i, {"unanswered"}) => calls[i].chain = "ok"
        [] phase = "upload"   -> \A i \in DOMAIN calls : is(i, {"success", "unanswered"})
        [] phase = "metadata" -> \A i \in DOMAIN calls : ~is(i, {"thrown"})
        [] OTHER              -> \A i \in DOMAIN calls : is(i, {"success"})

PhaseEnds ==
  /\ pc = "calling" /\ phase # "deploy" /\ Settled
  /\ \/ PhaseOK /\ plan # << >> /\ Enter(plan) /\ Leaves(calls)
     \/ PhaseOK /\ plan = << >> /\ Ends("done", calls)
     \/ ~PhaseOK /\ Ends("failed", calls)
  /\ UNCHANGED <<vars, run, command, directory, disturbed>>

-----------------------------------------------------------------------------
(* The chain.                                                              *)

Effect(op) ==
  \/ op.fn = "filesInit" /\ FilesInit(Publisher, {}, op.deletes, op.metas, op.inits)
  \/ op.fn = "uploadFileChunks" /\ UploadFileChunks(Publisher, op.posts)
  \/ op.fn = "deleteFiles" /\ DeleteFiles(Publisher, op.files)
  \/ op.fn = "removeMetadataGlobal" /\ RemoveMetadataGlobal(Publisher, op.keys)
  \/ op.fn = "purge" /\ Purge(Publisher)
  \/ op.fn = "setOwner" /\ SetOwner(Publisher, Nobody)
  \/ /\ op.fn = "metadata"
     /\ \/ /\ op.file = None /\ op.value = None
           /\ RemoveMetadataGlobal(Publisher, {op.key})
        \/ /\ op.file = None /\ op.value # None
           /\ SetMetadataGlobal(Publisher, [m \in {op.key} |-> op.value])
        \/ /\ op.file # None /\ op.value = None
           /\ RemoveMetadataFile(Publisher, op.file, {op.key})
        \/ /\ op.file # None /\ op.value # None
           /\ SetMetadataFile(Publisher, op.file, [m \in {op.key} |-> op.value])

\* An assertion of the contract fails.
Refused(op) ==
  \/ ~OnlyOwner(Publisher)
  \/ op.fn = "uploadFileChunks" /\ ~ChunksFit(op.posts)
  \/ op.fn = "deleteFiles" /\ \E f \in op.files : TotalChunk(files[f]) = 0
  \/ op.fn = "removeMetadataGlobal" /\ \E m \in op.keys : globalMeta[m] = None
  \/ /\ op.fn = "metadata" /\ op.value = None
     /\ (IF op.file = None THEN globalMeta ELSE files[op.file].meta)[op.key] = None

Executes(i) ==
  /\ calls[i].chain = "pending"
  /\ \/ Effect(calls[i].op) /\ calls' = [calls EXCEPT ![i].chain = "ok"]
     \/ Refused(calls[i].op) /\ calls' = [calls EXCEPT ![i].chain = "refused"] /\ UNCHANGED vars
  /\ UNCHANGED <<pc, run, command, directory, phase, plan, loose, disturbed>>

ExecutesLoose(op) ==
  /\ Effect(op) \/ (Refused(op) /\ UNCHANGED vars)
  /\ loose' = loose \ {op}
  /\ disturbed' = TRUE
  /\ UNCHANGED <<pc, run, command, directory, phase, calls, plan>>

\* What the interface does, and what it waits for at most until a timeout.
RunStep ==
  \/ ReadStops \/ UploadReads \/ ImmutableReads \/ MetadataReads
  \/ \E purge \in BOOLEAN : DeleteReads(purge)
  \/ Deploys \/ DeployFails \/ PhaseEnds
  \/ \E i \in DOMAIN calls : \/ Send(i) \/ SendFails(i)
                             \/ Answered(i) \/ TimesOut(i) \/ AnswerFails(i)

CliNext ==
  \/ \E c \in Commands, d \in Directories : Start(c, d)
  \/ RunStep \/ Declined
  \/ \E i \in DOMAIN calls : Executes(i)
  \/ \E op \in loose : ExecutesLoose(op)

\* A run does not stop before its end.
CliSpec == CliInit /\ [][CliNext]_allVars /\ WF_allVars(RunStep)

-----------------------------------------------------------------------------
(* Properties.                                                             *)

Operations(cs) == {cs[i].op : i \in DOMAIN cs}

\* The type of the state; what is loose was sent by this run or an earlier one.
CliTypeOK ==
  /\ TypeOK
  /\ pc \in {"idle", "reading", "calling", "done", "failed", "aborted"}
  /\ run \in 0 .. MaxRuns /\ command \in Commands \cup {"none"}
  /\ directory \in Directories \cup {<< >>}
  /\ \A i \in DOMAIN calls :
       /\ calls[i].status \in {"waiting", "sent", "success", "error", "unanswered", "thrown"}
       /\ calls[i].chain \in {"none", "pending", "ok", "refused"}
  /\ \A op \in loose \cup Operations(calls) : op.run \in 1 .. run
  /\ disturbed \in BOOLEAN

\* The batches of an upload hold each chunk of each file that is declared once,
\* and none is larger than ChunkSize.
BatchesExact ==
  pc = "calling" /\ phase = "upload" =>
    /\ \A i \in DOMAIN calls : BatchBytes(directory, DOMAIN calls[i].op.posts) <= ChunkSize
    /\ \A i, j \in DOMAIN calls :
         DOMAIN calls[i].op.posts \cap DOMAIN calls[j].op.posts # {} => i = j
    /\ \A f \in DOMAIN directory :
         LET posted == {p \in UNION {DOMAIN calls[i].op.posts : i \in DOMAIN calls} : p[1] = f}
         IN  posted \in {{}, {<<f, i - 1>> : i \in DOMAIN directory[f]}}

\* What is not looked at: whether there is a website, by any command, and by the
\* metadata command whether it is immutable, and whether a file without metadata
\* has the key that is to be removed.
Overlooked(op) ==
  \/ code = "none"
  \/ /\ op.fn = "metadata"
     /\ owner = Nobody \/ (op.file # None /\ files[op.file].meta = NoMetadata)

\* A run that neither the network nor an operation of an earlier run interferes
\* with succeeds: none of its calls is refused, though the calls of a phase are
\* executed in any order, and whatever earlier runs left half done.  The exceptions
\* are what the commands overlook: all calls to a website that is gone are refused,
\* which makes an edit, a purge or immutable fail, and the metadata command may make
\* a call that is refused.  No run fails without a refused call.
UndisturbedSucceeds ==
  ~disturbed =>
    /\ \A i \in DOMAIN calls : calls[i].chain = "refused" => Overlooked(calls[i].op)
    /\ pc = "calling" /\ phase # "deploy" /\ Settled /\ ~PhaseOK =>
         \E i \in DOMAIN calls : calls[i].chain = "refused"
    /\ pc = "failed" => code = "none" /\ command \in {"edit", "purge", "immutable"}

\* A file is served with this content when it is declared with the number of its
\* chunks and they are all there: the server fails when one is missing.
Whole(s, content) ==
  /\ s.location /\ s.count = Len(content)
  /\ \A i \in DOMAIN content : s.chunks[i - 1] = content[i]

\* Of the files of the directory, those that a server serves otherwise.  A file that
\* is empty now is not looked at.
Unpublished == {f \in DOMAIN directory : directory[f] # << >> /\ ~Whole(files[f], directory[f])}

\* No other file is there, and the metadata are those of the configuration.
OthersPublished ==
  /\ \A f \in Files \ DOMAIN directory : ~files[f].location
  /\ \A m \in DOMAIN Config : globalMeta[m] = Config[m]

Published == Unpublished = {} /\ OthersPublished

\* A file that an earlier run left without some of its chunks, when the ones that
\* are there happen to be the local file, one after the other.
Mistakable(f) ==
  /\ \E i \in 0 .. TotalChunk(files[f]) - 1 : files[f].chunks[i] = None
  /\ OnChain(files[f]) = directory[f]

\* When a run that nothing interferes with says that it is done, it is.  After an
\* upload the website that is served is the local one; after an edit too, though it
\* only sends what differs and earlier runs may have failed anywhere, with two
\* exceptions: a file that is mistaken for the local one, and a website that is gone
\* when there is no chunk to send.  Nothing is left after a deletion.
UndisturbedKeepsItsWord ==
  pc = "done" /\ ~disturbed =>
    /\ command = "upload" => Published
    /\ command = "edit" =>
         IF code = "none" THEN \A f \in DOMAIN directory : directory[f] = << >>
         ELSE OthersPublished /\ \A f \in Unpublished : Mistakable(f)
    /\ command \in {"delete", "purge"} =>
         globalMeta = NoMetadata /\ \A f \in Files : ~files[f].location
    /\ command = "purge" => code = "none"
    /\ command = "immutable" => owner = Nobody

\* Each run ends, although operations may never be executed.
RunsEnd == pc \in {"reading", "calling"} ~> pc \in {"done", "failed", "aborted"}

\* "Upload complete!"
CompleteIsPublished ==
  [][ pc = "calling" /\ pc' = "done" /\ command \in {"upload", "edit"} => Published' ]_allVars
=============================================================================
