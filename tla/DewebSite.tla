----------------------------- MODULE DewebSite -----------------------------
(***************************************************************************)
(* The smart contract that holds one website                               *)
(* (src/smart-contract/assembly/contracts): the keys of its datastore and  *)
(* the calls that change them.  A call runs to its end or, when one of its *)
(* assertions fails, changes nothing: only the calls that succeed are      *)
(* steps.  Coins and the encoding of keys and arguments are left out.      *)
(*                                                                         *)
(* An argument that is an array of (key, value) pairs is a function: of    *)
(* two pairs with the same key the last one wins in every call that takes  *)
(* such an array.  An array of things to delete is a set: a second         *)
(* deletion fails, or changes nothing.                                     *)
(***************************************************************************)
EXTENDS Integers

CONSTANTS
  Files,        \* the hashes of the locations
  MaxChunks,    \* bound: the largest totalChunk
  Data,         \* the contents of a chunk
  MetaKeys, MetaValues,
  Callers,      \* the accounts that call the contract
  Nobody,       \* the owner of an immutable website, no account
  None          \* the absence of a key

ASSUME SiteAssumption ==
  /\ MaxChunks \in Nat
  /\ None \notin Data \cup MetaValues \cup Nat
  /\ None \notin Callers /\ Nobody \notin Callers
  /\ None # Nobody

Indices == 0 .. MaxChunks - 1

\* The arrays of (key, value) pairs with keys in S and values in T.
Pairs(S, T) == UNION {[D -> T] : D \in SUBSET S}

VARIABLES
  code,         \* the bytecode: this contract, another one, or none
  owner,        \* the OWNER key
  files,        \* for each file, the keys that start with FILE or LOCATION
  globalMeta    \* the keys that start with GM

vars == <<code, owner, files, globalMeta>>

Metadata == [MetaKeys -> MetaValues \cup {None}]
FileKeys ==
  [ location : BOOLEAN,
    count    : 0 .. MaxChunks \cup {None},
    chunks   : [Indices -> Data \cup {None}],
    meta     : Metadata ]

NoMetadata == [m \in MetaKeys |-> None]
NoChunks == [i \in Indices |-> None]
NoFile == [location |-> FALSE, count |-> None, chunks |-> NoChunks, meta |-> NoMetadata]

TypeOK ==
  /\ code \in {"website", "upgraded", "none"}
  /\ owner \in Callers \cup {Nobody, None}
  /\ files \in [Files -> FileKeys]
  /\ globalMeta \in Metadata

\* The constructor.
Init ==
  /\ code = "website"
  /\ owner \in Callers
  /\ files = [f \in Files |-> NoFile]
  /\ globalMeta = NoMetadata

-----------------------------------------------------------------------------
(* The internal functions, on the keys s of one file or on metadata m.     *)

Edited(m, edits) == [k \in DOMAIN m |-> IF k \in DOMAIN edits THEN edits[k] ELSE m[k]]
Without(m, K) == [k \in DOMAIN m |-> IF k \in K THEN None ELSE m[k]]

\* All the keys that start with the prefix of the file, and its location.
DeletedFile(s) ==
  [s EXCEPT !.location = FALSE, !.count = None, !.chunks = NoChunks, !.meta = NoMetadata]

\* Mutant: a file that is declared again keeps its old keys.
FileInitedOver(s, init) ==
  [s EXCEPT !.location = TRUE,
            !.meta     = Edited(s.meta, init.metadata),
            !.count    = init.totalChunk]

\* Mutant: the number of chunks is off by one.
FileInitedOneMore(s, init) ==
  [DeletedFile(s) EXCEPT !.location = TRUE,
                         !.meta     = Edited(NoMetadata, init.metadata),
                         !.count    = init.totalChunk + 1]

FileInited(s, init) ==
  LET fresh == IF s.location THEN DeletedFile(s) ELSE s
  IN  [fresh EXCEPT !.location = TRUE,
                    !.meta     = Edited(fresh.meta, init.metadata),
                    !.count    = init.totalChunk]

TotalChunk(s) == IF s.count = None THEN 0 ELSE s.count

\* Mutant: an index may be the number of chunks.
ChunksFitAtEnd(posts) == \A p \in DOMAIN posts : p[2] <= TotalChunk(files[p[1]])

\* What _setFileChunk checks for each chunk of a call, and what they write.
ChunksFit(posts) == \A p \in DOMAIN posts : p[2] < TotalChunk(files[p[1]])
ChunksSet(f, posts) ==
  [files[f] EXCEPT !.chunks =
     [i \in Indices |-> IF <<f, i>> \in DOMAIN posts THEN posts[<<f, i>>]
                                                     ELSE files[f].chunks[i]]]

-----------------------------------------------------------------------------
(* The calls, by the account c.                                            *)

\* Mutant: the caller is not checked.
AnyCaller(c) == code = "website"

OnlyOwner(c) == code = "website" /\ c = owner

FilesInit(c, metaToDelete, filesToDelete, metaToSet, inits) ==
  /\ OnlyOwner(c)
  /\ \A m \in metaToDelete : globalMeta[m] # None
  /\ globalMeta' = Edited(Without(globalMeta, metaToDelete), metaToSet)
  /\ files' = [f \in Files |->
                 LET s == IF f \in filesToDelete THEN DeletedFile(files[f]) ELSE files[f]
                 IN  IF f \in DOMAIN inits THEN FileInited(s, inits[f]) ELSE s]
  /\ UNCHANGED <<code, owner>>

UploadFileChunks(c, posts) ==
  /\ OnlyOwner(c)
  /\ ChunksFit(posts)
  /\ files' = [f \in Files |-> ChunksSet(f, posts)]
  /\ UNCHANGED <<code, owner, globalMeta>>

RemoveFileChunkRange(c, f, start, end) ==
  /\ OnlyOwner(c)
  /\ \A i \in start .. end - 1 : files[f].chunks[i] # None
  /\ files' = [files EXCEPT ![f].chunks = Without(@, start .. end - 1)]
  /\ UNCHANGED <<code, owner, globalMeta>>

DeleteFiles(c, filesToDelete) ==
  /\ OnlyOwner(c)
  /\ \A f \in filesToDelete : TotalChunk(files[f]) > 0
  /\ files' = [f \in Files |-> IF f \in filesToDelete THEN DeletedFile(files[f]) ELSE files[f]]
  /\ UNCHANGED <<code, owner, globalMeta>>

SetMetadataGlobal(c, metaToSet) ==
  /\ OnlyOwner(c)
  /\ globalMeta' = Edited(globalMeta, metaToSet)
  /\ UNCHANGED <<code, owner, files>>

RemoveMetadataGlobal(c, keys) ==
  /\ OnlyOwner(c)
  /\ \A m \in keys : globalMeta[m] # None
  /\ globalMeta' = Without(globalMeta, keys)
  /\ UNCHANGED <<code, owner, files>>

\* The file need not exist.
SetMetadataFile(c, f, metaToSet) ==
  /\ OnlyOwner(c)
  /\ files' = [files EXCEPT ![f].meta = Edited(@, metaToSet)]
  /\ UNCHANGED <<code, owner, globalMeta>>

RemoveMetadataFile(c, f, keys) ==
  /\ OnlyOwner(c)
  /\ \A m \in keys : files[f].meta[m] # None
  /\ files' = [files EXCEPT ![f].meta = Without(@, keys)]
  /\ UNCHANGED <<code, owner, globalMeta>>

\* Exported from the standard library: an owner may be replaced by the owner
\* only, and whoever comes first may become the owner when there is none.
SetOwner(c, newOwner) ==
  /\ code = "website"
  /\ owner # None => c = owner
  /\ owner' = newOwner
  /\ UNCHANGED <<code, files, globalMeta>>

\* What the new bytecode does is not modelled.
UpgradeSC(c) ==
  /\ OnlyOwner(c)
  /\ code' = "upgraded"
  /\ UNCHANGED <<owner, files, globalMeta>>

\* Mutant: only the keys of the files are deleted.
PurgeFiles(c) ==
  /\ OnlyOwner(c)
  /\ code' = "none"
  /\ files' = [f \in Files |-> NoFile]
  /\ UNCHANGED <<owner, globalMeta>>

\* The OWNER key is deleted with the other ones, and the bytecode emptied.
Purge(c) ==
  /\ OnlyOwner(c)
  /\ code' = "none"
  /\ owner' = None
  /\ files' = [f \in Files |-> NoFile]
  /\ globalMeta' = NoMetadata

Inits == Pairs(Files, [totalChunk : 0 .. MaxChunks, metadata : Pairs(MetaKeys, MetaValues)])

Next ==
  \E c \in Callers :
    \/ \E metaToDelete \in SUBSET MetaKeys, filesToDelete \in SUBSET Files,
          metaToSet \in Pairs(MetaKeys, MetaValues), inits \in Inits :
         FilesInit(c, metaToDelete, filesToDelete, metaToSet, inits)
    \/ \E posts \in Pairs(Files \X Indices, Data) : UploadFileChunks(c, posts)
    \/ \E f \in Files, start, end \in 0 .. MaxChunks : RemoveFileChunkRange(c, f, start, end)
    \/ \E filesToDelete \in SUBSET Files : DeleteFiles(c, filesToDelete)
    \/ \E metaToSet \in Pairs(MetaKeys, MetaValues) :
         \/ SetMetadataGlobal(c, metaToSet)
         \/ \E f \in Files : SetMetadataFile(c, f, metaToSet)
    \/ \E keys \in SUBSET MetaKeys :
         \/ RemoveMetadataGlobal(c, keys)
         \/ \E f \in Files : RemoveMetadataFile(c, f, keys)
    \/ \E newOwner \in Callers \cup {Nobody} : SetOwner(c, newOwner)
    \/ UpgradeSC(c)
    \/ Purge(c)

Spec == Init /\ [][Next]_vars

-----------------------------------------------------------------------------
(* Properties.                                                             *)

\* A file is in the list of locations if and only if it has a number of chunks,
\* and it has no chunk beyond that number, whatever order the files are
\* declared, declared again, filled and deleted in.
StorageConsistent ==
  \A f \in Files :
    /\ files[f].location <=> files[f].count # None
    /\ \A i \in Indices : files[f].chunks[i] # None => i < TotalChunk(files[f])

\* When the number of chunks of a file changes, because it is declared again or
\* deleted, no chunk is left: the chunks of an older version never count as
\* chunks of the new one.
NewCountNoChunks ==
  [][ \A f \in Files : files'[f].count # files[f].count => files'[f].chunks = NoChunks ]_vars

\* When no account owns the website it never changes again: neither an
\* immutable one nor a purged one, which no account can take over.
ImmutableForever == [][ (owner \in Callers) ]_vars

\* A purged website keeps nothing, and only a purged one has no owner.
PurgedIsEmpty ==
  /\ code = "none" <=> owner = None
  /\ code = "none" => globalMeta = NoMetadata /\ \A f \in Files : files[f] = NoFile
=============================================================================
