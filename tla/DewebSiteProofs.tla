--------------------------- MODULE DewebSiteProofs ---------------------------
(***************************************************************************)
(* Theorems about the smart contract of a website, for all sets of files,  *)
(* metadata and accounts, and for files of any number of chunks.           *)
(***************************************************************************)
EXTENDS DewebSite, TLAPS

\* The keys of one file are consistent.
FileOK(s) ==
  /\ s \in FileKeys
  /\ s.location <=> s.count # None
  /\ \A i \in Indices : s.chunks[i] # None => i < TotalChunk(s)

IInv == TypeOK /\ StorageConsistent /\ PurgedIsEmpty

-----------------------------------------------------------------------------
(* The internal functions keep the keys of a file consistent.              *)

LEMMA NoFileOK == FileOK(NoFile) /\ NoFile.chunks = NoChunks
BY SiteAssumption
   DEF FileOK, NoFile, FileKeys, Metadata, NoMetadata, NoChunks, Indices

\* An array of metadata changes a map of metadata into another one.
LEMMA EditedType ==
  ASSUME NEW m \in Metadata, NEW edits \in Pairs(MetaKeys, MetaValues)
  PROVE  Edited(m, edits) \in Metadata
<1>1. PICK D \in SUBSET MetaKeys : edits \in [D -> MetaValues]
  BY DEF Pairs
<1>2. DOMAIN m = MetaKeys /\ DOMAIN edits = D
  BY <1>1 DEF Metadata
<1>3. ASSUME NEW k \in MetaKeys
      PROVE  (IF k \in DOMAIN edits THEN edits[k] ELSE m[k]) \in MetaValues \cup {None}
  BY <1>1, <1>2 DEF Metadata
<1>. QED BY <1>2, <1>3 DEF Edited, Metadata

\* So does a removal of metadata.
LEMMA WithoutType ==
  ASSUME NEW m \in Metadata, NEW K
  PROVE  Without(m, K) \in Metadata
BY DEF Without, Metadata

LEMMA DeletedFileOK ==
  ASSUME NEW s, FileOK(s)
  PROVE  FileOK(DeletedFile(s)) /\ DeletedFile(s).chunks = NoChunks
         /\ ~DeletedFile(s).location
BY SiteAssumption
   DEF FileOK, DeletedFile, FileKeys, Metadata, NoMetadata, NoChunks, Indices

LEMMA FileInitedOK ==
  ASSUME NEW s, FileOK(s),
         NEW init \in [totalChunk : 0 .. MaxChunks, metadata : Pairs(MetaKeys, MetaValues)]
  PROVE  FileOK(FileInited(s, init)) /\ FileInited(s, init).chunks = NoChunks
<1> DEFINE fresh == IF s.location THEN DeletedFile(s) ELSE s
<1>1. FileOK(fresh) /\ ~fresh.location
  BY DeletedFileOK
<1>2. fresh.chunks = NoChunks /\ fresh \in FileKeys
  <2>1. \A i \in Indices : fresh.chunks[i] = None
    BY <1>1 DEF FileOK, TotalChunk, Indices
  <2>. QED BY <1>1, <2>1 DEF FileOK, FileKeys, NoChunks
<1>3. Edited(fresh.meta, init.metadata) \in Metadata
  BY <1>2, EditedType DEF FileKeys
<1> HIDE DEF fresh
<1> DEFINE x == [fresh EXCEPT !.location = TRUE,
                              !.meta     = Edited(fresh.meta, init.metadata),
                              !.count    = init.totalChunk]
<1>4. init.totalChunk \in 0 .. MaxChunks /\ init.totalChunk # None
  BY SiteAssumption
<1>5. x \in FileKeys /\ x.location /\ x.chunks = NoChunks /\ x.count # None
  BY <1>2, <1>3, <1>4 DEF FileKeys
<1>6. FileOK(x)
  BY <1>5 DEF FileOK, NoChunks
<1>. QED BY <1>5, <1>6 DEF FileInited, fresh

-----------------------------------------------------------------------------
(* The calls.                                                              *)

LEMMA FilesAreOK == IInv <=> TypeOK /\ PurgedIsEmpty /\ \A f \in Files : FileOK(files[f])
BY DEF IInv, TypeOK, StorageConsistent, FileOK

\* What a call on the files has to show.
LEMMA NewFilesOK ==
  ASSUME IInv, \A f \in Files : FileOK(files'[f]), files' \in [Files -> FileKeys],
         globalMeta' \in Metadata, code = "website", UNCHANGED <<code, owner>>
  PROVE  IInv'
BY DEF IInv, TypeOK, StorageConsistent, FileOK, PurgedIsEmpty

LEMMA InitIInv == Init => IInv
<1>. SUFFICES ASSUME Init PROVE IInv
  OBVIOUS
<1>1. TypeOK /\ \A f \in Files : FileOK(files[f])
  BY NoFileOK DEF Init, TypeOK, FileOK, Metadata, NoMetadata
<1>2. PurgedIsEmpty
  BY SiteAssumption DEF Init, PurgedIsEmpty
<1>. QED BY <1>1, <1>2, FilesAreOK

CountsOK ==
  \A f \in Files : files'[f].count # files[f].count => files'[f].chunks = NoChunks

LEMMA FilesInitOK ==
  ASSUME IInv, NEW c \in Callers, NEW M \in SUBSET MetaKeys, NEW D \in SUBSET Files,
         NEW edits \in Pairs(MetaKeys, MetaValues), NEW inits \in Inits,
         FilesInit(c, M, D, edits, inits)
  PROVE  IInv' /\ CountsOK
<1>1. PICK I \in SUBSET Files :
        inits \in [I -> [totalChunk : 0 .. MaxChunks,
                         metadata : Pairs(MetaKeys, MetaValues)]]
  BY DEF Inits, Pairs
<1>2. ASSUME NEW f \in Files
      PROVE  /\ FileOK(files'[f])
             /\ files'[f].count # files[f].count => files'[f].chunks = NoChunks
  <2> DEFINE s == IF f \in D THEN DeletedFile(files[f]) ELSE files[f]
  <2>1. FileOK(s) /\ (f \in D => s.chunks = NoChunks)
    BY FilesAreOK, DeletedFileOK
  <2>2. files'[f] = IF f \in DOMAIN inits THEN FileInited(s, inits[f]) ELSE s
    BY DEF FilesInit
  <2> HIDE DEF s
  <2>3. CASE f \in I
    BY <1>1, <2>1, <2>2, <2>3, FileInitedOK
  <2>4. CASE f \notin I
    BY <1>1, <2>1, <2>2, <2>4 DEF s
  <2>. QED BY <2>3, <2>4
<1>3. globalMeta' \in Metadata
  BY EditedType, WithoutType DEF FilesInit, IInv, TypeOK
<1>4. files' \in [Files -> FileKeys]
  <2>1. files' = [f \in Files |-> files'[f]]
    BY DEF FilesInit
  <2>. QED BY <1>2, <2>1 DEF FileOK
<1>. QED BY <1>2, <1>3, <1>4, NewFilesOK DEF FilesInit, OnlyOwner, CountsOK

LEMMA UploadFileChunksOK ==
  ASSUME IInv, NEW c \in Callers, NEW posts \in Pairs(Files \X Indices, Data),
         UploadFileChunks(c, posts)
  PROVE  IInv' /\ CountsOK
<1>1. PICK P \in SUBSET (Files \X Indices) : posts \in [P -> Data]
  BY DEF Pairs
<1>2. ASSUME NEW f \in Files
      PROVE  FileOK(files'[f]) /\ files'[f].count = files[f].count
  <2> DEFINE chunks == [i \in Indices |-> IF <<f, i>> \in DOMAIN posts THEN posts[<<f, i>>]
                                          ELSE files[f].chunks[i]]
  <2>1. FileOK(files[f])
    BY FilesAreOK
  <2>2. files'[f] = [files[f] EXCEPT !.chunks = chunks]
    BY DEF UploadFileChunks, ChunksSet
  <2>3. chunks \in [Indices -> Data \cup {None}]
    BY <1>1, <2>1 DEF FileOK, FileKeys
  <2>4. ASSUME NEW i \in Indices, chunks[i] # None
        PROVE  i < TotalChunk(files[f])
    <3>1. CASE <<f, i>> \in DOMAIN posts
      BY <3>1 DEF UploadFileChunks, ChunksFit
    <3>2. CASE <<f, i>> \notin DOMAIN posts
      BY <2>1, <2>4, <3>2 DEF FileOK
    <3>. QED BY <3>1, <3>2
  <2> HIDE DEF chunks
  <2>5. /\ files'[f] \in FileKeys /\ files'[f].chunks = chunks
        /\ files'[f].count = files[f].count /\ files'[f].location = files[f].location
    BY <2>1, <2>2, <2>3 DEF FileOK, FileKeys
  <2>. QED BY <2>1, <2>4, <2>5 DEF FileOK, TotalChunk
<1>3. files' \in [Files -> FileKeys]
  <2>1. files' = [f \in Files |-> files'[f]]
    BY DEF UploadFileChunks
  <2>. QED BY <1>2, <2>1 DEF FileOK
<1>. QED BY <1>2, <1>3, NewFilesOK
     DEF UploadFileChunks, OnlyOwner, CountsOK, IInv, TypeOK

LEMMA RemoveFileChunkRangeOK ==
  ASSUME IInv, NEW c \in Callers, NEW f \in Files, NEW start, NEW end,
         RemoveFileChunkRange(c, f, start, end)
  PROVE  IInv' /\ CountsOK
<1> DEFINE chunks == Without(files[f].chunks, start .. end - 1)
<1>1. FileOK(files[f]) /\ files \in [Files -> FileKeys]
  BY FilesAreOK DEF IInv, TypeOK
<1>2. /\ chunks \in [Indices -> Data \cup {None}]
      /\ \A i \in Indices : chunks[i] # None => files[f].chunks[i] # None
  BY <1>1 DEF FileKeys, Without
<1>3. files' = [files EXCEPT ![f].chunks = chunks]
  BY DEF RemoveFileChunkRange
<1> HIDE DEF chunks
<1>4. /\ files'[f] \in FileKeys /\ files'[f].chunks = chunks
      /\ files'[f].count = files[f].count /\ files'[f].location = files[f].location
      /\ \A g \in Files \ {f} : files'[g] = files[g]
      /\ files' \in [Files -> FileKeys]
  BY <1>1, <1>2, <1>3 DEF FileKeys
<1>5. FileOK(files'[f])
  BY <1>1, <1>2, <1>4 DEF FileOK, TotalChunk
<1>6. \A g \in Files : FileOK(files'[g]) /\ files'[g].count = files[g].count
  BY <1>4, <1>5, FilesAreOK
<1>. QED BY <1>4, <1>6, NewFilesOK
     DEF RemoveFileChunkRange, OnlyOwner, CountsOK, IInv, TypeOK

LEMMA DeleteFilesOK ==
  ASSUME IInv, NEW c \in Callers, NEW D \in SUBSET Files, DeleteFiles(c, D)
  PROVE  IInv' /\ CountsOK
<1>1. ASSUME NEW f \in Files
      PROVE  /\ FileOK(files'[f])
             /\ files'[f].count # files[f].count => files'[f].chunks = NoChunks
  <2>1. files'[f] = IF f \in D THEN DeletedFile(files[f]) ELSE files[f]
    BY DEF DeleteFiles
  <2>. QED BY <2>1, FilesAreOK, DeletedFileOK
<1>2. files' \in [Files -> FileKeys]
  <2>1. files' = [f \in Files |-> files'[f]]
    BY DEF DeleteFiles
  <2>. QED BY <1>1, <2>1 DEF FileOK
<1>. QED BY <1>1, <1>2, NewFilesOK DEF DeleteFiles, OnlyOwner, CountsOK, IInv, TypeOK

\* The calls that change the metadata of a file.
LEMMA MetadataOK ==
  ASSUME IInv, NEW f \in Files, NEW meta \in Metadata, code = "website",
         files' = [files EXCEPT ![f].meta = meta],
         UNCHANGED <<code, owner, globalMeta>>
  PROVE  IInv' /\ CountsOK
<1>1. FileOK(files[f]) /\ files \in [Files -> FileKeys]
  BY FilesAreOK DEF IInv, TypeOK
<1>2. /\ files'[f] \in FileKeys /\ files'[f].chunks = files[f].chunks
      /\ files'[f].count = files[f].count /\ files'[f].location = files[f].location
      /\ \A g \in Files \ {f} : files'[g] = files[g]
      /\ files' \in [Files -> FileKeys]
  BY <1>1 DEF FileKeys
<1>3. FileOK(files'[f])
  BY <1>1, <1>2 DEF FileOK, TotalChunk
<1>4. \A g \in Files : FileOK(files'[g]) /\ files'[g].count = files[g].count
  BY <1>2, <1>3, FilesAreOK
<1>. QED BY <1>2, <1>4, NewFilesOK DEF CountsOK, IInv, TypeOK

LEMMA FileMetadataOK ==
  ASSUME IInv, NEW c \in Callers, NEW f \in Files,
         NEW edits \in Pairs(MetaKeys, MetaValues), NEW K,
         SetMetadataFile(c, f, edits) \/ RemoveMetadataFile(c, f, K)
  PROVE  IInv' /\ CountsOK
<1>1. files[f].meta \in Metadata
  BY DEF IInv, TypeOK, FileKeys
<1>2. Edited(files[f].meta, edits) \in Metadata /\ Without(files[f].meta, K) \in Metadata
  BY <1>1, EditedType, WithoutType
<1>3. PICK meta \in Metadata : files' = [files EXCEPT ![f].meta = meta]
  BY <1>2 DEF SetMetadataFile, RemoveMetadataFile
<1>. QED BY <1>3, MetadataOK DEF SetMetadataFile, RemoveMetadataFile, OnlyOwner

LEMMA GlobalMetadataOK ==
  ASSUME IInv, NEW c \in Callers, NEW edits \in Pairs(MetaKeys, MetaValues), NEW K,
         SetMetadataGlobal(c, edits) \/ RemoveMetadataGlobal(c, K)
  PROVE  IInv' /\ CountsOK
<1>1. globalMeta' \in Metadata
  BY EditedType, WithoutType DEF IInv, TypeOK, SetMetadataGlobal, RemoveMetadataGlobal
<1>2. UNCHANGED <<code, owner, files>> /\ code = "website"
  BY DEF SetMetadataGlobal, RemoveMetadataGlobal, OnlyOwner
<1>. QED BY <1>1, <1>2 DEF IInv, TypeOK, StorageConsistent, PurgedIsEmpty, CountsOK, TotalChunk

LEMMA ContractOK ==
  ASSUME IInv, NEW c \in Callers, NEW newOwner \in Callers \cup {Nobody},
         SetOwner(c, newOwner) \/ UpgradeSC(c) \/ Purge(c)
  PROVE  IInv' /\ CountsOK
<1>1. CASE SetOwner(c, newOwner)
  BY <1>1, SiteAssumption
  DEF SetOwner, IInv, TypeOK, StorageConsistent, PurgedIsEmpty, CountsOK, TotalChunk
<1>2. CASE UpgradeSC(c)
  BY <1>2, SiteAssumption
  DEF UpgradeSC, OnlyOwner, IInv, TypeOK, StorageConsistent, PurgedIsEmpty, CountsOK, TotalChunk
<1>3. CASE Purge(c)
  <2>1. \A f \in Files : files'[f] = NoFile /\ FileOK(files'[f])
    BY <1>3, NoFileOK DEF Purge
  <2>2. files' \in [Files -> FileKeys] /\ globalMeta' \in Metadata
    BY <1>3, NoFileOK DEF Purge, FileOK, Metadata, NoMetadata
  <2>. QED BY <1>3, <2>1, <2>2, NoFileOK
       DEF Purge, IInv, TypeOK, StorageConsistent, FileOK, PurgedIsEmpty, CountsOK
<1>. QED BY <1>1, <1>2, <1>3

LEMMA NextOK == IInv /\ [Next]_vars => IInv' /\ CountsOK
<1>. SUFFICES ASSUME IInv, [Next]_vars PROVE IInv' /\ CountsOK
  OBVIOUS
<1>1. CASE UNCHANGED vars
  BY <1>1 DEF vars, IInv, TypeOK, StorageConsistent, PurgedIsEmpty, CountsOK, TotalChunk
<1>2. CASE Next
  <2>1. PICK c \in Callers :
          \/ \E M \in SUBSET MetaKeys, D \in SUBSET Files,
                edits \in Pairs(MetaKeys, MetaValues), inits \in Inits :
               FilesInit(c, M, D, edits, inits)
          \/ \E posts \in Pairs(Files \X Indices, Data) : UploadFileChunks(c, posts)
          \/ \E f \in Files, start, end \in 0 .. MaxChunks :
               RemoveFileChunkRange(c, f, start, end)
          \/ \E D \in SUBSET Files : DeleteFiles(c, D)
          \/ \E edits \in Pairs(MetaKeys, MetaValues) :
               \/ SetMetadataGlobal(c, edits)
               \/ \E f \in Files : SetMetadataFile(c, f, edits)
          \/ \E keys \in SUBSET MetaKeys :
               \/ RemoveMetadataGlobal(c, keys)
               \/ \E f \in Files : RemoveMetadataFile(c, f, keys)
          \/ \E newOwner \in Callers \cup {Nobody} : SetOwner(c, newOwner)
          \/ UpgradeSC(c)
          \/ Purge(c)
    BY <1>2 DEF Next
  <2>2. \E edits : edits \in Pairs(MetaKeys, MetaValues)
    <3>1. [k \in {} |-> None] \in [{} -> MetaValues] /\ {} \in SUBSET MetaKeys
      OBVIOUS
    <3>. QED BY <3>1 DEF Pairs
  <2>. QED BY <2>1, <2>2, FilesInitOK, UploadFileChunksOK, RemoveFileChunkRangeOK,
              DeleteFilesOK, FileMetadataOK, GlobalMetadataOK, ContractOK
<1>. QED BY <1>1, <1>2

LEMMA Invariant == Spec => []IInv
<1>1. IInv /\ [Next]_vars => IInv'
  BY NextOK
<1>. QED BY <1>1, InitIInv, PTL DEF Spec

-----------------------------------------------------------------------------
(* The theorems.                                                           *)

\* Every key keeps its type.
THEOREM TypeCorrect == Spec => []TypeOK
BY Invariant, PTL DEF IInv

\* The locations, the numbers of chunks and the chunks stay consistent.
THEOREM StorageStaysConsistent == Spec => []StorageConsistent
BY Invariant, PTL DEF IInv

\* A purged website keeps nothing, and no other one loses its owner.
THEOREM PurgedStaysEmpty == Spec => []PurgedIsEmpty
BY Invariant, PTL DEF IInv

\* No chunk of an older version of a file is left when it is declared with
\* another number of chunks.
THEOREM OldChunksNeverStay == Spec => NewCountNoChunks
<1>1. IInv /\ [Next]_vars
        => [\A f \in Files : files'[f].count # files[f].count
              => files'[f].chunks = NoChunks]_vars
  BY NextOK DEF CountsOK
<1>. QED BY <1>1, Invariant, PTL DEF Spec, NewCountNoChunks

\* A website without an owner among the accounts never changes again.
THEOREM ImmutableStays == Spec => ImmutableForever
<1>1. IInv /\ [Next]_vars => [(owner \in Callers)]_vars
  <2>. SUFFICES ASSUME IInv, Next PROVE owner \in Callers
    OBVIOUS
  <2>1. PICK c \in Callers : c = owner \/ (code = "website" /\ owner = None)
    BY DEF Next, OnlyOwner, FilesInit, UploadFileChunks, RemoveFileChunkRange, DeleteFiles,
           SetMetadataGlobal, SetMetadataFile, RemoveMetadataGlobal, RemoveMetadataFile,
           SetOwner, UpgradeSC, Purge
  <2>. QED BY <2>1 DEF IInv, PurgedIsEmpty
<1>. QED BY <1>1, Invariant, PTL DEF Spec, ImmutableForever
=============================================================================
