--------------------------- MODULE MongoBuddyProofs ---------------------------
(***************************************************************************)
(* The object at the key is always one whole archive, for archives of any  *)
(* size S3 takes and however often an upload dies on its way; exporter and *)
(* importer upload as MultipartUpload says, and what is packed and         *)
(* restored is what was asked for, for any collections, sizes, and numbers *)
(* of commands and deaths.                                                 *)
(***************************************************************************)
EXTENDS MongoBuddy, TLAPS

----------------------------------------------------------------------------
\* The upload.

Ranges    == [from : Nat, size : Nat]
Multipart == upload \in {"read", "part", "complete"}
\* Where the parts that were uploaded end.
Uploaded  == IF upload = "part" THEN buffer.from ELSE position

InvType ==
    /\ UploadTypeOK
    /\ object # NoObject =>
          object \in [archive : Archives, size : Nat, ranges : Seq(Ranges)]

InvSize ==
    /\ upload \in {"put", "create"} \/ Multipart => fileSize \in 1..MaxObjectSize
    /\ upload = "put" => fileSize < S3PutObjectMaxSize

\* The ranges follow each other from 0 to n; there may be none yet.
Chain(ranges, n) == IF ranges = <<>> THEN n = 0 ELSE Tile(ranges, n)

\* While the file has bytes left every part is a full one, so there are no
\* more of them than GiBs read.
InvParts ==
    Multipart =>
       /\ Chain(parts, Uploaded)
       /\ Uploaded <= fileSize
       /\ \A i \in 1..Len(parts) : parts[i].size <= MaxPartSize
       /\ \A i \in 1..(Len(parts) - 1) : parts[i].size >= MinPartSize
       /\ (Len(parts) - 1) * GiB <= Uploaded
       /\ Uploaded < fileSize =>
             /\ \A i \in 1..Len(parts) : parts[i].size >= MinPartSize
             /\ Len(parts) * GiB <= Uploaded

InvBuffer ==
    /\ upload = "part" =>
          /\ buffer.from < fileSize
          /\ buffer.size <= MaxPartSize
          /\ position = buffer.from + buffer.size
          /\ position <= fileSize
          /\ position < fileSize => buffer.size >= MinPartSize
    /\ upload = "complete" => position = fileSize

UploadInv == InvType /\ InvSize /\ InvParts /\ InvBuffer /\ ObjectWhole

-----------------------------------------------------------------------------
LEMMA PartSizeBounds ==
    ASSUME NEW n \in Nat
    PROVE  PartSize(n) \in Nat /\ PartSize(n) >= MinPartSize /\ PartSize(n) <= MaxPartSize
BY GiBAssumption DEF PartSize, Smaller, Larger, MinPartSize, MaxPartSize, S3PutObjectMaxSize

\* As many parts of a GiB as fit into 5 TiB.
LEMMA FewParts ==
    ASSUME NEW n \in Int, NEW m \in Int, m <= MaxObjectSize, n * GiB <= m
    PROVE  n <= 5120
<1>1. n * GiB <= 5120 * GiB
  BY GiBAssumption DEF MaxObjectSize
<1>2. (n - 5120) * GiB <= 0
  BY <1>1, GiBAssumption
<1>3. SUFFICES ASSUME n - 5120 >= 1 PROVE FALSE
  OBVIOUS
<1>4. PICK k \in Nat : n - 5120 = k + 1
  <2>1. n - 5121 \in Nat
    BY <1>3
  <2> QED BY <2>1
<1>5. (k + 1) * GiB = k * GiB + GiB /\ k * GiB >= 0
  BY GiBAssumption
<1> QED BY <1>2, <1>4, <1>5, GiBAssumption

\* One more range at the end of a chain.
LEMMA ChainAppend ==
    ASSUME NEW s \in Seq(Ranges), NEW r \in Ranges, Chain(s, r.from)
    PROVE  Tile(Append(s, r), r.from + r.size)
<1> DEFINE t == Append(s, r)
<1>1. t \in Seq(Ranges) /\ Len(t) = Len(s) + 1 /\ t # <<>> /\ Len(s) \in Nat
  OBVIOUS
<1>2. t[Len(t)] = r
  OBVIOUS
<1>3. \A i \in 1..Len(s) : t[i] = s[i]
  OBVIOUS
<1>4. CASE s = <<>>
  <2>1. Len(s) = 0
    BY <1>4
  <2> QED BY <1>1, <1>2, <1>4, <2>1 DEF Chain, Tile
<1>5. CASE s # <<>>
  <2>1. Tile(s, r.from) /\ Len(s) >= 1
    BY <1>1, <1>5 DEF Chain
  <2>2. t[1].from = 0
    BY <1>1, <1>3, <2>1 DEF Tile
  <2>3. ASSUME NEW i \in 1..(Len(t) - 1)
        PROVE  t[i + 1].from = t[i].from + t[i].size
    <3>1. CASE i = Len(s)
      BY <1>1, <1>2, <1>3, <2>1, <3>1 DEF Tile
    <3>2. CASE i # Len(s)
      <4>1. i \in 1..(Len(s) - 1) /\ i + 1 \in 1..Len(s) /\ i \in 1..Len(s)
        BY <1>1, <3>2
      <4> QED BY <1>3, <2>1, <4>1 DEF Tile
    <3> QED BY <3>1, <3>2
  <2> QED BY <1>1, <1>2, <2>2, <2>3 DEF Tile
<1> QED BY <1>4, <1>5

-----------------------------------------------------------------------------
LEMMA InvHolds == UploadInit => UploadInv
<1> SUFFICES ASSUME UploadInit PROVE UploadInv
  OBVIOUS
<1>1. Bytes(0, 0) \in Ranges /\ <<>> \in Seq(Ranges) /\ 0 \in 0..MaxObjectSize
  BY GiBAssumption DEF Bytes, Ranges, MaxObjectSize
<1> QED BY <1>1 DEF UploadInit, UploadInv, InvType, InvSize, InvParts, InvBuffer,
       ObjectWhole, UploadTypeOK, UploadStages, Multipart, Ranges

\* What PutObject stores is whole, and so is what the parts make.
LEMMA PutIsWhole ==
    ASSUME UploadInv, upload = "put"
    PROVE  /\ PutWhole \in [archive : Archives, size : Nat, ranges : Seq(Ranges)]
           /\ Tile(PutWhole.ranges, PutWhole.size)
           /\ WithinS3Limits(PutWhole.ranges)
<1> DEFINE r == Bytes(0, fileSize)
<1>1. fileSize \in Nat /\ fileSize <= MaxPartSize
  BY GiBAssumption DEF UploadInv, InvSize, InvType, MaxPartSize, S3PutObjectMaxSize,
     MaxObjectSize
<1>2. r \in Ranges /\ r.from = 0 /\ r.size = fileSize
  BY <1>1 DEF Bytes, Ranges
<1>3. PutWhole = [archive |-> content, size |-> fileSize, ranges |-> <<r>>]
  BY DEF PutWhole, Object
<1>4. <<r>> \in Seq(Ranges) /\ Len(<<r>>) = 1 /\ <<r>>[1] = r /\ <<r>> # <<>>
  BY <1>2
<1>5. content \in Archives
  BY DEF UploadInv, InvType, UploadTypeOK
<1>6. PutWhole \in [archive : Archives, size : Nat, ranges : Seq(Ranges)]
  BY <1>1, <1>3, <1>4, <1>5
<1>7. PutWhole.ranges = <<r>> /\ PutWhole.size = fileSize
  BY <1>3
<1>8. Tile(<<r>>, fileSize)
  BY <1>1, <1>2, <1>4 DEF Tile
<1>9. WithinS3Limits(<<r>>)
  BY <1>1, <1>2, <1>4 DEF WithinS3Limits
<1> QED BY <1>6, <1>7, <1>8, <1>9

LEMMA PartsAreWhole ==
    ASSUME UploadInv, upload = "complete"
    PROVE  LET o == Object(content, fileSize, parts)
           IN  /\ o \in [archive : Archives, size : Nat, ranges : Seq(Ranges)]
               /\ Tile(o.ranges, o.size)
               /\ WithinS3Limits(o.ranges)
<1> DEFINE o == Object(content, fileSize, parts)
<1>1. fileSize \in Nat /\ fileSize >= 1 /\ fileSize <= MaxObjectSize
  BY GiBAssumption DEF UploadInv, InvSize, InvType, Multipart, MaxObjectSize
<1>2. content \in Archives /\ parts \in Seq(Ranges) /\ Len(parts) \in Nat
  BY DEF UploadInv, InvType, UploadTypeOK, Ranges
<1>3. o = [archive |-> content, size |-> fileSize, ranges |-> parts]
  BY DEF Object
<1>4. Uploaded = fileSize
  BY DEF UploadInv, InvBuffer, Uploaded
<1>5. Tile(parts, fileSize)
  BY <1>1, <1>4 DEF UploadInv, InvParts, Multipart, Chain
<1>6. Len(parts) - 1 <= 5120
  <2>1. (Len(parts) - 1) * GiB <= fileSize
    BY <1>4 DEF UploadInv, InvParts, Multipart
  <2> QED BY <1>1, <1>2, <2>1, FewParts
<1>7. WithinS3Limits(parts)
  BY <1>2, <1>6 DEF UploadInv, InvParts, Multipart, WithinS3Limits
<1> QED BY <1>1, <1>2, <1>3, <1>5, <1>7

-----------------------------------------------------------------------------
LEMMA BeginInv ==
    ASSUME UploadInv, NEW a \in Archives, NEW n \in 1..MaxObjectSize, BeginUpload(a, n)
    PROVE  UploadInv'
<1>1. n \in Nat /\ n \in 0..MaxObjectSize
  BY GiBAssumption DEF MaxObjectSize
<1>2. upload' \in {"create", "put"} /\ UNCHANGED <<readVars, object>>
  BY DEF BeginUpload
<1>3. InvType' /\ ObjectWhole'
  BY <1>1, <1>2 DEF UploadInv, BeginUpload, readVars, InvType, ObjectWhole,
     UploadTypeOK, UploadStages
<1>4. InvSize'
  <2>1. fileSize' = n /\ upload' = IF n >= S3PutObjectMaxSize THEN "create" ELSE "put"
    BY DEF BeginUpload
  <2>2. UNCHANGED <<GiB, S3PutObjectMaxSize, MaxObjectSize>>
    BY DEF S3PutObjectMaxSize, MaxObjectSize
  <2>3. S3PutObjectMaxSize \in Nat
    BY GiBAssumption DEF S3PutObjectMaxSize
  <2> QED BY <1>1, <2>1, <2>2, <2>3 DEF InvSize
<1>5. InvParts' /\ InvBuffer'
  BY <1>2 DEF InvParts, InvBuffer, Multipart
<1> QED BY <1>3, <1>4, <1>5 DEF UploadInv

LEMMA ReplaceInv ==
    ASSUME UploadInv, NEW a \in Archives, ReplaceFile(a)
    PROVE  UploadInv'
BY DEF UploadInv, ReplaceFile, readVars, localVars, InvType, InvSize, InvParts,
   InvBuffer, ObjectWhole, UploadTypeOK, Multipart

\* Whatever ends the upload leaves an object, the old one or a whole one.
LEMMA EndInv ==
    ASSUME UploadInv, upload' \in {"idle", "uploaded"}, Leave, UNCHANGED content,
           \/ UNCHANGED object
           \/ upload = "put" /\ object' = PutWhole
           \/ upload = "complete" /\ object' = Object(content, fileSize, parts)
    PROVE  UploadInv'
<1>1. Bytes(0, 0) \in Ranges /\ <<>> \in Seq(Ranges) /\ 0 \in 0..MaxObjectSize
  BY GiBAssumption DEF Bytes, Ranges, MaxObjectSize
<1>2. UploadTypeOK'
  BY <1>1 DEF UploadInv, InvType, UploadTypeOK, UploadStages, Leave, StartReading, Ranges
<1>3. /\ object' # NoObject =>
            object' \in [archive : Archives, size : Nat, ranges : Seq(Ranges)]
      /\ ObjectWhole'
  <2>1. CASE UNCHANGED object
    BY <2>1 DEF UploadInv, InvType, ObjectWhole
  <2>2. CASE upload = "put" /\ object' = PutWhole
    BY <2>2, PutIsWhole DEF ObjectWhole
  <2>3. CASE upload = "complete" /\ object' = Object(content, fileSize, parts)
    BY <2>3, PartsAreWhole DEF ObjectWhole
  <2> QED BY <2>1, <2>2, <2>3
<1> QED BY <1>2, <1>3 DEF UploadInv, InvType, InvSize, InvParts, InvBuffer, Multipart

LEMMA CreateInv ==
    ASSUME UploadInv, CreateMultipartUpload
    PROVE  UploadInv'
<1>1. Bytes(0, 0) \in Ranges /\ <<>> \in Seq(Ranges) /\ Len(<<>>) = 0
  BY DEF Bytes, Ranges
<1>2. fileSize \in Nat /\ fileSize \in 1..MaxObjectSize
  BY GiBAssumption DEF UploadInv, InvSize, MaxObjectSize, CreateMultipartUpload
<1>3. InvType' /\ InvSize' /\ InvBuffer' /\ ObjectWhole'
  BY <1>1, <1>2 DEF UploadInv, CreateMultipartUpload, StartReading, InvType, InvSize,
     InvBuffer, ObjectWhole, UploadTypeOK, UploadStages, Multipart, Ranges
<1>4. parts' = <<>> /\ Uploaded' = 0 /\ fileSize' = fileSize
  BY DEF CreateMultipartUpload, StartReading, Uploaded
<1>5. InvParts'
  <2>1. (0 - 1) * GiB <= 0 /\ 0 * GiB <= 0
    BY GiBAssumption
  <2> QED BY <1>1, <1>2, <1>4, <2>1 DEF InvParts, Chain
<1> QED BY <1>3, <1>5 DEF UploadInv

LEMMA ReadInv ==
    ASSUME UploadInv, ReadPart
    PROVE  UploadInv'
<1> DEFINE bytesRead == Smaller(PartSize(fileSize), fileSize - position)
<1>1. /\ fileSize \in Nat /\ fileSize \in 1..MaxObjectSize
      /\ position \in Nat /\ position <= fileSize
  BY GiBAssumption DEF UploadInv, InvType, UploadTypeOK, InvSize, InvParts, Multipart,
     Uploaded, ReadPart, MaxObjectSize
<1>2. /\ bytesRead \in Nat /\ bytesRead <= MaxPartSize
      /\ bytesRead = 0 => position = fileSize
      /\ position + bytesRead <= fileSize
      /\ position + bytesRead < fileSize => bytesRead >= MinPartSize
  BY <1>1, PartSizeBounds, GiBAssumption DEF Smaller, MinPartSize, MaxPartSize,
     S3PutObjectMaxSize
<1>3. /\ buffer' = Bytes(position, bytesRead) /\ position' = position + bytesRead
      /\ upload' = IF bytesRead = 0 THEN "complete" ELSE "part"
      /\ UNCHANGED <<content, fileSize, partNumber, parts, object>>
  BY DEF ReadPart
<1> HIDE DEF bytesRead
<1>4. Bytes(position, bytesRead) \in Ranges
  BY <1>1, <1>2 DEF Bytes, Ranges
<1>5. InvType' /\ InvSize' /\ ObjectWhole'
  BY <1>1, <1>2, <1>3, <1>4 DEF UploadInv, ReadPart, InvType, InvSize, ObjectWhole,
     UploadTypeOK, UploadStages, Multipart, Ranges
<1>6. Uploaded = position /\ Uploaded' = Uploaded
  BY <1>1, <1>2, <1>3 DEF Uploaded, ReadPart, Bytes
<1>7. InvParts'
  BY <1>3, <1>6 DEF UploadInv, InvParts, Multipart, ReadPart
<1>8. InvBuffer'
  BY <1>1, <1>2, <1>3 DEF InvBuffer, Bytes
<1> QED BY <1>5, <1>7, <1>8 DEF UploadInv

LEMMA PartInv ==
    ASSUME UploadInv, UploadPart
    PROVE  UploadInv'
<1>1. /\ parts \in Seq(Ranges) /\ buffer \in Ranges /\ Len(parts) \in Nat
      /\ fileSize \in 1..MaxObjectSize /\ fileSize \in Nat /\ partNumber \in Nat
  BY GiBAssumption DEF UploadInv, InvType, UploadTypeOK, InvSize, Multipart, UploadPart,
     Ranges, MaxObjectSize
<1>2. /\ parts' = Append(parts, buffer) /\ parts' \in Seq(Ranges)
      /\ Len(parts') = Len(parts) + 1 /\ parts' # <<>>
      /\ \A i \in 1..Len(parts) : parts'[i] = parts[i]
      /\ parts'[Len(parts')] = buffer
  BY <1>1 DEF UploadPart
<1>3. Uploaded = buffer.from /\ Uploaded' = position /\ position' = position
  BY DEF Uploaded, UploadPart
<1>4. /\ buffer.from < fileSize /\ buffer.size <= MaxPartSize
      /\ position = buffer.from + buffer.size /\ position <= fileSize
      /\ position < fileSize => buffer.size >= MinPartSize
  BY DEF UploadInv, InvBuffer, UploadPart
<1>5. /\ Chain(parts, buffer.from)
      /\ \A i \in 1..Len(parts) : /\ parts[i].size <= MaxPartSize
                                  /\ parts[i].size >= MinPartSize
      /\ Len(parts) * GiB <= buffer.from
  BY <1>3, <1>4 DEF UploadInv, InvParts, Multipart, UploadPart
<1>6. InvType' /\ InvSize' /\ ObjectWhole' /\ InvBuffer'
  BY <1>1, <1>2 DEF UploadInv, UploadPart, InvType, InvSize, InvBuffer, ObjectWhole,
     UploadTypeOK, UploadStages, Multipart, Ranges
<1>7. Chain(parts', position)
  BY <1>1, <1>2, <1>4, <1>5, ChainAppend DEF Chain
<1>8. \A i \in 1..Len(parts') : parts'[i].size <= MaxPartSize
  BY <1>1, <1>2, <1>4, <1>5
<1>9. \A i \in 1..(Len(parts') - 1) : parts'[i].size >= MinPartSize
  BY <1>1, <1>2, <1>5
<1>10. (Len(parts') - 1) * GiB <= position
  <2>1. Len(parts') - 1 = Len(parts) /\ buffer.from <= position
    BY <1>1, <1>2, <1>4 DEF Ranges
  <2>2. Len(parts) * GiB \in Int /\ buffer.from \in Nat /\ position \in Int
    BY <1>1, <1>4, GiBAssumption DEF Ranges
  <2> QED BY <1>5, <2>1, <2>2
<1>11. ASSUME position < fileSize
       PROVE  /\ \A i \in 1..Len(parts') : parts'[i].size >= MinPartSize
              /\ Len(parts') * GiB <= position
  <2>1. buffer.size >= MinPartSize
    BY <1>4, <1>11
  <2>2. \A i \in 1..Len(parts') : parts'[i].size >= MinPartSize
    BY <1>1, <1>2, <1>5, <2>1
  <2>3. (Len(parts) + 1) * GiB = Len(parts) * GiB + GiB
    BY <1>1, GiBAssumption
  <2>4. Len(parts) * GiB \in Int /\ buffer.from \in Nat /\ buffer.size \in Nat
    BY <1>1, GiBAssumption DEF Ranges
  <2>5. Len(parts) * GiB + GiB <= buffer.from + buffer.size
    BY <1>5, <2>1, <2>4, GiBAssumption DEF MinPartSize
  <2> QED BY <1>2, <1>4, <2>2, <2>3, <2>5
<1>12. InvParts'
  BY <1>3, <1>4, <1>7, <1>8, <1>9, <1>10, <1>11 DEF InvParts, UploadPart, MinPartSize,
     MaxPartSize, S3PutObjectMaxSize
<1> QED BY <1>6, <1>12 DEF UploadInv

LEMMA StepInv == UploadInv /\ [UploadNext]_uploadVars => UploadInv'
<1> SUFFICES ASSUME UploadInv, [UploadNext]_uploadVars PROVE UploadInv'
  OBVIOUS
<1>1. CASE \E a \in Archives, n \in 1..MaxObjectSize : BeginUpload(a, n)
  BY <1>1, BeginInv
<1>2. CASE \E a \in Archives : ReplaceFile(a)
  BY <1>2, ReplaceInv
<1>3. CASE PutObject
  BY <1>3, EndInv DEF PutObject
<1>4. CASE CreateMultipartUpload
  BY <1>4, CreateInv
<1>5. CASE ReadPart
  BY <1>5, ReadInv
<1>6. CASE UploadPart
  BY <1>6, PartInv
<1>7. CASE CompleteMultipartUpload
  BY <1>7, EndInv DEF CompleteMultipartUpload
<1>8. CASE UploadDies
  BY <1>8, EndInv DEF UploadDies, ServedOrNot
<1>9. CASE UNCHANGED uploadVars
  BY <1>9 DEF uploadVars, localVars, readVars, UploadInv, InvType, InvSize, InvParts,
     InvBuffer, ObjectWhole, UploadTypeOK, Multipart, Uploaded
<1> QED BY <1>1, <1>2, <1>3, <1>4, <1>5, <1>6, <1>7, <1>8, <1>9 DEF UploadNext, UploadStep

\* The inductive invariant of an upload, of any archive S3 takes.
THEOREM UploadInvariance == UploadSpec => []UploadInv
<1>1. UploadInit => UploadInv
  BY InvHolds
<1>2. UploadInv /\ [UploadNext]_uploadVars => UploadInv'
  BY StepInv
<1> QED BY <1>1, <1>2, PTL DEF UploadSpec

\* The upload reads and sends ranges of the file only, and positions never
\* leave it.
THEOREM UploadTypeCorrect == UploadSpec => []UploadTypeOK
<1>1. UploadInv => UploadTypeOK
  BY DEF UploadInv, InvType
<1> QED BY <1>1, UploadInvariance, PTL

\* The object is a whole archive in parts S3 accepts, for every size: the
\* tenth that is rounded down loses no remainder and makes no part too many.
THEOREM ObjectWholeCorrect == UploadSpec => []ObjectWhole
<1>1. UploadInv => ObjectWhole
  BY DEF UploadInv
<1> QED BY <1>1, UploadInvariance, PTL

----------------------------------------------------------------------------
\* The commands.

BuddyType ==
    /\ content \in Dumps
    /\ source \in Dumps /\ changes \in 0..MaxChanges /\ deaths \in 0..MaxDeaths
    /\ exporter \in {"off", "dump", "archive", "upload", "remove"}
    /\ exports \in 0..MaxExports
    /\ excluded \in SUBSET Collections /\ dumping \in SUBSET Collections
    /\ since \in Dumps /\ dumpDir \in Dumps /\ spoilt \in BOOLEAN
    /\ importer \in {"off", "download", "untar", "restore", "remove"}
    /\ imports \in 0..MaxImports
    /\ tarball \in Dumps /\ extracted \in Dumps
    /\ restoring \in SUBSET Collections /\ target \in Dumps
    /\ object # NoObject => object.archive \in Archives

\* export_data waits for upload_to_s3, and no other task calls it.
InvStages == upload \in {"idle", "uploaded"} \/ exporter = "upload"

LEMMA BoundsInNat ==
    /\ MaxChanges \in Nat /\ MaxExports \in Nat /\ MaxImports \in Nat /\ MaxDeaths \in Nat
    /\ 0 \in Versions /\ 1 \in Versions /\ NoDump \in Dumps
    /\ Archives = Dumps /\ Sizes \subseteq 1..MaxObjectSize
    /\ Exclusions \subseteq SUBSET Collections
BY BoundsAssumption, ArchivesAssumption DEF Versions, NoDump, Dumps

LEMMA OverInDumps ==
    ASSUME NEW d \in Dumps, NEW e \in Dumps, NEW s
    PROVE  Over(d, e, s) \in Dumps
BY DEF Over, Dumps

LEMMA BuddyTypeInit == Init => BuddyType /\ InvStages /\ UploadInit
<1> SUFFICES ASSUME Init PROVE BuddyType /\ InvStages /\ UploadInit
  OBVIOUS
<1>1. UploadInit /\ InvStages
  BY DEF Init, InvStages, UploadInit
<1>2. source \in Dumps
  BY BoundsInNat DEF Init, Dumps
<1>3. object = NoObject
  BY <1>1 DEF UploadInit
<1>4. 0 \in 0..MaxChanges /\ 0 \in 0..MaxDeaths /\ 0 \in 0..MaxExports /\ 0 \in 0..MaxImports
  BY BoundsInNat
<1>5. BuddyType
  BY <1>2, <1>3, <1>4, BoundsInNat DEF Init, BuddyType
<1> QED BY <1>1, <1>5

\* Each step of the commands is a step of the upload, or leaves it alone.
LEMMA StepUploads ==
    ASSUME BuddyType, InvStages, [Next]_vars
    PROVE  [UploadNext]_uploadVars
<1>1. CASE \E c \in Collections : ChangeSource(c)
  BY <1>1 DEF ChangeSource
<1>2. CASE \E x \in Exclusions : StartExport(x)
  <2>1. upload \in {"idle", "uploaded"} /\ UNCHANGED <<upload, localVars, object>>
    BY <1>2 DEF StartExport, Exporting, InvStages
  <2>2. content' = content \/ content' = NoDump
    BY <1>2 DEF StartExport
  <2>3. content' \in Archives
    BY <2>2, BoundsInNat DEF BuddyType
  <2> QED BY <2>1, <2>3 DEF UploadNext, ReplaceFile
<1>3. CASE \E c \in Collections : DumpCollection(c)
  BY <1>3 DEF DumpCollection
<1>4. CASE Dumped
  BY <1>4 DEF Dumped
<1>5. CASE \E n \in Sizes : Archive(n)
  <2>1. PICK n \in Sizes : BeginUpload(dumpDir, n)
    BY <1>5 DEF Archive
  <2>2. dumpDir \in Archives /\ n \in 1..MaxObjectSize
    BY BoundsInNat DEF BuddyType
  <2> QED BY <2>1, <2>2 DEF UploadNext
<1>6. CASE Upload
  BY <1>6 DEF Upload, UploadNext
<1>7. CASE RemoveFiles
  <2>1. upload \in {"idle", "uploaded"} /\ UNCHANGED <<upload, localVars, object>>
    BY <1>7 DEF RemoveFiles, InvStages
  <2> QED BY <1>7, <2>1, BoundsInNat DEF UploadNext, ReplaceFile, RemoveFiles
<1>8. CASE ExporterDies
  BY <1>8 DEF ExporterDies, UploadNext
<1>9. CASE ImporterStep \/ Idle \/ UNCHANGED vars
  BY <1>9 DEF ImporterStep, StartImport, Download, NothingToDownload, Untar,
     RestoreCollection, Restored, RemoveTarball, ImporterDies, Idle, vars
<1> QED BY <1>1, <1>2, <1>3, <1>4, <1>5, <1>6, <1>7, <1>8, <1>9 DEF Next, ExporterStep

-----------------------------------------------------------------------------
LEMMA ExporterType ==
    ASSUME BuddyType, InvStages, ExporterStep
    PROVE  BuddyType' /\ InvStages'
<1> USE BoundsInNat DEF BuddyType
<1>1. CASE \E x \in Exclusions : StartExport(x)
  <2>1. PICK x \in Exclusions : StartExport(x)
    BY <1>1
  <2>2. exports' \in 0..MaxExports
    BY <2>1 DEF StartExport
  <2>3. excluded' \in SUBSET Collections /\ dumping' \in SUBSET Collections
    BY <2>1 DEF StartExport, Held
  <2> QED BY <2>1, <2>2, <2>3 DEF StartExport, importerVars, sourceVars, InvStages, Exporting
<1>2. CASE \E c \in Collections : DumpCollection(c)
  <2>1. PICK c \in Collections : DumpCollection(c)
    BY <1>2
  <2>2. dumpDir' \in Dumps
    BY <2>1 DEF DumpCollection, Dumps
  <2> QED BY <2>1, <2>2 DEF DumpCollection, importerVars, sourceVars, uploadVars, InvStages
<1>3. CASE Dumped
  BY <1>3 DEF Dumped, importerVars, sourceVars, uploadVars, commandVars, InvStages
<1>4. CASE \E n \in Sizes : Archive(n)
  BY <1>4 DEF Archive, BeginUpload, importerVars, sourceVars, commandVars, InvStages
<1>5. CASE Upload
  <2>1. content' = content
    BY <1>5 DEF Upload, UploadStep, PutObject, CreateMultipartUpload, ReadPart, UploadPart,
       CompleteMultipartUpload
  <2>2. object' = object \/ object'.archive = content
    BY <1>5 DEF Upload, UploadStep, PutObject, CreateMultipartUpload, ReadPart, UploadPart,
       CompleteMultipartUpload, PutWhole, Object
  <2>3. object' # NoObject => object'.archive \in Archives
    BY <2>2
  <2> QED BY <1>5, <2>1, <2>3 DEF Upload, importerVars, sourceVars, commandVars, InvStages
<1>6. CASE RemoveFiles
  BY <1>6 DEF RemoveFiles, EndExport, importerVars, sourceVars, InvStages
<1>7. CASE ExporterDies
  <2>1. dumpDir' \in Dumps
    <3>1. LeftBehind \subseteq Dumps
      <4>1. CASE exporter = "dump"
        BY <4>1, OverInDumps DEF LeftBehind
      <4>2. CASE exporter = "remove"
        BY <4>2, OverInDumps DEF LeftBehind
      <4>3. CASE exporter \notin {"dump", "remove"}
        BY <4>3 DEF LeftBehind
      <4> QED BY <4>1, <4>2, <4>3
    <3> QED BY <1>7, <3>1 DEF ExporterDies
  <2>2. content' = content /\ upload' \in {"idle", "uploaded"}
    BY <1>7 DEF ExporterDies, UploadDies, uploadVars, InvStages
  <2>3. object' = object \/ object'.archive = content
    BY <1>7 DEF ExporterDies, UploadDies, ServedOrNot, uploadVars, PutWhole, Object
  <2>4. object' # NoObject => object'.archive \in Archives
    BY <2>3
  <2>5. deaths' \in 0..MaxDeaths
    BY <1>7 DEF ExporterDies, Dies
  <2> QED BY <1>7, <2>1, <2>2, <2>4, <2>5 DEF ExporterDies, EndExport, importerVars,
         sourceVars, InvStages
<1> QED BY <1>1, <1>2, <1>3, <1>4, <1>5, <1>6, <1>7 DEF ExporterStep

LEMMA ImporterType ==
    ASSUME BuddyType, InvStages, ImporterStep
    PROVE  BuddyType' /\ InvStages'
<1> USE BoundsInNat DEF BuddyType
<1>1. UNCHANGED <<uploadVars, sourceVars, exporterVars>>
  BY DEF ImporterStep, StartImport, Download, NothingToDownload, Untar,
     RestoreCollection, Restored, RemoveTarball, ImporterDies
<1>2. /\ UNCHANGED <<content, upload, object, source, changes>>
      /\ UNCHANGED <<exporter, exports, excluded, dumping, since, dumpDir, spoilt>>
  BY <1>1 DEF uploadVars, sourceVars, exporterVars, commandVars
<1>3. InvStages'
  BY <1>2 DEF InvStages
<1>4. CASE StartImport
  BY <1>2, <1>3, <1>4 DEF StartImport
<1>5. CASE Download
  BY <1>2, <1>3, <1>5 DEF Download
<1>6. CASE NothingToDownload
  BY <1>2, <1>3, <1>6 DEF NothingToDownload, EndImport
<1>7. CASE Untar
  <2>1. extracted' \in Dumps
    BY <1>7, OverInDumps DEF Untar
  <2> QED BY <1>2, <1>3, <1>7, <2>1 DEF Untar, Held
<1>8. CASE \E c \in Collections : RestoreCollection(c)
  <2>1. PICK c \in Collections : RestoreCollection(c)
    BY <1>8
  <2>2. target' \in Dumps
    BY <2>1 DEF RestoreCollection, Dumps
  <2> QED BY <1>2, <1>3, <2>1, <2>2 DEF RestoreCollection
<1>9. CASE Restored
  BY <1>2, <1>3, <1>9 DEF Restored
<1>10. CASE RemoveTarball
  BY <1>2, <1>3, <1>10 DEF RemoveTarball, EndImport
<1>11. CASE ImporterDies
  <2>1. target' \in Dumps
    <3>1. RestoredInPart => target' \in Dumps
      BY OverInDumps DEF RestoredInPart
    <3> QED BY <1>11, <3>1 DEF ImporterDies
  <2>2. extracted' \in Dumps
    BY <1>11, OverInDumps DEF ImporterDies
  <2>3. tarball' \in Dumps /\ deaths' \in 0..MaxDeaths
    BY <1>11 DEF ImporterDies, Dies
  <2> QED BY <1>2, <1>3, <1>11, <2>1, <2>2, <2>3 DEF ImporterDies, EndImport
<1> QED BY <1>4, <1>5, <1>6, <1>7, <1>8, <1>9, <1>10, <1>11 DEF ImporterStep

LEMMA TypeStep ==
    ASSUME BuddyType, InvStages, [Next]_vars
    PROVE  BuddyType' /\ InvStages'
<1>1. CASE \E c \in Collections : ChangeSource(c)
  <2>1. PICK c \in Collections : ChangeSource(c)
    BY <1>1
  <2>2. source' \in Dumps /\ changes' \in 0..MaxChanges
    <3>1. changes \in Nat /\ changes + 1 \in 0..MaxChanges
      BY <2>1, BoundsInNat DEF ChangeSource, BuddyType
    <3>2. changes + 2 \in Versions
      BY <3>1, BoundsInNat DEF Versions
    <3> QED BY <2>1, <3>1, <3>2, BoundsInNat DEF ChangeSource, BuddyType, Dumps
  <2> QED BY <2>1, <2>2 DEF ChangeSource, uploadVars, exporterVars, commandVars,
         importerVars, BuddyType, InvStages
<1>2. CASE Idle \/ UNCHANGED vars
  BY <1>2 DEF Idle, vars, uploadVars, sourceVars, exporterVars, commandVars,
     importerVars, BuddyType, InvStages
<1> QED BY <1>1, <1>2, ExporterType, ImporterType DEF Next

LEMMA BuddyTypeInvariance == Spec => [](BuddyType /\ InvStages)
<1>1. BuddyType /\ InvStages /\ [Next]_vars => (BuddyType /\ InvStages)'
  BY TypeStep
<1> QED BY <1>1, BuddyTypeInit, PTL DEF Spec

\* The exporter uploads as MultipartUpload says: what is proved of every upload
\* holds of the exports, whatever the importer does meanwhile.
THEOREM ExportsUpload == Spec => UploadSpec
<1>1. Init => UploadInit
  BY BuddyTypeInit
<1>2. BuddyType /\ InvStages /\ [Next]_vars => [UploadNext]_uploadVars
  BY StepUploads
<1> QED BY <1>1, <1>2, BuddyTypeInvariance, PTL DEF Spec, UploadSpec

\* Whatever is at the key while exporters and importers come, go and die is a
\* whole archive.
THEOREM ExportedWhole == Spec => []ObjectWhole
BY ExportsUpload, ObjectWholeCorrect, PTL

\* Stages, files and versions stay what they are said to be.
THEOREM BuddyTypeCorrect == Spec => []TypeOK
<1>1. BuddyType /\ UploadTypeOK => TypeOK
  BY DEF BuddyType, TypeOK
<1> QED BY <1>1, BuddyTypeInvariance, ExportsUpload, UploadTypeCorrect, PTL

-----------------------------------------------------------------------------
(* What is restored. *)

\* From untar on, the disk has the files of the archive; what was restored of
\* them is what the target has.
InvRestore ==
    /\ importer \in {"restore", "remove"} =>
          \A c \in Held(tarball) :
             /\ extracted[c] = tarball[c]
             /\ c \notin restoring => target[c] = tarball[c]
    /\ importer = "remove" => restoring = {}

LEMMA RestoreStep ==
    ASSUME BuddyType, InvRestore, [Next]_vars
    PROVE  InvRestore'
<1>1. CASE UNCHANGED importerVars
  BY <1>1 DEF importerVars, InvRestore, Held
<1>2. CASE \/ StartImport \/ Download \/ NothingToDownload \/ RemoveTarball
           \/ ImporterDies
  <2>1. importer' \notin {"restore", "remove"}
    BY <1>2 DEF StartImport, Download, NothingToDownload, RemoveTarball, ImporterDies,
       EndImport
  <2> QED BY <2>1 DEF InvRestore
<1>3. CASE Untar
  <2>1. /\ importer' = "restore" /\ tarball' = tarball
        /\ extracted' = Over(extracted, tarball, Held(tarball))
        /\ restoring' = Held(extracted')
    BY <1>3 DEF Untar
  <2>2. ASSUME NEW c \in Held(tarball)
        PROVE  extracted'[c] = tarball[c] /\ c \in restoring'
    BY <2>1, <2>2 DEF Held, Over
  <2> QED BY <2>1, <2>2 DEF InvRestore, Held
<1>4. CASE \E c \in Collections : RestoreCollection(c)
  <2>1. PICK c \in Collections : RestoreCollection(c)
    BY <1>4
  <2>2. ASSUME NEW d \in Held(tarball), d \notin restoring'
        PROVE  target'[d] = tarball[d]
    <3>1. CASE d = c
      BY <2>1, <3>1 DEF RestoreCollection, InvRestore, BuddyType, Dumps
    <3>2. CASE d # c
      BY <2>1, <2>2, <3>2 DEF RestoreCollection, InvRestore, BuddyType, Dumps
    <3> QED BY <3>1, <3>2
  <2> QED BY <2>1, <2>2 DEF RestoreCollection, InvRestore, Held
<1>5. CASE Restored
  BY <1>5 DEF Restored, InvRestore, Held
<1>6. [Next]_vars /\ ~ImporterStep => UNCHANGED importerVars
  BY DEF Next, ChangeSource, ExporterStep, StartExport, DumpCollection, Dumped, Archive,
     Upload, RemoveFiles, ExporterDies, Idle, vars
<1> QED BY <1>1, <1>2, <1>3, <1>4, <1>5, <1>6 DEF ImporterStep

\* A restore that is through has restored the archive, whatever earlier imports
\* left on the disk or in the target.
THEOREM ImportIsArchiveCorrect == Spec => []ImportIsArchive
<1>1. Init => InvRestore
  BY DEF Init, InvRestore
<1>2. (BuddyType /\ InvStages) /\ InvRestore /\ [Next]_vars => InvRestore'
  BY RestoreStep
<1>3. InvRestore => ImportIsArchive
  BY DEF InvRestore, ImportIsArchive
<1> QED BY <1>1, <1>2, <1>3, BuddyTypeInvariance, PTL DEF Spec

-----------------------------------------------------------------------------
(* What is packed. *)

\* d has of collection c what the source had since the export began.
Fresh(d, c) ==
    /\ since[c] = source[c] => d[c] = source[c]
    /\ d[c] = 0 \/ d[c] >= since[c]

\* A collection of the source is as it was when the export began, newer, or
\* gone.  Those that are dumped are fresh.
InvFresh ==
    /\ \A c \in Collections : source[c] <= changes + 1
    /\ exporter \in {"dump", "archive"} =>
          \A c \in Held(since) \ excluded :
             /\ source[c] = 0 \/ source[c] >= since[c]
             /\ since[c] <= changes + 1
             /\ c \in dumping \/ Fresh(dumpDir, c)
    /\ exporter = "archive" => dumping = {}

LEMMA FreshStep ==
    ASSUME BuddyType, InvFresh, [Next]_vars
    PROVE  InvFresh'
<1>0. /\ changes \in Nat /\ MaxChanges \in Nat
      /\ \A c \in Collections : source[c] \in Nat /\ since[c] \in Nat /\ dumpDir[c] \in Nat
  BY BoundsInNat DEF BuddyType, Dumps, Versions
<1>1. CASE \E c \in Collections : ChangeSource(c)
  <2>1. PICK c \in Collections : ChangeSource(c)
    BY <1>1
  <2>2. PICK v \in {changes + 2, 0} :
           v # source[c] /\ source' = [source EXCEPT ![c] = v]
    BY <2>1 DEF ChangeSource
  <2>3. /\ changes' = changes + 1
        /\ UNCHANGED <<exporter, excluded, dumping, since, dumpDir>>
    BY <2>1 DEF ChangeSource, exporterVars, commandVars
  <2>4. source'[c] = v /\ \A d \in Collections \ {c} : source'[d] = source[d]
    BY <2>2 DEF BuddyType, Dumps
  <2>5. \A d \in Collections : source'[d] <= changes' + 1
    BY <1>0, <2>2, <2>3, <2>4 DEF InvFresh
  <2>6. ASSUME exporter' \in {"dump", "archive"}, NEW d \in Held(since') \ excluded'
        PROVE  /\ source'[d] = 0 \/ source'[d] >= since'[d]
               /\ since'[d] <= changes' + 1
               /\ d \in dumping' \/ Fresh(dumpDir, d)'
    <3>1. /\ d \in Collections /\ since[d] # 0
          /\ source[d] = 0 \/ source[d] >= since[d]
          /\ since[d] <= changes + 1
          /\ d \in dumping \/ Fresh(dumpDir, d)
      BY <2>3, <2>6 DEF InvFresh, Held
    <3>2. CASE d = c
      BY <1>0, <2>2, <2>3, <2>4, <3>1, <3>2 DEF Fresh
    <3>3. CASE d # c
      BY <1>0, <2>3, <2>4, <3>1, <3>3 DEF Fresh
    <3> QED BY <3>2, <3>3
  <2>7. exporter' = "archive" => dumping' = {}
    BY <2>3 DEF InvFresh
  <2> QED BY <2>5, <2>6, <2>7 DEF InvFresh
<1>2. CASE \E x \in Exclusions : StartExport(x)
  <2>1. PICK x \in Exclusions : StartExport(x)
    BY <1>2
  <2>2. /\ exporter' = "dump" /\ since' = source /\ excluded' = x
        /\ dumping' = Held(source) \ x /\ UNCHANGED <<source, changes>>
    BY <2>1 DEF StartExport, sourceVars
  <2> QED BY <1>0, <2>2 DEF InvFresh, Held
<1>3. CASE \E c \in Collections : DumpCollection(c)
  <2>1. PICK c \in Collections : DumpCollection(c)
    BY <1>3
  <2>2. /\ exporter = "dump" /\ dumpDir' = [dumpDir EXCEPT ![c] = source[c]]
        /\ dumping' = dumping \ {c}
        /\ UNCHANGED <<exporter, excluded, since, source, changes>>
    BY <2>1 DEF DumpCollection, sourceVars
  <2>3. ASSUME NEW d \in Held(since) \ excluded
        PROVE  d \in dumping' \/ Fresh(dumpDir, d)'
    <3>1. /\ d \in Collections /\ (d \in dumping \/ Fresh(dumpDir, d))
          /\ source[d] = 0 \/ source[d] >= since[d]
      BY <2>2 DEF InvFresh, Held
    <3>2. dumpDir'[d] = IF d = c THEN source[d] ELSE dumpDir[d]
      BY <2>2, <3>1 DEF BuddyType, Dumps
    <3> QED BY <1>0, <2>2, <3>1, <3>2 DEF Fresh
  <2> QED BY <2>2, <2>3 DEF InvFresh, Held
<1>4. CASE Dumped
  BY <1>4 DEF Dumped, commandVars, sourceVars, InvFresh, Fresh, Held
<1>5. CASE \/ (\E n \in Sizes : Archive(n)) \/ Upload \/ RemoveFiles \/ ExporterDies
  <2>1. exporter' \notin {"dump", "archive"} /\ UNCHANGED <<source, changes>>
    BY <1>5 DEF Archive, Upload, RemoveFiles, ExporterDies, EndExport, sourceVars
  <2> QED BY <2>1 DEF InvFresh
<1>6. CASE ImporterStep \/ Idle \/ UNCHANGED vars
  <2>1. UNCHANGED <<source, changes, exporter, excluded, dumping, since, dumpDir>>
    BY <1>6 DEF ImporterStep, StartImport, Download, NothingToDownload, Untar,
       RestoreCollection, Restored, RemoveTarball, ImporterDies, Idle, vars, sourceVars,
       exporterVars, commandVars
  <2> QED BY <2>1 DEF InvFresh, Fresh, Held
<1> QED BY <1>1, <1>2, <1>3, <1>4, <1>5, <1>6 DEF Next, ExporterStep

LEMMA FreshInvariance == Spec => []InvFresh
<1>1. Init => InvFresh
  BY BoundsInNat DEF Init, InvFresh
<1>2. (BuddyType /\ InvStages) /\ InvFresh /\ [Next]_vars => InvFresh'
  BY FreshStep
<1> QED BY <1>1, <1>2, BuddyTypeInvariance, PTL DEF Spec

\* What tar is given is what the folder holds.
LEMMA PackingPacks ==
    ASSUME [Next]_vars, Packing
    PROVE  content' = dumpDir
BY DEF Packing, Next, ChangeSource, exporterVars, ExporterStep, StartExport,
   DumpCollection, Dumped, Archive, BeginUpload, Upload, RemoveFiles, ExporterDies,
   EndExport, ImporterStep, StartImport, Download, NothingToDownload, Untar,
   RestoreCollection, Restored, RemoveTarball, ImporterDies, Idle, vars

\* Every collection that was asked for is packed as it was while the export
\* ran, whatever a dead export has left in the folder.
THEOREM ArchiveFreshCorrect == Spec => ArchiveFresh
<1>1. InvFresh /\ [Next]_vars => PackedFresh
  <2> SUFFICES ASSUME InvFresh, [Next]_vars, Packing, NEW c \in Held(since) \ excluded
               PROVE  /\ since[c] = source[c] => content'[c] = source[c]
                      /\ content'[c] = 0 \/ content'[c] >= since[c]
    BY DEF PackedFresh
  <2>1. content' = dumpDir
    BY PackingPacks
  <2>2. Fresh(dumpDir, c)
    BY DEF InvFresh, Packing
  <2> QED BY <2>1, <2>2 DEF Fresh
<1>2. InvFresh /\ [Next]_vars => [PackedFresh]_vars
  BY <1>1
<1> QED BY <1>2, FreshInvariance, PTL DEF Spec, ArchiveFresh

\* On a disk no exporter has died on, the folder holds what was asked for.
InvAsked ==
    ~spoilt => /\ exporter = "off" => dumpDir = NoDump
               /\ Held(dumpDir) \cap excluded = {}
               /\ dumping \cap excluded = {}

LEMMA AskedStep ==
    ASSUME BuddyType, InvAsked, [Next]_vars
    PROVE  InvAsked'
<1>1. CASE \E x \in Exclusions : StartExport(x)
  <2>1. PICK x \in Exclusions : StartExport(x)
    BY <1>1
  <2>2. Held(NoDump) = {}
    BY DEF Held, NoDump
  <2>3. ~spoilt' => dumpDir' = NoDump
    BY <2>1 DEF StartExport, InvAsked, Exporting
  <2> QED BY <2>1, <2>2, <2>3 DEF StartExport, InvAsked, Held
<1>2. CASE \E c \in Collections : DumpCollection(c)
  <2>1. PICK c \in Collections : DumpCollection(c)
    BY <1>2
  <2>2. Held(dumpDir') \subseteq Held(dumpDir) \cup {c}
    BY <2>1 DEF DumpCollection, Held, BuddyType, Dumps
  <2> QED BY <2>1, <2>2 DEF DumpCollection, InvAsked, Held
<1>3. CASE Dumped \/ (\E n \in Sizes : Archive(n)) \/ Upload
  BY <1>3 DEF Dumped, Archive, Upload, commandVars, InvAsked, Held
<1>4. CASE RemoveFiles
  BY <1>4 DEF RemoveFiles, EndExport, InvAsked, Held
<1>5. CASE ExporterDies
  BY <1>5 DEF ExporterDies, InvAsked
<1>6. CASE (\E c \in Collections : ChangeSource(c)) \/ ImporterStep \/ Idle \/ UNCHANGED vars
  <2>1. UNCHANGED <<exporter, excluded, dumping, dumpDir, spoilt>>
    BY <1>6 DEF ChangeSource, ImporterStep, StartImport, Download, NothingToDownload,
       Untar, RestoreCollection, Restored, RemoveTarball, ImporterDies, Idle, vars,
       exporterVars, commandVars
  <2> QED BY <2>1 DEF InvAsked, Held
<1> QED BY <1>1, <1>2, <1>3, <1>4, <1>5, <1>6 DEF Next, ExporterStep

\* Only the files of a dead export bring a collection into an archive it was to
\* be left out of.
THEOREM ExcludedStaysOutCorrect == Spec => ExcludedStaysOut
<1>1. Init => InvAsked
  BY DEF Init, InvAsked, Held, NoDump
<1>2. (BuddyType /\ InvStages) /\ InvAsked /\ [Next]_vars => InvAsked'
  BY AskedStep
<1>3. InvAsked /\ [Next]_vars => [PackedAsAsked]_vars
  BY PackingPacks DEF PackedAsAsked, Packing, InvAsked
<1> QED BY <1>1, <1>2, <1>3, BuddyTypeInvariance, PTL DEF Spec, ExcludedStaysOut
=============================================================================
