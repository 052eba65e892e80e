--------------------------- MODULE MultipartUpload ---------------------------
(***************************************************************************)
(* MongoDataExporter::upload_to_s3: one archive to one S3 object, with a   *)
(* single PutObject below 5 GiB and a multipart upload from there on.      *)
(*                                                                         *)
(* Sizes are counted in units of which a GiB has GiB.  Of the bytes of an  *)
(* object only their places in the archive are kept: an object is the list *)
(* of the ranges it was put together from.  The request that is out when   *)
(* the process dies is served or not.  An upload that was created and not  *)
(* completed, which nothing aborts, never shows in the object.             *)
(***************************************************************************)
EXTENDS Integers, Sequences

CONSTANTS
    GiB,       \* units in a GiB
    Archives,  \* what an archive may contain
    NoObject   \* the key before the first upload

ASSUME GiBAssumption == GiB \in Nat \ {0}

\* S3 takes objects of at most 5 TiB.
MaxObjectSize == 5120 * GiB

VARIABLES
    upload,      \* where upload_to_s3 stands
    content,     \* the archive at file_path
    fileSize,    \* file_size
    partNumber,  \* part_number
    position,    \* how far the file has been read
    buffer,      \* the range read last
    parts,       \* uploaded_parts
    object       \* what S3 has at the key

readVars   == <<partNumber, position, buffer, parts>>
localVars  == <<fileSize, readVars>>
uploadVars == <<upload, content, localVars, object>>

UploadStages == {"idle", "put", "create", "read", "part", "complete", "uploaded"}

S3PutObjectMaxSize == 5 * GiB
MinPartSize        == GiB
MaxPartSize        == S3PutObjectMaxSize

Smaller(m, n) == IF m < n THEN m ELSE n
Larger(m, n)  == IF m < n THEN n ELSE m

PartSize(size) == Smaller(Larger(MinPartSize, size \div 10), MaxPartSize)

Bytes(from, size)    == [from |-> from, size |-> size]
Object(a, n, ranges) == [archive |-> a, size |-> n, ranges |-> ranges]
PutWhole             == Object(content, fileSize, <<Bytes(0, fileSize)>>)

StartReading == partNumber' = 1 /\ position' = 0 /\ buffer' = Bytes(0, 0) /\ parts' = <<>>
\* What the function holds is gone when it is left.
Leave        == fileSize' = 0 /\ StartReading

UploadInit ==
    /\ upload = "idle"
    /\ content \in Archives
    /\ fileSize = 0
    /\ partNumber = 1 /\ position = 0 /\ buffer = Bytes(0, 0) /\ parts = <<>>
    /\ object = NoObject

\* While nothing is uploaded, the file may be removed or written anew.
ReplaceFile(a) ==
    /\ upload \in {"idle", "uploaded"}
    /\ content' = a
    /\ UNCHANGED <<upload, localVars, object>>

\* upload_to_s3 begins with an archive a of n units.
BeginUpload(a, n) ==
    /\ upload \in {"idle", "uploaded"}
    /\ content' = a
    /\ fileSize' = n
    /\ upload' = IF n >= S3PutObjectMaxSize THEN "create" ELSE "put"
    /\ UNCHANGED <<readVars, object>>

PutObject ==
    /\ upload = "put"
    /\ object' = PutWhole
    /\ upload' = "uploaded"
    /\ Leave
    /\ UNCHANGED content

CreateMultipartUpload ==
    /\ upload = "create"
    /\ StartReading
    /\ upload' = "read"
    /\ UNCHANGED <<content, fileSize, object>>

\* MUTANT of ReadPart: a part that is not full ends the loop.
ReadPartFull ==
    /\ upload = "read"
    /\ LET bytesRead == Smaller(PartSize(fileSize), fileSize - position)
       IN  /\ buffer' = Bytes(position, bytesRead)
           /\ position' = position + bytesRead
           /\ upload' = IF bytesRead < PartSize(fileSize) THEN "complete" ELSE "part"
    /\ UNCHANGED <<content, fileSize, partNumber, parts, object>>

\* MUTANT of ReadPart: the file is taken to be read by whole parts.
ReadPartSeeking ==
    /\ upload = "read"
    /\ LET bytesRead == Smaller(PartSize(fileSize), fileSize - position)
       IN  /\ buffer' = Bytes(position, bytesRead)
           /\ position' = position + PartSize(fileSize)
           /\ upload' = IF bytesRead = 0 THEN "complete" ELSE "part"
    /\ UNCHANGED <<content, fileSize, partNumber, parts, object>>

\* A read of part_size bytes, or of what is left; of nothing at the end.
ReadPart ==
    /\ upload = "read"
    /\ LET bytesRead == Smaller(PartSize(fileSize), fileSize - position)
       IN  /\ buffer' = Bytes(position, bytesRead)
           /\ position' = position + bytesRead
           /\ upload' = IF bytesRead = 0 THEN "complete" ELSE "part"
    /\ UNCHANGED <<content, fileSize, partNumber, parts, object>>

UploadPart ==
    /\ upload = "part"
    /\ parts' = Append(parts, buffer)
    /\ partNumber' = partNumber + 1
    /\ upload' = "read"
    /\ UNCHANGED <<content, fileSize, position, buffer, object>>

\* The parts become the object, all at once.
CompleteMultipartUpload ==
    /\ upload = "complete"
    /\ object' = Object(content, fileSize, parts)
    /\ upload' = "uploaded"
    /\ Leave
    /\ UNCHANGED content

\* The request in flight when the process dies, served or not.
ServedOrNot ==
    \/ UNCHANGED object
    \/ upload = "put" /\ object' = PutWhole
    \/ upload = "complete" /\ object' = Object(content, fileSize, parts)

UploadDies ==
    /\ ServedOrNot
    /\ upload' = "idle"
    /\ Leave
    /\ UNCHANGED content

UploadStep ==
    PutObject \/ CreateMultipartUpload \/ ReadPart \/ UploadPart
    \/ CompleteMultipartUpload

\* The upload by itself, of any archive of a size S3 takes, again and again.
UploadNext ==
    \/ \E a \in Archives, n \in 1..MaxObjectSize : BeginUpload(a, n)
    \/ \E a \in Archives : ReplaceFile(a)
    \/ UploadStep
    \/ UploadDies

UploadSpec == UploadInit /\ [][UploadNext]_uploadVars

-----------------------------------------------------------------------------
UploadTypeOK ==
    /\ upload \in UploadStages
    /\ content \in Archives
    /\ fileSize \in 0..MaxObjectSize
    /\ partNumber \in Nat /\ position \in Nat
    /\ buffer \in [from : Nat, size : Nat]
    /\ parts \in Seq([from : Nat, size : Nat])

\* The ranges follow each other from 0 to n without a gap or an overlap.
Tile(ranges, n) ==
    /\ ranges # <<>>
    /\ ranges[1].from = 0
    /\ \A i \in 1..(Len(ranges) - 1) :
          ranges[i + 1].from = ranges[i].from + ranges[i].size
    /\ ranges[Len(ranges)].from + ranges[Len(ranges)].size = n

\* What S3 asks of the parts of an object: at most 10,000, each of at most
\* 5 GiB, all but the last of at least a GiB (S3 itself asks for 5 MiB).
WithinS3Limits(ranges) ==
    /\ Len(ranges) <= 10000
    /\ \A i \in 1..Len(ranges) : ranges[i].size <= MaxPartSize
    /\ \A i \in 1..(Len(ranges) - 1) : ranges[i].size >= MinPartSize

\* Whatever the size of the archive, and whether the upload is cut short and
\* done again, the object at the key is an archive from its first byte to its
\* last, in order and once, put together from parts S3 accepts: rounding a
\* tenth of the size down loses no remainder.
ObjectWhole ==
    object # NoObject =>
       /\ Tile(object.ranges, object.size)
       /\ WithinS3Limits(object.ranges)

=============================================================================
