------------------------- MODULE ArchiveExtraction -------------------------
(***************************************************************************)
(* app/ingest/archive.py: extract_zip and extract_tar_gz unpack an archive *)
(* nobody vouches for into the workspace of one analysis.                  *)
(*                                                                         *)
(* One action per decision about an entry, and one per chunk that is read, *)
(* because the limits are enforced while the entry streams to disk.  The   *)
(* two extractors have the same loop.  They differ in what an entry can    *)
(* be, and in the wrapper directory that only a tarball loses.             *)
(*                                                                         *)
(* Sizes are numbers of chunks.  A path is a sequence of components; a     *)
(* name is a path with a flag for a leading separator, or NoName for an    *)
(* empty one and one with a NUL in it.                                     *)
(***************************************************************************)
EXTENDS Integers, Sequences, FiniteSetsExt, SequencesExt

CONSTANTS
    Archives,            \* the archives of the instance, see IsArchive
    Drives,              \* components such as "C:"
    NoName,
    MaxExtracted,        \* ExtractionLimits.max_extracted_bytes
    MaxFile,             \* max_file_bytes
    MaxFiles,            \* max_file_count
    MaxRatio,            \* max_compression_ratio
    MaxDepth             \* max_path_depth

Kinds == {"directory", "file", "symlink", "special"}

(* What an entry says of its size is not what its stream has to hold.  A   *)
(* stream that is not sound breaks off: bad data, a wrong checksum, an     *)
(* end too early.                                                          *)
IsArchive(a) ==
    /\ a.format \in {"zip", "tar"}
    /\ a.bytes \in Nat \ {0}                       \* an empty file is no archive
    /\ a.entries \in Seq(ToSet(a.entries))
    /\ \A i \in DOMAIN a.entries :
          LET e == a.entries[i]
          IN  /\ e.kind \in Kinds
              /\ a.format = "zip" => e.kind # "special"  \* a ZIP has no such type
              /\ e.declared \in Nat /\ e.actual \in Nat /\ e.sound \in BOOLEAN

ASSUME ArchivesAssumption == \A a \in Archives : IsArchive(a)

ASSUME LimitsAssumption ==
    /\ MaxExtracted \in Nat /\ MaxFile \in Nat /\ MaxFiles \in Nat
    /\ MaxRatio \in Nat /\ MaxDepth \in Nat

VARIABLES
    archive,       \* what is being unpacked
    phase,         \* "entry", "streaming", or how it ended
    index,         \* entries that have been dealt with
    destination,   \* where the open entry goes
    written,       \* chunks of it that are on disk
    disk,          \* path -> size, for the regular files under the root
    directories,   \* the directories made for them
    file_count, total_bytes,
    rejected       \* reason -> number of entries

archiveVars == <<archive, phase, index, destination, written, disk, directories,
                 file_count, total_bytes, rejected>>

Reasons == {"path_traversal", "absolute_path", "symlink", "special_file",
            "path_too_deep", "file_too_large"}

Errors == {"too many files", "too large", "unsafe", "corrupt", "unexpected"}

Unpacked == "unpacked"
NoPath == <<>>

ArchiveInit ==
    /\ archive \in Archives
    /\ phase = "entry" /\ index = 0
    /\ destination = NoPath /\ written = 0
    /\ disk = <<>> /\ directories = {}
    /\ file_count = 0 /\ total_bytes = 0
    /\ rejected = [r \in Reasons |-> 0]

-----------------------------------------------------------------------------
Entry == archive.entries[index + 1]
StripComponents == IF archive.format = "tar" THEN 1 ELSE 0

(* PurePosixPath drops "" and ".", so they do not occur.  The rules are    *)
(* tried in this order, the wrapper directory is cut off after the names   *)
(* were looked at, and nothing is left of the wrapper itself.              *)
ResolveMemberPath(name) ==
    LET refuse(reason) == [path |-> NoPath, reason |-> reason]
        kept == SubSeq(name.parts, StripComponents + 1, Len(name.parts))
    IN  IF name = NoName THEN refuse("path_traversal")
        ELSE IF name.absolute THEN refuse("absolute_path")
        ELSE IF ".." \in ToSet(name.parts) THEN refuse("path_traversal")
        ELSE IF name.parts # <<>> /\ Head(name.parts) \in Drives THEN refuse("absolute_path")
        ELSE IF kept = <<>> THEN refuse("nothing left")
        ELSE IF Len(kept) > MaxDepth THEN refuse("path_too_deep")
        ELSE [path |-> kept, reason |-> "none"]

Refusal ==
    CASE Entry.kind = "symlink" -> "symlink"
      [] Entry.kind = "special" -> "special_file"
      [] Entry.kind = "file" -> ResolveMemberPath(Entry.name).reason

(* _check_ratio, called when an entry is through and at the end.           *)
RatioExceeded(total) == total > MaxRatio * archive.bytes

MoreEntries == phase = "entry" /\ index < Len(archive.entries)

ProperPrefixes(path) == {SubSeq(path, 1, n) : n \in 1..(Len(path) - 1)}
Without(path) == [p \in DOMAIN disk \ {path} |-> disk[p]]

Fail(error) ==
    /\ phase' = error
    /\ destination' = NoPath /\ written' = 0

Reject(reason) ==
    /\ rejected' = IF reason \in Reasons THEN [rejected EXCEPT ![reason] = @ + 1]
                                         ELSE rejected
    /\ phase' = "entry" /\ index' = index + 1
    /\ destination' = NoPath /\ written' = 0

(* Faulty variant of TooManyFiles: it counts the entry at hand.            *)
TooManyFilesOneEarly ==
    /\ MoreEntries
    /\ file_count + 1 >= MaxFiles
    /\ Fail("too many files")
    /\ UNCHANGED <<archive, index, disk, directories, file_count, total_bytes, rejected>>

(* The limit is looked at before anything else is known of the entry.      *)
TooManyFiles ==
    /\ MoreEntries
    /\ file_count >= MaxFiles
    /\ Fail("too many files")
    /\ UNCHANGED <<archive, index, disk, directories, file_count, total_bytes, rejected>>

SkipDirectory ==
    /\ MoreEntries /\ file_count < MaxFiles
    /\ Entry.kind = "directory"
    /\ index' = index + 1
    /\ UNCHANGED <<archive, phase, destination, written, disk, directories, file_count,
                   total_bytes, rejected>>

Refuse ==
    /\ MoreEntries /\ file_count < MaxFiles
    /\ Entry.kind # "directory" /\ Refusal # "none"
    /\ Reject(Refusal)
    /\ UNCHANGED <<archive, disk, directories, file_count, total_bytes>>

(* Faulty variant of RefuseDeclaredSize: the entry is left out without a   *)
(* word in the counts.                                                     *)
RefuseDeclaredSizeSilently ==
    /\ MoreEntries /\ file_count < MaxFiles
    /\ Entry.kind # "directory" /\ Refusal = "none"
    /\ Entry.declared > MaxFile
    /\ Reject("none")
    /\ UNCHANGED <<archive, disk, directories, file_count, total_bytes>>

RefuseDeclaredSize ==
    /\ MoreEntries /\ file_count < MaxFiles
    /\ Entry.kind # "directory" /\ Refusal = "none"
    /\ Entry.declared > MaxFile
    /\ Reject("file_too_large")
    /\ UNCHANGED <<archive, disk, directories, file_count, total_bytes>>

(* A file where a directory is needed, or a directory where the file is to *)
(* go: mkdir raises outside the try, and the unlink of the error path      *)
(* raises on a directory, so neither becomes an error of the archive.      *)
Open ==
    /\ MoreEntries /\ file_count < MaxFiles
    /\ Entry.kind # "directory" /\ Refusal = "none"
    /\ Entry.declared <= MaxFile
    /\ LET path == ResolveMemberPath(Entry.name).path
           parents == ProperPrefixes(path)
       IN  IF parents \cap DOMAIN disk # {}
           THEN Fail("unexpected") /\ UNCHANGED <<disk, directories>>
           ELSE /\ directories' = directories \cup parents
                /\ IF path \in directories
                   THEN Fail("unexpected") /\ UNCHANGED disk
                   ELSE /\ phase' = "streaming"
                        /\ destination' = path /\ written' = 0
                        /\ disk' = [p \in DOMAIN disk \cup {path} |->
                                       IF p = path THEN 0 ELSE disk[p]]
    /\ UNCHANGED <<archive, index, file_count, total_bytes, rejected>>

(* Faulty variant of ReadChunk: the total is measured when the entry is    *)
(* through, as the code did not want to.                                   *)
ReadChunkMeasuresAfterwards ==
    /\ phase = "streaming" /\ written < Entry.actual
    /\ \/ /\ written + 1 > MaxFile
          /\ Reject("file_too_large")
          /\ disk' = Without(destination)
       \/ /\ written + 1 <= MaxFile
          /\ total_bytes > MaxExtracted
          /\ Fail("too large")
          /\ disk' = Without(destination)
          /\ UNCHANGED <<index, rejected>>
       \/ /\ written + 1 <= MaxFile
          /\ total_bytes <= MaxExtracted
          /\ written' = written + 1
          /\ disk' = [disk EXCEPT ![destination] = written + 1]
          /\ UNCHANGED <<phase, index, destination, rejected>>
    /\ UNCHANGED <<archive, directories, file_count, total_bytes>>

(* written += len(chunk), then the two limits, then the write.             *)
ReadChunk ==
    /\ phase = "streaming" /\ written < Entry.actual
    /\ \/ /\ written + 1 > MaxFile
          /\ Reject("file_too_large")
          /\ disk' = Without(destination)
       \/ /\ written + 1 <= MaxFile
          /\ total_bytes + written + 1 > MaxExtracted
          /\ Fail("too large")
          /\ disk' = Without(destination)
          /\ UNCHANGED <<index, rejected>>
       \/ /\ written + 1 <= MaxFile
          /\ total_bytes + written + 1 <= MaxExtracted
          /\ written' = written + 1
          /\ disk' = [disk EXCEPT ![destination] = written + 1]
          /\ UNCHANGED <<phase, index, destination, rejected>>
    /\ UNCHANGED <<archive, directories, file_count, total_bytes>>

(* An OSError or EOFError is an archive error and takes the file away.  A  *)
(* bad checksum (BadZipFile) or bad deflate data (zlib.error) is neither   *)
(* of the two and leaves the part that was written.                        *)
StreamBreaks ==
    /\ phase = "streaming" /\ ~ Entry.sound
    /\ \/ Fail("corrupt") /\ disk' = Without(destination)
       \/ Fail("unexpected") /\ UNCHANGED disk
    /\ UNCHANGED <<archive, index, directories, file_count, total_bytes, rejected>>

(* An entry with the name of an earlier one replaces it and is counted     *)
(* again.                                                                  *)
FinishEntry ==
    /\ phase = "streaming" /\ written = Entry.actual /\ Entry.sound
    /\ total_bytes' = total_bytes + written
    /\ file_count' = file_count + 1
    /\ index' = index + 1
    /\ destination' = NoPath /\ written' = 0
    /\ phase' = IF RatioExceeded(total_bytes + written) THEN "unsafe" ELSE "entry"
    /\ UNCHANGED <<archive, disk, directories, rejected>>

FinishArchive ==
    /\ phase = "entry" /\ index = Len(archive.entries)
    /\ phase' = IF RatioExceeded(total_bytes) THEN "unsafe" ELSE Unpacked
    /\ UNCHANGED <<archive, index, destination, written, disk, directories, file_count,
                   total_bytes, rejected>>

ExtractionStep ==
    \/ TooManyFiles \/ SkipDirectory \/ Refuse \/ RefuseDeclaredSize
    \/ Open \/ ReadChunk \/ StreamBreaks \/ FinishEntry \/ FinishArchive

ExtractionSpec == ArchiveInit /\ [][ExtractionStep]_archiveVars
-----------------------------------------------------------------------------
(* The sum of the values of f, counted one by one.                         *)
Units(f) == UNION {{x} \X (1..f[x]) : x \in DOMAIN f}
Total(f) == Cardinality(Units(f))

OnDisk == Total(disk)

(* The state an extraction can be in.                                      *)
ExtractionTypeOK ==
    /\ archive \in Archives
    /\ phase \in {"entry", "streaming", Unpacked} \cup Errors
    /\ index \in 0..Len(archive.entries)
    /\ written \in Nat /\ file_count \in Nat /\ total_bytes \in Nat
    /\ \A p \in DOMAIN disk : disk[p] \in Nat
    /\ rejected \in [Reasons -> Nat]

(* The part of it that is about one file, and the number of them.         *)
FilesWithinLimits ==
    /\ \A p \in DOMAIN disk : disk[p] <= MaxFile
    /\ Cardinality(DOMAIN disk) <= MaxFiles

(* Whatever an archive claims and holds, and at every chunk of it, the     *)
(* disk never holds more than the limits, the replaced and the rejected    *)
(* entries included; and what the ratio allows is exceeded by no more than *)
(* the one entry that is being written, because the ratio is looked at     *)
(* when an entry is through.                                               *)
DiskWithinLimits ==
    /\ OnDisk <= MaxExtracted
    /\ FilesWithinLimits
    /\ OnDisk <= MaxRatio * archive.bytes + MaxFile

PassedOver(e) ==
    \/ e.kind = "directory"
    \/ e.kind = "file" /\ ResolveMemberPath(e.name).reason = "nothing left"

(* Refused entries are counted and reported rather than dropped: of the    *)
(* entries dealt with, each is a directory, a wrapper without a rest, a    *)
(* file that was written, or counted under one reason.                     *)
EveryEntryAccounted ==
    index = file_count + Total(rejected)
              + Cardinality({i \in 1..index : PassedOver(archive.entries[i])})

(* The limit on the number of files is one of files and not of entries, as *)
(* far as it goes: an archive with no more entries than the limit is never *)
(* refused for their number.  (One with exactly that many files and a      *)
(* directory after them is, because the limit is looked at first.)         *)
FilesAtTheLimitAreTaken ==
    phase = "too many files" => Len(archive.entries) > MaxFiles /\ file_count = MaxFiles
=============================================================================
