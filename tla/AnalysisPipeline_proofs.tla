---------------------- MODULE AnalysisPipeline_proofs ----------------------
(***************************************************************************)
(* What holds of every extraction, and of the report that is made of it,   *)
(* for any archives, limits, rules and findings.                           *)
(***************************************************************************)
EXTENDS AnalysisPipeline, FiniteSetTheorems, TLAPS

(* Where an extraction stands: files are counted one entry at a time, and  *)
(* an entry is opened only below the limit.                                *)
Counting ==
    /\ archive \in Archives
    /\ index \in Nat /\ file_count \in Nat
    /\ file_count <= index /\ index <= Len(archive.entries)
    /\ file_count <= MaxFiles
    /\ phase = "streaming" => file_count < MaxFiles /\ index < Len(archive.entries)

(* Every file on disk is one that was counted, or the one that is being    *)
(* written; a stream of a bad archive may leave its part behind.           *)
Stored ==
    /\ IsFiniteSet(DOMAIN disk)
    /\ phase = "streaming" => /\ destination \in DOMAIN disk
                              /\ Cardinality(DOMAIN disk \ {destination}) <= file_count
    /\ phase = "entry" => Cardinality(DOMAIN disk) <= file_count
    /\ Cardinality(DOMAIN disk) <= MaxFiles

Sized ==
    /\ written \in Nat
    /\ \A p \in DOMAIN disk : disk[p] <= MaxFile


-----------------------------------------------------------------------------
LEMMA Entries == \A a \in Archives : Len(a.entries) \in Nat
<1> SUFFICES ASSUME NEW a \in Archives PROVE Len(a.entries) \in Nat
  OBVIOUS
<1>1. a.entries \in Seq(ToSet(a.entries))
  BY ArchivesAssumption DEF IsArchive
<1> QED
  BY <1>1

(* Adding and taking away one member of a finite set.                      *)
LEMMA OneMore ==
    ASSUME NEW S, IsFiniteSet(S), NEW x
    PROVE  /\ IsFiniteSet(S \cup {x}) /\ IsFiniteSet(S \ {x})
           /\ Cardinality(S) \in Nat /\ Cardinality(S \cup {x}) \in Nat
           /\ Cardinality(S \ {x}) \in Nat
           /\ Cardinality(S \cup {x}) <= Cardinality(S) + 1
           /\ Cardinality(S) <= Cardinality(S \ {x}) + 1
           /\ Cardinality(S \ {x}) <= Cardinality(S)
           /\ (S \cup {x}) \ {x} = S \ {x}
  BY FS_AddElement, FS_RemoveElement, FS_CardinalityType

LEMMA Start == ArchiveInit => Counting /\ Stored /\ Sized /\ FilesAtTheLimitAreTaken
<1> SUFFICES ASSUME ArchiveInit PROVE Counting /\ Stored /\ Sized /\ FilesAtTheLimitAreTaken
  OBVIOUS
<1>1. DOMAIN disk = {}
  BY DEF ArchiveInit
<1>2. IsFiniteSet(DOMAIN disk) /\ Cardinality(DOMAIN disk) = 0
  BY <1>1, FS_EmptySet
<1>3. Counting /\ Sized /\ FilesAtTheLimitAreTaken
  BY <1>1, Entries, LimitsAssumption DEF ArchiveInit, Counting, Sized, FilesAtTheLimitAreTaken
<1>4. Stored
  BY <1>2, LimitsAssumption DEF ArchiveInit, Stored
<1> QED
  BY <1>3, <1>4

LEMMA CountingStep ==
    ASSUME Counting, FilesAtTheLimitAreTaken, [ExtractionStep]_archiveVars
    PROVE  Counting' /\ FilesAtTheLimitAreTaken'
<1>0. Len(archive.entries) \in Nat /\ MaxFiles \in Nat
  BY Entries, LimitsAssumption DEF Counting
<1>1. CASE TooManyFiles
  <2>1. /\ file_count >= MaxFiles /\ index < Len(archive.entries)
        /\ archive' = archive /\ index' = index /\ file_count' = file_count
    BY <1>1, Zenon DEF TooManyFiles, MoreEntries, Fail
  <2>2. phase' # "streaming"
    BY <1>1, Zenon DEF TooManyFiles, Fail
  <2>3. file_count' = MaxFiles /\ Len(archive'.entries) > MaxFiles
    BY <1>0, <2>1 DEF Counting
  <2>4. Counting'
    BY <2>1, <2>2 DEF Counting
  <2> QED
    BY <2>3, <2>4, Zenon DEF FilesAtTheLimitAreTaken
<1>2. ASSUME phase' # "too many files" PROVE FilesAtTheLimitAreTaken'
  BY <1>2, Zenon DEF FilesAtTheLimitAreTaken
<1>3. CASE SkipDirectory
  <2>1. /\ phase = "entry" /\ phase' = phase /\ index < Len(archive.entries)
        /\ archive' = archive /\ index' = index + 1 /\ file_count' = file_count
    BY <1>3 DEF SkipDirectory, MoreEntries
  <2> QED
    BY <1>0, <1>2, <2>1 DEF Counting
<1>4. CASE Refuse \/ RefuseDeclaredSize
  <2>1. /\ phase' = "entry" /\ index < Len(archive.entries)
        /\ archive' = archive /\ index' = index + 1 /\ file_count' = file_count
    BY <1>4 DEF Refuse, RefuseDeclaredSize, MoreEntries, Reject
  <2> QED
    BY <1>0, <1>2, <2>1 DEF Counting
<1>5. CASE Open
  <2>1. /\ phase' \in {"unexpected", "streaming"} /\ index < Len(archive.entries)
        /\ file_count < MaxFiles
        /\ archive' = archive /\ index' = index /\ file_count' = file_count
    BY <1>5, Zenon DEF Open, MoreEntries, Fail
  <2> QED
    BY <1>0, <1>2, <2>1 DEF Counting
<1>6. CASE ReadChunk
  <2>1. /\ phase = "streaming" /\ archive' = archive /\ file_count' = file_count
        /\ \/ index' = index + 1
           \/ index' = index
    BY <1>6, Zenon DEF ReadChunk, Reject, Fail
  <2>2. phase' # "too many files"
    BY <1>6, Zenon DEF ReadChunk, Reject, Fail
  <2>3. phase' = "streaming" => index' = index
    BY <1>6, Zenon DEF ReadChunk, Reject, Fail
  <2>4. Counting'
    BY <1>0, <2>1, <2>3 DEF Counting
  <2> QED
    BY <1>2, <2>2, <2>4
<1>7. CASE StreamBreaks
  <2>1. /\ phase' \in {"corrupt", "unexpected"}
        /\ archive' = archive /\ index' = index /\ file_count' = file_count
    BY <1>7, Zenon DEF StreamBreaks, Fail
  <2> QED
    BY <1>0, <1>2, <2>1 DEF Counting
<1>8. CASE FinishEntry
  <2>1. /\ phase = "streaming" /\ phase' \in {"unsafe", "entry"}
        /\ archive' = archive /\ index' = index + 1 /\ file_count' = file_count + 1
    BY <1>8 DEF FinishEntry
  <2>2. Counting'
    BY <1>0, <2>1 DEF Counting
  <2>3. phase' # "too many files"
    BY <2>1, Zenon
  <2> QED
    BY <1>2, <2>2, <2>3
<1>9. CASE FinishArchive
  <2>1. /\ phase' \in {"unsafe", "unpacked"}
        /\ archive' = archive /\ index' = index /\ file_count' = file_count
    BY <1>9 DEF FinishArchive, Unpacked
  <2> QED
    BY <1>0, <1>2, <2>1 DEF Counting
<1>10. CASE UNCHANGED archiveVars
  BY <1>10, Zenon DEF archiveVars, Counting, FilesAtTheLimitAreTaken
<1> QED
  BY <1>1, <1>3, <1>4, <1>5, <1>6, <1>7, <1>8, <1>9, <1>10, Zenon DEF ExtractionStep

LEMMA StoredStep ==
    ASSUME Counting, Stored, [ExtractionStep]_archiveVars
    PROVE  Stored'
<1>0. /\ IsFiniteSet(DOMAIN disk) /\ Cardinality(DOMAIN disk) \in Nat
      /\ file_count \in Nat /\ MaxFiles \in Nat
  BY OneMore, LimitsAssumption DEF Stored, Counting
<1>1. ASSUME UNCHANGED <<disk, file_count>>, phase = "entry", phase' # "streaming"
      PROVE  Stored'
  BY <1>1 DEF Stored
<1>2. CASE TooManyFiles
  BY <1>1, <1>2 DEF TooManyFiles, MoreEntries, Fail
<1>3. CASE SkipDirectory
  BY <1>1, <1>3 DEF SkipDirectory, MoreEntries
<1>4. CASE Refuse
  BY <1>1, <1>4 DEF Refuse, MoreEntries, Reject
<1>5. CASE RefuseDeclaredSize
  BY <1>1, <1>5 DEF RefuseDeclaredSize, MoreEntries, Reject
<1>6. CASE Open
  <2> DEFINE path == ResolveMemberPath(Entry.name).path
  <2>1. \/ phase' = "unexpected" /\ disk' = disk
        \/ /\ phase' = "streaming" /\ destination' = path
           /\ DOMAIN disk' = DOMAIN disk \cup {path}
    BY <1>6 DEF Open, Fail
  <2>2. file_count' = file_count /\ file_count < MaxFiles /\ Cardinality(DOMAIN disk) <= file_count
    BY <1>6 DEF Open, MoreEntries, Stored
  <2> HIDE DEF path
  <2>3. /\ IsFiniteSet(DOMAIN disk \cup {path}) /\ IsFiniteSet(DOMAIN disk \ {path})
        /\ Cardinality(DOMAIN disk \cup {path}) \in Nat
        /\ Cardinality(DOMAIN disk \ {path}) \in Nat
        /\ Cardinality(DOMAIN disk \cup {path}) <= Cardinality(DOMAIN disk) + 1
        /\ Cardinality(DOMAIN disk \ {path}) <= Cardinality(DOMAIN disk)
        /\ (DOMAIN disk \cup {path}) \ {path} = DOMAIN disk \ {path}
    BY <1>0, OneMore
  <2>4. CASE phase' = "unexpected" /\ disk' = disk
    BY <2>4 DEF Stored
  <2>5. CASE /\ phase' = "streaming" /\ destination' = path
             /\ DOMAIN disk' = DOMAIN disk \cup {path}
    <3>1. Cardinality(DOMAIN disk') <= MaxFiles
      BY <1>0, <2>2, <2>3, <2>5
    <3>2. /\ destination' \in DOMAIN disk'
          /\ Cardinality(DOMAIN disk' \ {destination'}) <= file_count'
      BY <1>0, <2>2, <2>3, <2>5
    <3> QED
      BY <2>3, <2>5, <3>1, <3>2 DEF Stored
  <2> QED
    BY <2>1, <2>4, <2>5
<1>7. ASSUME phase = "streaming", file_count' = file_count, disk' = Without(destination),
             phase' # "streaming"
      PROVE  Stored'
  <2>1. DOMAIN disk' = DOMAIN disk \ {destination}
    BY <1>7 DEF Without
  <2>2. /\ IsFiniteSet(DOMAIN disk \ {destination})
        /\ Cardinality(DOMAIN disk \ {destination}) \in Nat
        /\ Cardinality(DOMAIN disk \ {destination}) <= Cardinality(DOMAIN disk)
    BY <1>0, OneMore
  <2> QED
    BY <1>0, <1>7, <2>1, <2>2 DEF Stored
<1>8. CASE ReadChunk
  <2>1. ASSUME disk' = [disk EXCEPT ![destination] = written + 1],
               UNCHANGED <<phase, destination, file_count>>
        PROVE  Stored'
    BY <2>1 DEF Stored
  <2> QED
    BY <1>7, <1>8, <2>1 DEF ReadChunk, Reject, Fail
<1>9. CASE StreamBreaks
  <2>1. ASSUME phase' = "unexpected", disk' = disk PROVE Stored'
    BY <1>0, <2>1, OneMore DEF Stored
  <2> QED
    BY <1>7, <1>9, <2>1 DEF StreamBreaks, Fail
<1>10. CASE FinishEntry
  <2>1. /\ phase = "streaming" /\ phase' # "streaming" /\ disk' = disk
        /\ file_count' = file_count + 1
    BY <1>10 DEF FinishEntry
  <2>2. Cardinality(DOMAIN disk) <= file_count + 1
    <3>1. /\ Cardinality(DOMAIN disk) <= Cardinality(DOMAIN disk \ {destination}) + 1
          /\ Cardinality(DOMAIN disk \ {destination}) \in Nat
      BY <1>0, OneMore
    <3> QED
      BY <1>0, <2>1, <3>1 DEF Stored
  <2> QED
    BY <2>1, <2>2 DEF Stored
<1>11. CASE FinishArchive
  BY <1>1, <1>11 DEF FinishArchive, Unpacked
<1>12. CASE UNCHANGED archiveVars
  BY <1>12 DEF archiveVars, Stored
<1> QED
  BY <1>2, <1>3, <1>4, <1>5, <1>6, <1>8, <1>9, <1>10, <1>11, <1>12 DEF ExtractionStep

LEMMA SizedStep ==
    ASSUME Counting, Stored, Sized, [ExtractionStep]_archiveVars
    PROVE  Sized'
<1>1. ASSUME disk' = disk, written' \in {0, written} PROVE Sized'
  BY <1>1 DEF Sized
<1>2. ASSUME disk' = Without(destination), written' = 0 PROVE Sized'
  BY <1>2 DEF Sized, Without
<1>3. CASE TooManyFiles \/ SkipDirectory \/ Refuse \/ RefuseDeclaredSize \/ FinishEntry
           \/ FinishArchive
  BY <1>1, <1>3 DEF TooManyFiles, SkipDirectory, Refuse, RefuseDeclaredSize, FinishEntry,
                    FinishArchive, Fail, Reject
<1>4. CASE Open
  <2> DEFINE path == ResolveMemberPath(Entry.name).path
  <2>1. ASSUME disk' = [p \in DOMAIN disk \cup {path} |-> IF p = path THEN 0 ELSE disk[p]],
               written' = 0
        PROVE  Sized'
    <3> HIDE DEF path
    <3> QED
      BY <2>1, LimitsAssumption DEF Sized
  <2> QED
    BY <1>1, <1>4, <2>1 DEF Open, Fail
<1>5. CASE ReadChunk
  <2>1. ASSUME disk' = [disk EXCEPT ![destination] = written + 1], written' = written + 1,
               written + 1 <= MaxFile
        PROVE  Sized'
    BY <2>1 DEF Sized
  <2> QED
    BY <1>2, <1>5, <2>1 DEF ReadChunk, Reject, Fail
<1>6. CASE StreamBreaks
  BY <1>1, <1>2, <1>6 DEF StreamBreaks, Fail
<1>7. CASE UNCHANGED archiveVars
  BY <1>1, <1>7 DEF archiveVars
<1> QED
  BY <1>3, <1>4, <1>5, <1>6, <1>7 DEF ExtractionStep

-----------------------------------------------------------------------------
(* Sums.  The units of different members are different.                    *)
LEMMA OneTerm ==
    ASSUME NEW x, NEW n \in Nat
    PROVE  IsFiniteSet({x} \X (1..n)) /\ Cardinality({x} \X (1..n)) = n
<1>1. 1 \in Int /\ n \in Int
  OBVIOUS
<1>2. IsFiniteSet(1..n) /\ Cardinality(1..n) = IF 1 > n THEN 0 ELSE n - 1 + 1
  BY <1>1, FS_Interval
<1>3. Cardinality(1..n) = n
  BY <1>2
<1>4. IsFiniteSet({x}) /\ Cardinality({x}) = 1
  BY FS_Singleton
<1>5. /\ IsFiniteSet({x} \X (1..n))
      /\ Cardinality({x} \X (1..n)) = Cardinality({x}) * Cardinality(1..n)
  BY <1>2, <1>4, FS_Product
<1> QED
  BY <1>3, <1>4, <1>5

LEMMA TotalsAreNumbers ==
    ASSUME NEW f, IsFiniteSet(DOMAIN f), \A x \in DOMAIN f : f[x] \in Nat
    PROVE  IsFiniteSet(Units(f)) /\ Total(f) \in Nat
<1> DEFINE S == DOMAIN f
           g == [x \in S |-> {x} \X (1..f[x])]
           T == {{x} \X (1..f[x]) : x \in S}
<1>1. g \in Surjection(S, T)
  BY DEF Surjection
<1>2. IsFiniteSet(T)
  <2> HIDE DEF g, T
  <2> QED
    BY <1>1, FS_Surjection
<1>3. ASSUME NEW t \in T PROVE IsFiniteSet(t)
  <2>1. PICK x \in S : t = {x} \X (1..f[x])
    OBVIOUS
  <2>2. f[x] \in Nat
    OBVIOUS
  <2> QED
    BY <2>1, <2>2, OneTerm
<1>4. IsFiniteSet(UNION T)
  <2> HIDE DEF T
  <2> QED
    BY <1>2, <1>3, FS_UNION
<1>5. Units(f) = UNION T
  BY DEF Units
<1> QED
  BY <1>4, <1>5, FS_CardinalityType DEF Total

(* A sum without one of its terms.                                         *)
LEMMA TotalWithout ==
    ASSUME NEW f, IsFiniteSet(DOMAIN f), \A y \in DOMAIN f : f[y] \in Nat, NEW x
    PROVE  LET rest == [y \in DOMAIN f \ {x} |-> f[y]]
           IN  /\ Total(f) \in Nat /\ Total(rest) \in Nat
               /\ Total(rest) <= Total(f)
               /\ x \in DOMAIN f => Total(f) = Total(rest) + f[x]
<1> DEFINE rest == [y \in DOMAIN f \ {x} |-> f[y]]
<1>1. IsFiniteSet(Units(f)) /\ Total(f) \in Nat
  BY TotalsAreNumbers
<1>2. IsFiniteSet(Units(rest)) /\ Total(rest) \in Nat
  <2>1. IsFiniteSet(DOMAIN rest) /\ \A y \in DOMAIN rest : rest[y] \in Nat
    BY FS_Subset
  <2> HIDE DEF rest
  <2> QED
    BY <2>1, TotalsAreNumbers
<1>3. CASE x \notin DOMAIN f
  <2>1. Units(rest) = Units(f)
    BY <1>3 DEF Units
  <2>2. Total(rest) = Total(f)
    BY <2>1 DEF Total
  <2> HIDE DEF rest
  <2>3. Total(rest) <= Total(f)
    BY <1>1, <2>2
  <2> QED
    BY <1>1, <1>2, <1>3, <2>3 DEF rest
<1>4. CASE x \in DOMAIN f
  <2> DEFINE term == {x} \X (1..f[x])
  <2>1. Units(f) = Units(rest) \cup term
    <3>1. ASSUME NEW e \in Units(f) PROVE e \in Units(rest) \cup term
      <4>1. PICK y \in DOMAIN f : e \in {y} \X (1..f[y])
        BY DEF Units
      <4>2. CASE y = x
        BY <4>1, <4>2
      <4>3. CASE y # x
        <5>1. y \in DOMAIN rest /\ rest[y] = f[y]
          BY <4>3
        <5> HIDE DEF rest
        <5> QED
          BY <4>1, <5>1 DEF Units
      <4> QED
        BY <4>2, <4>3
    <3>2. ASSUME NEW e \in Units(rest) PROVE e \in Units(f)
      BY DEF Units
    <3>3. ASSUME NEW e \in term PROVE e \in Units(f)
      BY <1>4 DEF Units
    <3> QED
      BY <3>1, <3>2, <3>3
  <2>2. Units(rest) \cap term = {}
    <3> SUFFICES ASSUME NEW e \in Units(rest), e \in term PROVE FALSE
      OBVIOUS
    <3>1. PICK y \in DOMAIN f \ {x} : e \in {y} \X (1..f[y])
      BY DEF Units
    <3>2. e[1] = y /\ e[1] = x
      BY <3>1
    <3> QED
      BY <3>1, <3>2
  <2>3. IsFiniteSet(term) /\ Cardinality(term) = f[x]
    BY <1>4, OneTerm
  <2>4. Cardinality(Units(rest) \cap term) = 0
    BY <2>2, FS_EmptySet
  <2> HIDE DEF rest, term
  <2>5. Cardinality(Units(f)) = Cardinality(Units(rest)) + Cardinality(term) - 0
    BY <1>2, <2>1, <2>3, <2>4, FS_Union
  <2>6. f[x] \in Nat
    BY <1>4
  <2>7. Total(f) = Total(rest) + f[x] /\ Total(rest) <= Total(f)
    BY <1>1, <1>2, <2>3, <2>5, <2>6 DEF Total
  <2> QED
    BY <1>1, <1>2, <2>7 DEF rest
<1> QED
  BY <1>3, <1>4

-----------------------------------------------------------------------------
(* What is on disk was counted, or is being written; and what was counted  *)
(* is within the limits.                                                   *)
Allowed == MaxRatio * archive.bytes

Measured ==
    /\ total_bytes \in Nat
    /\ total_bytes + written <= MaxExtracted
    /\ \A p \in DOMAIN disk : disk[p] \in Nat
    /\ OnDisk <= MaxExtracted /\ OnDisk <= Allowed + MaxFile
    /\ phase = "entry" => OnDisk <= total_bytes /\ total_bytes <= Allowed
    /\ phase = "streaming" => /\ disk[destination] = written /\ written <= MaxFile
                              /\ Total(Without(destination)) <= total_bytes
                              /\ total_bytes <= Allowed

LEMMA AllowedIsNumber == Counting => Allowed \in Nat
<1> SUFFICES ASSUME archive \in Archives PROVE Allowed \in Nat
  BY DEF Counting
<1>1. archive.bytes \in Nat /\ MaxRatio \in Nat
  BY ArchivesAssumption, LimitsAssumption DEF IsArchive
<1> QED
  BY <1>1 DEF Allowed

LEMMA MeasuredStart == ArchiveInit => Measured
<1> SUFFICES ASSUME ArchiveInit PROVE Measured
  OBVIOUS
<1>1. DOMAIN disk = {}
  BY DEF ArchiveInit
<1>2. Units(disk) = {}
  BY <1>1 DEF Units
<1>3. OnDisk = 0
  BY <1>2, FS_EmptySet DEF OnDisk, Total
<1>4. Allowed \in Nat
  <2>1. archive.bytes \in Nat /\ MaxRatio \in Nat
    BY ArchivesAssumption, LimitsAssumption DEF IsArchive, ArchiveInit
  <2> QED
    BY <2>1 DEF Allowed
<1>5. total_bytes = 0 /\ written = 0 /\ phase = "entry"
  BY DEF ArchiveInit
<1> QED
  BY <1>1, <1>3, <1>4, <1>5, LimitsAssumption DEF Measured

LEMMA MeasuredStep ==
    ASSUME Counting, Stored, Stored', Sized, Measured, [ExtractionStep]_archiveVars
    PROVE  Measured'
<1>0. Allowed \in Nat /\ MaxExtracted \in Nat /\ MaxFile \in Nat
  BY AllowedIsNumber, LimitsAssumption
<1>a. /\ IsFiniteSet(DOMAIN disk) /\ \A p \in DOMAIN disk : disk[p] \in Nat
      /\ total_bytes \in Nat /\ written \in Nat
  BY DEF Stored, Sized, Measured
<1>b. OnDisk \in Nat
  BY <1>a, TotalsAreNumbers DEF OnDisk
<1>1. ASSUME disk' = disk, archive' = archive, total_bytes' = total_bytes, written' = 0,
             phase' # "streaming", phase' = "entry" => phase = "entry"
      PROVE  Measured'
  <2>1. OnDisk' = OnDisk /\ Allowed' = Allowed
    BY <1>1 DEF OnDisk, Total, Units, Allowed
  <2>2. total_bytes + 0 <= MaxExtracted
    BY <1>0, <1>a DEF Measured
  <2> QED
    BY <1>1, <2>1, <2>2 DEF Measured
<1>2. ASSUME phase = "streaming", disk' = Without(destination), archive' = archive,
             total_bytes' = total_bytes, written' = 0, phase' # "streaming"
      PROVE  Measured'
  <2>1. Allowed' = Allowed
    BY <1>2 DEF Allowed
  <2>2. OnDisk' = Total(Without(destination))
    BY <1>2 DEF OnDisk, Total, Units
  <2>3. Total(Without(destination)) \in Nat
    BY <1>a, TotalWithout, Zenon DEF Without
  <2>4. /\ Total(Without(destination)) <= total_bytes
        /\ total_bytes <= Allowed /\ total_bytes + written <= MaxExtracted
    BY <1>2 DEF Measured
  <2>5. \A p \in DOMAIN disk' : disk'[p] \in Nat
    BY <1>2, <1>a DEF Without
  <2>6. OnDisk' \in Nat
    BY <2>2, <2>3
  <2>7. /\ OnDisk' <= MaxExtracted /\ OnDisk' <= Allowed' + MaxFile
        /\ OnDisk' <= total_bytes' /\ total_bytes' <= Allowed'
        /\ total_bytes' + written' <= MaxExtracted
    <3> DEFINE o == OnDisk'
    <3>1. o \in Nat /\ o <= total_bytes
      BY <2>2, <2>4, <2>6
    <3> HIDE DEF o
    <3>2. o <= MaxExtracted /\ o <= Allowed + MaxFile /\ total_bytes + 0 <= MaxExtracted
      BY <1>0, <1>a, <2>4, <3>1
    <3> QED
      BY <1>2, <2>1, <2>4, <3>1, <3>2 DEF o
  <2> QED
    BY <1>2, <1>a, <2>5, <2>7 DEF Measured
<1>3. CASE TooManyFiles
  BY <1>1, <1>3, Zenon DEF TooManyFiles, MoreEntries, Fail
<1>4. CASE SkipDirectory
  <2>1. UNCHANGED <<disk, archive, total_bytes, written, phase, destination>>
    BY <1>4 DEF SkipDirectory
  <2> QED
    BY <2>1 DEF Measured, OnDisk, Total, Units, Allowed, Without
<1>5. CASE Refuse \/ RefuseDeclaredSize
  BY <1>1, <1>5 DEF Refuse, RefuseDeclaredSize, MoreEntries, Reject
<1>6. CASE Open
  <2> DEFINE path == ResolveMemberPath(Entry.name).path
             rest == [p \in DOMAIN disk \ {path} |-> disk[p]]
  <2>1. /\ archive' = archive /\ total_bytes' = total_bytes /\ written' = 0 /\ phase = "entry"
        /\ \/ phase' = "unexpected" /\ disk' = disk
           \/ /\ phase' = "streaming" /\ destination' = path
              /\ disk' = [p \in DOMAIN disk \cup {path} |-> IF p = path THEN 0 ELSE disk[p]]
    BY <1>6 DEF Open, MoreEntries, Fail
  <2> HIDE DEF path
  <2>2. CASE phase' = "unexpected" /\ disk' = disk
    BY <1>1, <2>1, <2>2
  <2>3. CASE /\ phase' = "streaming" /\ destination' = path
             /\ disk' = [p \in DOMAIN disk \cup {path} |-> IF p = path THEN 0 ELSE disk[p]]
    <3>1. Total(rest) \in Nat /\ Total(rest) <= OnDisk
      BY <1>a, TotalWithout, Zenon DEF OnDisk
    <3>2. [p \in DOMAIN disk' \ {path} |-> disk'[p]] = rest
      BY <2>3
    <3>3. /\ disk'[path] = 0 /\ path \in DOMAIN disk'
          /\ \A p \in DOMAIN disk' : disk'[p] \in Nat
      BY <1>a, <2>3
    <3>4. IsFiniteSet(DOMAIN disk')
      BY DEF Stored
    <3> HIDE DEF rest
    <3>5. Total(disk') = Total(rest) + 0
      BY <3>2, <3>3, <3>4, TotalWithout, Zenon
    <3>6. OnDisk' = Total(disk') /\ Total(Without(destination))' = Total(rest)
      <4>1. Without(destination)' = rest
        BY <2>3, <3>2 DEF Without
      <4>2. Total(Without(destination))' = Total(Without(destination)')
        BY DEF Total, Units
      <4>3. OnDisk' = Total(disk')
        BY DEF OnDisk, Total, Units
      <4> QED
        BY <4>1, <4>2, <4>3
    <3>7. Allowed' = Allowed
      BY <2>1 DEF Allowed
    <3>8. OnDisk <= total_bytes /\ total_bytes <= Allowed /\ total_bytes + written <= MaxExtracted
      BY <2>1 DEF Measured
    <3>9. /\ OnDisk' = Total(rest) /\ Total(rest) <= total_bytes
          /\ Total(rest) <= MaxExtracted /\ Total(rest) <= Allowed + MaxFile
          /\ total_bytes + 0 <= MaxExtracted /\ 0 <= MaxFile
      BY <1>0, <1>a, <1>b, <3>1, <3>5, <3>6, <3>8
    <3> QED
      BY <1>a, <2>1, <2>3, <3>3, <3>6, <3>7, <3>8, <3>9 DEF Measured
  <2> QED
    BY <2>1, <2>2, <2>3
<1>7. CASE ReadChunk
  <2>1. phase = "streaming" /\ archive' = archive /\ total_bytes' = total_bytes
    BY <1>7 DEF ReadChunk
  <2>2. CASE disk' = Without(destination) /\ (Reject("file_too_large") \/ Fail("too large"))
    <3>1. written' = 0 /\ phase' # "streaming"
      BY <2>2 DEF Reject, Fail
    <3> QED
      BY <1>2, <2>1, <2>2, <3>1
  <2>3. CASE /\ written + 1 <= MaxFile /\ total_bytes + written + 1 <= MaxExtracted
             /\ written' = written + 1
             /\ disk' = [disk EXCEPT ![destination] = written + 1]
             /\ UNCHANGED <<phase, destination>>
    <3> DEFINE rest == [p \in DOMAIN disk \ {destination} |-> disk[p]]
    <3>1. Total(rest) \in Nat /\ Total(rest) <= total_bytes /\ total_bytes <= Allowed
      <4>1. Total(rest) \in Nat
        BY <1>a, TotalWithout, Zenon
      <4> QED
        BY <2>1, <4>1 DEF Measured, Without
    <3>2. /\ destination \in DOMAIN disk' /\ disk'[destination] = written + 1
          /\ \A p \in DOMAIN disk' : disk'[p] \in Nat
      BY <1>a, <2>1, <2>3 DEF Stored
    <3>3. [p \in DOMAIN disk' \ {destination} |-> disk'[p]] = rest
      BY <2>3
    <3>4. IsFiniteSet(DOMAIN disk')
      BY DEF Stored
    <3> HIDE DEF rest
    <3>5. Total(disk') = Total(rest) + (written + 1)
      BY <3>2, <3>3, <3>4, TotalWithout, Zenon
    <3>6. OnDisk' = Total(disk') /\ Total(Without(destination))' = Total(rest)
      BY <2>3, <3>3 DEF OnDisk, Without, Total, Units
    <3>7. Allowed' = Allowed
      BY <2>1 DEF Allowed
    <3>8. /\ OnDisk' <= MaxExtracted /\ OnDisk' <= Allowed + MaxFile
          /\ total_bytes + (written + 1) <= MaxExtracted
      BY <1>0, <1>a, <2>3, <3>1, <3>5, <3>6
    <3> QED
      BY <1>a, <2>1, <2>3, <3>1, <3>2, <3>6, <3>7, <3>8 DEF Measured
  <2> QED
    BY <1>7, <2>2, <2>3 DEF ReadChunk
<1>8. CASE StreamBreaks
  <2>1. /\ phase = "streaming" /\ archive' = archive /\ total_bytes' = total_bytes
        /\ written' = 0 /\ phase' # "streaming" /\ phase' # "entry"
        /\ disk' = disk \/ disk' = Without(destination)
    BY <1>8, Zenon DEF StreamBreaks, Fail
  <2> QED
    BY <1>1, <1>2, <2>1
<1>9. CASE FinishEntry
  <2>1. /\ phase = "streaming" /\ archive' = archive /\ disk' = disk /\ written' = 0
        /\ total_bytes' = total_bytes + written
        /\ phase' = IF RatioExceeded(total_bytes + written) THEN "unsafe" ELSE "entry"
    BY <1>9 DEF FinishEntry
  <2>2. OnDisk' = OnDisk /\ Allowed' = Allowed
    BY <2>1 DEF OnDisk, Total, Units, Allowed
  <2>3. OnDisk <= total_bytes + written
    <3>1. /\ Total(Without(destination)) \in Nat
          /\ OnDisk = Total(Without(destination)) + disk[destination]
      BY <1>a, <2>1, TotalWithout, Zenon DEF Without, OnDisk, Stored
    <3>2. disk[destination] = written /\ Total(Without(destination)) <= total_bytes
      BY <2>1 DEF Measured
    <3> QED
      BY <1>a, <3>1, <3>2
  <2>4. phase' = "entry" => total_bytes + written <= Allowed
    BY <1>0, <1>a, <2>1 DEF RatioExceeded, Allowed
  <2>5. /\ total_bytes + written \in Nat /\ total_bytes + written <= MaxExtracted
        /\ total_bytes + written + 0 <= MaxExtracted /\ phase' # "streaming"
    BY <1>0, <1>a, <2>1 DEF Measured
  <2> QED
    BY <2>1, <2>2, <2>3, <2>4, <2>5 DEF Measured
<1>10. CASE FinishArchive
  <2>1. /\ UNCHANGED <<disk, archive, total_bytes, written>>
        /\ phase' # "streaming" /\ phase' # "entry"
    BY <1>10 DEF FinishArchive, Unpacked
  <2>2. OnDisk' = OnDisk /\ Allowed' = Allowed
    BY <2>1 DEF OnDisk, Total, Units, Allowed
  <2> QED
    BY <2>1, <2>2 DEF Measured
<1>11. CASE UNCHANGED archiveVars
  BY <1>11 DEF archiveVars, Measured, OnDisk, Total, Units, Allowed, Without
<1> QED
  BY <1>3, <1>4, <1>5, <1>6, <1>7, <1>8, <1>9, <1>10, <1>11, Zenon DEF ExtractionStep

-----------------------------------------------------------------------------
(* Entries.  What was dealt with is in one of three heaps.                 *)
Over(n) == {i \in 1..n : PassedOver(archive.entries[i])}

Accounted ==
    /\ rejected \in [Reasons -> Nat]
    /\ phase = "streaming" => ~ PassedOver(Entry)
    /\ EveryEntryAccounted

LEMMA ReasonsAreFinite == IsFiniteSet(Reasons)
<1>1. IsFiniteSet({"path_traversal"})
  BY FS_Singleton
<1>2. IsFiniteSet({"path_traversal"} \cup {"absolute_path"})
  BY <1>1, FS_AddElement
<1>3. IsFiniteSet({"path_traversal"} \cup {"absolute_path"} \cup {"symlink"})
  BY <1>2, FS_AddElement
<1>4. IsFiniteSet({"path_traversal"} \cup {"absolute_path"} \cup {"symlink"} \cup {"special_file"})
  BY <1>3, FS_AddElement
<1>5. IsFiniteSet({"path_traversal"} \cup {"absolute_path"} \cup {"symlink"} \cup {"special_file"}
                    \cup {"path_too_deep"})
  BY <1>4, FS_AddElement
<1>6. IsFiniteSet({"path_traversal"} \cup {"absolute_path"} \cup {"symlink"} \cup {"special_file"}
                    \cup {"path_too_deep"} \cup {"file_too_large"})
  BY <1>5, FS_AddElement
<1>7. Reasons = {"path_traversal"} \cup {"absolute_path"} \cup {"symlink"} \cup {"special_file"}
                    \cup {"path_too_deep"} \cup {"file_too_large"}
  BY DEF Reasons
<1> QED
  BY <1>6, <1>7

LEMMA RejectedAreCounted ==
    ASSUME rejected \in [Reasons -> Nat], NEW r \in Reasons
    PROVE  LET counted == [rejected EXCEPT ![r] = @ + 1]
           IN  /\ counted \in [Reasons -> Nat]
               /\ Total(rejected) \in Nat
               /\ Total(counted) = Total(rejected) + 1
<1> DEFINE counted == [rejected EXCEPT ![r] = @ + 1]
           rest == [y \in DOMAIN rejected \ {r} |-> rejected[y]]
<1>1. /\ counted \in [Reasons -> Nat] /\ DOMAIN counted = Reasons /\ DOMAIN rejected = Reasons
      /\ counted[r] = rejected[r] + 1 /\ rejected[r] \in Nat
      /\ [y \in DOMAIN counted \ {r} |-> counted[y]] = rest
  OBVIOUS
<1>2. IsFiniteSet(Reasons)
  BY ReasonsAreFinite
<1>3. Total(rest) \in Nat /\ Total(rejected) = Total(rest) + rejected[r]
  BY <1>1, <1>2, TotalWithout, Zenon
<1>4. Total(counted) = Total(rest) + counted[r]
  <2>1. IsFiniteSet(DOMAIN counted) /\ \A y \in DOMAIN counted : counted[y] \in Nat
    BY <1>1, <1>2
  <2> HIDE DEF counted, rest
  <2> QED
    BY <1>1, <2>1, TotalWithout, Zenon
<1> HIDE DEF counted, rest
<1>5. Total(rejected) \in Nat /\ Total(counted) = Total(rejected) + 1
  BY <1>1, <1>3, <1>4
<1> QED
  BY <1>1, <1>5 DEF counted

LEMMA OverGrows ==
    ASSUME index \in Nat
    PROVE  /\ Cardinality(Over(index)) \in Nat
           /\ PassedOver(Entry) => Cardinality(Over(index + 1)) = Cardinality(Over(index)) + 1
           /\ ~ PassedOver(Entry) => Over(index + 1) = Over(index)
<1>1. IsFiniteSet(Over(index))
  <2>1. IsFiniteSet(1..index)
    <3>1. 1 \in Int /\ index \in Int
      OBVIOUS
    <3> QED
      BY <3>1, FS_Interval
  <2> QED
    BY <2>1, FS_Subset DEF Over
<1>2. 1..(index + 1) = 1..index \cup {index + 1} /\ index + 1 \notin 1..index
  OBVIOUS
<1>3. Over(index + 1) = IF PassedOver(Entry) THEN Over(index) \cup {index + 1} ELSE Over(index)
  BY <1>2 DEF Over, Entry
<1>4. index + 1 \notin Over(index)
  BY <1>2 DEF Over
<1>5. /\ Cardinality(Over(index)) \in Nat
      /\ Cardinality(Over(index) \cup {index + 1}) = Cardinality(Over(index)) + 1
  BY <1>1, <1>4, FS_AddElement, FS_CardinalityType
<1> QED
  BY <1>3, <1>5

(* What is refused is counted under a reason, but for what is passed over. *)
LEMMA RefusedOrPassedOver ==
    ASSUME Entry.kind \in Kinds, Entry.kind # "directory"
    PROVE  /\ PassedOver(Entry) <=> Refusal = "nothing left"
           /\ Refusal \in Reasons \cup {"nothing left", "none"}
<1>1. \A name : ResolveMemberPath(name).reason \in Reasons \cup {"nothing left", "none"}
  BY DEF ResolveMemberPath, Reasons
<1>2. CASE Entry.kind = "symlink"
  BY <1>2 DEF Refusal, PassedOver, Reasons
<1>3. CASE Entry.kind = "special"
  BY <1>3 DEF Refusal, PassedOver, Reasons
<1>4. CASE Entry.kind = "file"
  BY <1>1, <1>4 DEF Refusal, PassedOver
<1> QED
  BY <1>2, <1>3, <1>4 DEF Kinds

LEMMA AccountedStart == ArchiveInit => Accounted
<1> SUFFICES ASSUME ArchiveInit PROVE Accounted
  OBVIOUS
<1>1. rejected = [r \in Reasons |-> 0] /\ index = 0 /\ file_count = 0 /\ phase = "entry"
  BY DEF ArchiveInit
<1>2. Units(rejected) = {}
  <2>1. \A r \in Reasons : {r} \X (1..rejected[r]) = {}
    BY <1>1
  <2> QED
    BY <1>1, <2>1 DEF Units
<1>3. Total(rejected) = 0
  BY <1>2, FS_EmptySet DEF Total
<1>4. {i \in 1..index : PassedOver(archive.entries[i])} = {}
  BY <1>1
<1>5. Cardinality({i \in 1..index : PassedOver(archive.entries[i])}) = 0
  BY <1>4, FS_EmptySet
<1> QED
  BY <1>1, <1>3, <1>5 DEF Accounted, EveryEntryAccounted

LEMMA AccountedStep ==
    ASSUME Counting, Accounted, [ExtractionStep]_archiveVars
    PROVE  Accounted'
<1>0. /\ archive' = archive /\ archive \in Archives
      /\ index \in Nat /\ file_count \in Nat
      /\ index = file_count + Total(rejected) + Cardinality(Over(index))
  <2>1. archive' = archive
    BY DEF ExtractionStep, TooManyFiles, SkipDirectory, Refuse, RefuseDeclaredSize, Open,
           ReadChunk, StreamBreaks, FinishEntry, FinishArchive, archiveVars
  <2> QED
    BY <2>1 DEF Counting, Accounted, EveryEntryAccounted, Over
<1>a. Total(rejected) \in Nat /\ Cardinality(Over(index)) \in Nat
  <2>1. IsFiniteSet(DOMAIN rejected) /\ \A r \in DOMAIN rejected : rejected[r] \in Nat
    BY ReasonsAreFinite DEF Accounted
  <2> QED
    BY <1>0, <2>1, TotalsAreNumbers, OverGrows
<1>b. \A e : PassedOver(e)' <=> PassedOver(e)
  BY <1>0 DEF PassedOver, ResolveMemberPath, StripComponents
<1>c. \A n : Over(n)' = Over(n)
  BY <1>0, <1>b DEF Over
<1>d. ASSUME index' = file_count' + Total(rejected') + Cardinality(Over(index'))
      PROVE  EveryEntryAccounted'
  <2>1. PICK n : n = index'
    OBVIOUS
  <2>2. Over(index)' = Over(n)'
    BY <2>1 DEF Over
  <2>3. Over(index)' = Over(index')
    BY <1>c, <2>1, <2>2
  <2>4. EveryEntryAccounted' <=>
            index' = file_count' + Total(rejected') + Cardinality(Over(index)')
    BY DEF EveryEntryAccounted, Over, Total, Units
  <2> QED
    BY <1>d, <2>3, <2>4
<1>e. index' = index => Entry' = Entry
  BY <1>0 DEF Entry
<1>1. ASSUME index' = index, file_count' = file_count, rejected' = rejected,
             phase' = "streaming" => ~ PassedOver(Entry)
      PROVE  Accounted'
  <2>1. EveryEntryAccounted'
    BY <1>0, <1>1, <1>d
  <2>2. phase' = "streaming" => ~ PassedOver(Entry)'
    BY <1>0, <1>1, <1>b, <1>e DEF PassedOver
  <2> QED
    BY <1>1, <2>1, <2>2 DEF Accounted
(* An entry is dealt with: it goes on one of the heaps.                    *)
<1>2. ASSUME index' = index + 1, phase' # "streaming",
             \/ /\ PassedOver(Entry)
                /\ file_count' = file_count /\ rejected' = rejected
             \/ /\ ~ PassedOver(Entry)
                /\ file_count' = file_count
                /\ \E r \in Reasons : rejected' = [rejected EXCEPT ![r] = @ + 1]
             \/ /\ ~ PassedOver(Entry)
                /\ file_count' = file_count + 1 /\ rejected' = rejected
      PROVE  Accounted'
  <2>1. /\ PassedOver(Entry) => Cardinality(Over(index + 1)) = Cardinality(Over(index)) + 1
        /\ ~ PassedOver(Entry) => Over(index + 1) = Over(index)
    BY <1>0, OverGrows
  <2>2. CASE PassedOver(Entry) /\ file_count' = file_count /\ rejected' = rejected
    <3>1. index + 1 = file_count + Total(rejected) + (Cardinality(Over(index)) + 1)
      BY <1>0, <1>a
    <3> QED
      BY <1>2, <1>d, <2>1, <2>2, <3>1 DEF Accounted
  <2>3. CASE /\ ~ PassedOver(Entry) /\ file_count' = file_count
             /\ \E r \in Reasons : rejected' = [rejected EXCEPT ![r] = @ + 1]
    <3>1. PICK r \in Reasons : rejected' = [rejected EXCEPT ![r] = @ + 1]
      BY <2>3
    <3>2. rejected' \in [Reasons -> Nat] /\ Total(rejected') = Total(rejected) + 1
      BY <3>1, RejectedAreCounted, Zenon DEF Accounted
    <3>3. index + 1 = file_count + (Total(rejected) + 1) + Cardinality(Over(index))
      BY <1>0, <1>a
    <3> QED
      BY <1>2, <1>d, <2>1, <2>3, <3>2, <3>3 DEF Accounted
  <2>4. CASE ~ PassedOver(Entry) /\ file_count' = file_count + 1 /\ rejected' = rejected
    <3>1. index + 1 = (file_count + 1) + Total(rejected) + Cardinality(Over(index))
      BY <1>0, <1>a
    <3> QED
      BY <1>2, <1>d, <2>1, <2>4, <3>1 DEF Accounted
  <2> QED
    BY <1>2, <2>2, <2>3, <2>4
<1>3. ASSUME index < Len(archive.entries) PROVE Entry.kind \in Kinds
  <2>1. Len(archive.entries) \in Nat
    BY <1>0, Entries
  <2>2. index + 1 \in DOMAIN archive.entries
    <3>1. DOMAIN archive.entries = 1..Len(archive.entries)
      BY <1>0, ArchivesAssumption DEF IsArchive
    <3> QED
      BY <1>0, <1>3, <2>1, <3>1
  <2> QED
    BY <1>0, <2>2, ArchivesAssumption DEF IsArchive, Entry
<1>4. CASE TooManyFiles
  BY <1>1, <1>4, Zenon DEF TooManyFiles, Fail
<1>5. CASE SkipDirectory
  <2>1. /\ PassedOver(Entry) /\ index' = index + 1 /\ phase' # "streaming"
        /\ file_count' = file_count /\ rejected' = rejected
    BY <1>5 DEF SkipDirectory, MoreEntries, PassedOver
  <2> QED
    BY <1>2, <2>1
<1>6. CASE Refuse
  <2>1. /\ Entry.kind # "directory" /\ Refusal # "none" /\ index < Len(archive.entries)
        /\ index' = index + 1 /\ phase' # "streaming" /\ file_count' = file_count
        /\ rejected' = IF Refusal \in Reasons THEN [rejected EXCEPT ![Refusal] = @ + 1]
                                              ELSE rejected
    BY <1>6 DEF Refuse, MoreEntries, Reject
  <2>2. /\ PassedOver(Entry) <=> Refusal = "nothing left"
        /\ Refusal \in Reasons \cup {"nothing left", "none"}
    BY <1>3, <2>1, RefusedOrPassedOver, Zenon
  <2>3. CASE Refusal \in Reasons
    <3>1. "nothing left" \notin Reasons
      BY DEF Reasons
    <3> QED
      BY <1>2, <2>1, <2>2, <2>3, <3>1
  <2>4. CASE Refusal \notin Reasons
    BY <1>2, <2>1, <2>2, <2>4
  <2> QED
    BY <2>3, <2>4
<1>7. CASE RefuseDeclaredSize
  <2>1. /\ Entry.kind # "directory" /\ Refusal = "none" /\ index < Len(archive.entries)
        /\ index' = index + 1 /\ phase' # "streaming" /\ file_count' = file_count
        /\ Reject("file_too_large")
    BY <1>7 DEF RefuseDeclaredSize, MoreEntries, Reject
  <2>2. ~ PassedOver(Entry)
    BY <1>3, <2>1, RefusedOrPassedOver
  <2>3. "file_too_large" \in Reasons
    BY DEF Reasons
  <2>4. rejected' = [rejected EXCEPT !["file_too_large"] = @ + 1]
    BY <2>1, <2>3 DEF Reject
  <2> QED
    BY <1>2, <2>1, <2>2, <2>3, <2>4
<1>8. CASE Open
  <2>1. /\ Entry.kind # "directory" /\ Refusal = "none" /\ index < Len(archive.entries)
        /\ index' = index /\ file_count' = file_count /\ rejected' = rejected
    BY <1>8, Zenon DEF Open, MoreEntries
  <2>2. ~ PassedOver(Entry)
    BY <1>3, <2>1, RefusedOrPassedOver
  <2> QED
    BY <1>1, <2>1, <2>2
<1>9. CASE ReadChunk
  <2>1. ~ PassedOver(Entry) /\ file_count' = file_count
    BY <1>9, Zenon DEF ReadChunk, Accounted
  <2>2. CASE Reject("file_too_large")
    <3>1. "file_too_large" \in Reasons
      BY DEF Reasons
    <3>2. /\ rejected' = [rejected EXCEPT !["file_too_large"] = @ + 1]
          /\ index' = index + 1 /\ phase' # "streaming"
      BY <2>2, <3>1 DEF Reject
    <3> QED
      BY <1>2, <2>1, <3>1, <3>2
  <2>3. CASE UNCHANGED <<index, rejected>>
    BY <1>1, <2>1, <2>3
  <2> QED
    BY <1>9, <2>2, <2>3, Zenon DEF ReadChunk
<1>10. CASE StreamBreaks
  BY <1>1, <1>10, Zenon DEF StreamBreaks, Fail
<1>11. CASE FinishEntry
  <2>1. /\ ~ PassedOver(Entry) /\ index' = index + 1 /\ phase' # "streaming"
        /\ file_count' = file_count + 1 /\ rejected' = rejected
    BY <1>11 DEF FinishEntry, Accounted
  <2> QED
    BY <1>2, <2>1
<1>12. CASE FinishArchive
  BY <1>1, <1>12 DEF FinishArchive, Unpacked
<1>13. CASE UNCHANGED archiveVars
  <2>1. UNCHANGED <<index, file_count, rejected, phase>>
    BY <1>13 DEF archiveVars
  <2> QED
    BY <1>1, <2>1 DEF Accounted
<1> QED
  BY <1>4, <1>5, <1>6, <1>7, <1>8, <1>9, <1>10, <1>11, <1>12, <1>13, Zenon DEF ExtractionStep

-----------------------------------------------------------------------------
Inv == Counting /\ Stored /\ Sized /\ FilesAtTheLimitAreTaken /\ Measured /\ Accounted

LEMMA InvStep == Inv /\ [ExtractionStep]_archiveVars => Inv'
<1>1. ASSUME Inv, [ExtractionStep]_archiveVars PROVE Inv'
  <2>1. Counting' /\ FilesAtTheLimitAreTaken'
    BY <1>1, CountingStep, Zenon DEF Inv
  <2>2. Stored'
    BY <1>1, StoredStep, Zenon DEF Inv
  <2>3. Sized'
    BY <1>1, SizedStep, Zenon DEF Inv
  <2>4. Measured'
    BY <1>1, <2>2, MeasuredStep, Zenon DEF Inv
  <2>5. Accounted'
    BY <1>1, AccountedStep, Zenon DEF Inv
  <2> QED
    BY <2>1, <2>2, <2>3, <2>4, <2>5, Zenon DEF Inv
<1> QED
  BY <1>1

LEMMA InvStart == ArchiveInit => Inv
  BY Start, MeasuredStart, AccountedStart, Zenon DEF Inv

LEMMA Invariance == ExtractionSpec => []Inv
  BY InvStart, InvStep, PTL DEF ExtractionSpec

(* An archive is refused for the number of its files only when it has more *)
(* entries than files are allowed, and only once that many are unpacked    *)
(* (archive.py, the first check of both loops).                            *)
THEOREM LimitIsReached == ExtractionSpec => []FilesAtTheLimitAreTaken
<1>1. Inv => FilesAtTheLimitAreTaken
  BY DEF Inv
<1> QED
  BY <1>1, Invariance, PTL

(* At every chunk of every archive, no file on disk is larger and no more  *)
(* files are there than the limits say (archive.py, _stream_to_disk).        *)
THEOREM FilesStayWithinLimits == ExtractionSpec => []FilesWithinLimits
<1>1. Inv => FilesWithinLimits
  BY DEF Inv, Stored, Sized, FilesWithinLimits
<1> QED
  BY <1>1, Invariance, PTL

(* Whatever an archive says of its entries and whatever they hold, at      *)
(* every chunk the disk holds no more than the limits, replaced and        *)
(* rejected entries included, and what the ratio allows is exceeded by at  *)
(* most the one file that is being written (archive.py, _stream_to_disk    *)
(* and _check_ratio).                                                      *)
THEOREM DiskStaysWithinLimits == ExtractionSpec => []DiskWithinLimits
<1>1. Inv => DiskWithinLimits
  BY DEF Inv, Stored, Sized, FilesWithinLimits, Measured, Allowed, DiskWithinLimits
<1> QED
  BY <1>1, Invariance, PTL

(* No entry is dropped without a word: each that was dealt with is passed  *)
(* over for what it is, unpacked, or counted under a reason (archive.py,   *)
(* the two loops).                                                         *)
THEOREM EntriesAreAccounted == ExtractionSpec => []EveryEntryAccounted
<1>1. Inv => EveryEntryAccounted
  BY DEF Inv, Accounted
<1> QED
  BY <1>1, Invariance, PTL

-----------------------------------------------------------------------------
(* The score.                                                              *)
LEMMA MinIs ==
    ASSUME NEW S, S \subseteq Int, NEW m \in S, \A y \in S : m <= y
    PROVE  Min(S) = m
<1>1. ASSUME NEW x \in S, \A y \in S : x =< y PROVE x = m
  <2>1. x \in Int /\ m \in Int /\ x <= m /\ m <= x
    BY <1>1
  <2> QED
    BY <2>1
<1>2. \A y \in S : m =< y
  OBVIOUS
<1> QED
  BY <1>1, <1>2 DEF Min

LEMMA MinOfTwo ==
    ASSUME NEW a \in Int, NEW b \in Int
    PROVE  /\ Min({a, b}) = IF a <= b THEN a ELSE b
           /\ Min({a, b}) \in Int /\ Min({a, b}) <= a /\ Min({a, b}) <= b
<1>1. CASE a <= b
  BY <1>1, MinIs
<1>2. CASE ~ (a <= b)
  <2>1. \A y \in {a, b} : b <= y
    BY <1>2
  <2>2. Min({a, b}) = b
    BY <2>1, MinIs
  <2> QED
    BY <1>2, <2>2
<1> QED
  BY <1>1, <1>2

LEMMA Ladders ==
    ASSUME NEW f \in Catalogue
    PROVE  /\ f.severity \in {"critical", "high", "medium", "low", "info"}
           /\ f.confidence \in {"high", "medium", "low"}
           /\ f.category \in Categories
           /\ f.place \in Nat
<1>1. ToSet(Severities) = {"critical", "high", "medium", "low", "info"}
  BY DEF ToSet, Severities
<1> QED
  BY <1>1, CatalogueAssumption DEF Confidences

(* The ceilings that findings impose, and the lowest of them.              *)
Ceilings(findings) == {100} \cup {SeverityCap[f.severity] : f \in {g \in findings : Caps(g)}}

LEMMA CapIsCeiling ==
    ASSUME NEW F, F \subseteq Catalogue
    PROVE  /\ Ceilings(F) \subseteq {39, 69, 100}
           /\ Cap(F) \in Ceilings(F)
           /\ \A c \in Ceilings(F) : Cap(F) <= c
<1>1. Ceilings(F) \subseteq {39, 69, 100}
  <2>1. \A f \in F : SeverityCap[f.severity] \in {39, 69, 100}
    BY Ladders DEF SeverityCap
  <2> QED
    BY <2>1 DEF Ceilings
<1>2. PICK m \in Ceilings(F) : \A c \in Ceilings(F) : m <= c
  <2>0. 100 \in Ceilings(F)
    BY DEF Ceilings
  <2>1. CASE 39 \in Ceilings(F)
    BY <1>1, <2>1
  <2>2. CASE 39 \notin Ceilings(F) /\ 69 \in Ceilings(F)
    BY <1>1, <2>2
  <2>3. CASE 39 \notin Ceilings(F) /\ 69 \notin Ceilings(F)
    BY <1>1, <2>0, <2>3
  <2> QED
    BY <2>1, <2>2, <2>3
<1>3. Min(Ceilings(F)) = m
  <2>1. Ceilings(F) \subseteq Int
    BY <1>1
  <2> QED
    BY <1>2, <2>1, MinIs
<1>4. Cap(F) = Min(Ceilings(F))
  BY DEF Cap, Ceilings
<1> QED
  BY <1>1, <1>2, <1>3, <1>4

(* Whoever caps is worth naming.                                           *)
LEMMA CapIsSaid ==
    ASSUME NEW F, F \subseteq Catalogue, Cap(F) < 100
    PROVE  Summary(F) = "start with"
<1>1. Cap(F) \in Ceilings(F) /\ Cap(F) # 100
  BY CapIsCeiling
<1>2. PICK f \in F : Caps(f) /\ Cap(F) = SeverityCap[f.severity]
  BY <1>1 DEF Ceilings
<1>3. f.severity \in {"critical", "high"}
  BY <1>1, <1>2, Ladders DEF SeverityCap
<1>4. IsLead(f)
  BY <1>2, <1>3 DEF Caps, IsLead, CappingCategories, Actionable
<1> DEFINE named == \E g \in F : IsLead(g)
           loud == \E g \in F : g.severity \in {"critical", "high"}
<1>5. F # {} /\ named /\ loud
  BY <1>3, <1>4
<1>6. Summary(F) = CASE F = {} -> "no issues"
                     [] named -> "start with"
                     [] F # {} /\ ~ named /\ loud -> "not confirmed"
                     [] F # {} /\ ~ loud -> "nothing blocking"
  BY Zenon DEF Summary
<1> HIDE DEF named, loud
<1> QED
  BY <1>5, <1>6

LEMMA Rounding ==
    ASSUME NEW n \in Nat, NEW d \in Nat \ {0}
    PROVE  LET q == RoundedQuotient(n, d)
           IN  /\ q \in Nat
               /\ 2 * (q * d) - d <= 2 * n /\ 2 * n <= 2 * (q * d) + d
               /\ 2 * n = 2 * (q * d) - d => q % 2 = 0
               /\ 2 * n = 2 * (q * d) + d => q % 2 = 0
<1> DEFINE k == n \div d
           r == n % d
           q == RoundedQuotient(n, d)
<1>1. k \in Nat /\ r \in Nat /\ r < d /\ n = k * d + r
  OBVIOUS
<1>2. q = IF 2 * r > d \/ (2 * r = d /\ k % 2 = 1) THEN k + 1 ELSE k
  BY DEF RoundedQuotient
<1> HIDE DEF k, r, q
<1>3. PICK p \in Nat : p = k * d
  BY <1>1
<1>4. CASE 2 * r > d \/ (2 * r = d /\ k % 2 = 1)
  <2>1. q = k + 1 /\ q * d = p + d
    BY <1>1, <1>2, <1>3, <1>4
  <2>2. 2 * n = 2 * p + 2 * r
    BY <1>1, <1>3
  <2>3. k % 2 = 1 => q % 2 = 0
    BY <1>1, <2>1
  <2> QED
    BY <1>1, <1>3, <1>4, <2>1, <2>2, <2>3 DEF q
<1>5. CASE ~ (2 * r > d \/ (2 * r = d /\ k % 2 = 1))
  <2>1. q = k /\ q * d = p
    BY <1>1, <1>2, <1>3, <1>5
  <2>2. 2 * n = 2 * p + 2 * r
    BY <1>1, <1>3
  <2>3. 2 * r = d => q % 2 = 0
    BY <1>1, <1>5, <2>1
  <2> QED
    BY <1>1, <1>3, <1>5, <2>1, <2>2, <2>3 DEF q
<1> QED
  BY <1>4, <1>5

LEMMA RoundingGrows ==
    ASSUME NEW n \in Nat, NEW m \in Nat, n <= m,
           NEW d \in Nat \ {0}, NEW e \in Nat \ {0}, e <= d
    PROVE  /\ RoundedQuotient(n, d) \in Nat /\ RoundedQuotient(m, e) \in Nat
           /\ RoundedQuotient(n, d) <= RoundedQuotient(m, e)
<1>1. PICK q \in Nat : /\ q = RoundedQuotient(n, d)
                       /\ 2 * (q * d) - d <= 2 * n
                       /\ 2 * n = 2 * (q * d) - d => q % 2 = 0
  BY Rounding
<1>2. PICK s \in Nat : /\ s = RoundedQuotient(m, e)
                       /\ 2 * m <= 2 * (s * e) + e
                       /\ 2 * m = 2 * (s * e) + e => s % 2 = 0
  BY Rounding
<1>3. ASSUME q > s PROVE FALSE
  <2>1. PICK a \in Nat : a = q * d
    OBVIOUS
  <2>2. PICK b \in Nat : b = s * e
    OBVIOUS
  <2>3. PICK c \in Nat : c = s * d
    OBVIOUS
  <2>4. b <= c
    BY <2>2, <2>3
  <2>5. PICK x \in Nat : q = s + 1 + x
    <3>1. q - (s + 1) \in Nat /\ q = s + 1 + (q - (s + 1))
      BY <1>3
    <3> QED
      BY <3>1
  <2>6. PICK y \in Nat : y = x * d
    OBVIOUS
  <2>7. a = c + d + y
    BY <2>1, <2>3, <2>5, <2>6
  <2>8. 2 * a - d <= 2 * n /\ 2 * m <= 2 * b + e
    BY <1>1, <1>2, <2>1, <2>2
  <2>9. y = 0 /\ 2 * n = 2 * a - d /\ 2 * m = 2 * b + e
    BY <2>4, <2>7, <2>8
  <2>10. x = 0
    BY <2>6, <2>9
  <2>11. q % 2 = 0 /\ s % 2 = 0
    BY <1>1, <1>2, <2>1, <2>2, <2>9
  <2> QED
    BY <2>5, <2>10, <2>11
<1> QED
  BY <1>1, <1>2, <1>3

LEMMA Least ==
    ASSUME NEW D, D \subseteq Nat, D # {}
    PROVE  \E d \in D : \A e \in D : d <= e
<1>1. PICK d \in D : \A e \in D : ~ (<<e, d>> \in OpToRel(<, Nat))
  BY WFMin, NatLessThanWellFounded
<1>2. \A e \in D : ~ (e < d)
  BY <1>1 DEF OpToRel
<1> QED
  BY <1>2

Squared(x) == x * x
Beyond(square) == {x \in Nat : Squared(x + 1) > square}
IsRoot(r, square) == r * r <= square /\ (r + 1) * (r + 1) > square

LEMMA RootExists ==
    ASSUME NEW square \in Nat, square >= Squared(100), NEW top \in Nat, (top + 1) * (top + 1) > square
    PROVE  \E r \in 100..top : IsRoot(r, square)
<1>1. \A x : x \in Beyond(square) <=> x \in Nat /\ Squared(x + 1) > square
  BY Zenon DEF Beyond
<1>2. PICK r \in Beyond(square) : \A e \in Beyond(square) : r <= e
  <2>1. Beyond(square) \subseteq Nat /\ top \in Beyond(square)
    BY <1>1 DEF Squared
  <2> QED
    BY <2>1, Least, Zenon
<1>a. r \in Nat /\ (r + 1) * (r + 1) > square
  BY <1>1 DEF Squared
<1>3. r <= top
  <2>1. top \in Beyond(square)
    BY <1>1 DEF Squared
  <2> QED
    BY <1>2, <2>1, Zenon
<1>4. r >= 100
  <2>1. ASSUME r <= 99 PROVE FALSE
    <3>1. (r + 1) * (r + 1) <= 100 * 100
      BY <1>a, <2>1
    <3> QED
      BY <1>a, <3>1 DEF Squared
  <2> QED
    BY <1>a, <2>1
<1>5. r * r <= square
  <2>1. r - 1 \in Nat /\ ~ (r <= r - 1) /\ (r - 1) + 1 = r
    BY <1>a, <1>4
  <2>2. r - 1 \notin Beyond(square)
    BY <1>2, <2>1, Zenon
  <2>3. ~ (r * r > square)
    BY <1>1, <2>1, <2>2, Zenon DEF Squared
  <2>4. r * r \in Nat
    BY <1>a
  <2> QED
    BY <2>3, <2>4
<1> QED
  <2>1. r \in 100..top
    BY <1>a, <1>3, <1>4
  <2> QED
    BY <2>1, <1>a, <1>5, Zenon DEF IsRoot

LEMMA DivisorIsPositive ==
    ASSUME NEW files \in Nat
    PROVE  SizeDivisor(files) \in Nat \ {0}
<1>1. CASE files <= 1
  BY <1>1 DEF SizeDivisor
<1>2. CASE ~ (files <= 1)
  <2>1. PICK top \in Nat : top = 100 * files
    OBVIOUS
  <2>2. PICK square \in Nat : square = Squared(100) * files
    BY DEF Squared
  <2>3. square >= Squared(100) /\ square = 100 * top
    BY <1>2, <2>1, <2>2 DEF Squared
  <2>4. (top + 1) * (top + 1) > square
    <3>1. PICK g \in Nat : g = top * files
      OBVIOUS
    <3>2. top * top = 100 * g /\ g >= top
      BY <1>2, <2>1, <3>1
    <3>3. (top + 1) * (top + 1) = top * top + 2 * top + 1
      OBVIOUS
    <3> QED
      BY <2>3, <3>1, <3>2, <3>3
  <2>5. \E r \in 100..top : IsRoot(r, square)
    BY <2>3, <2>4, RootExists, Zenon
  <2>6. SizeDivisor(files) = CHOOSE r \in 100..top : IsRoot(r, square)
    BY <1>2, <2>1, <2>2 DEF SizeDivisor, IsRoot, Squared
  <2>7. SizeDivisor(files) \in 100..top
    BY <2>5, <2>6, Zenon
  <2>8. \A r \in 100..top : r \in Nat \ {0}
    BY <2>1
  <2> QED
    BY <2>7, <2>8
<1> QED
  BY <1>1, <1>2

(* Fewer findings, no larger a penalty.                                    *)
LEMMA PenaltyGrows ==
    ASSUME NEW F, IsFiniteSet(F), NEW G \in SUBSET F, NEW category
    PROVE  /\ CategoryPenalty(F, category) \in Nat /\ CategoryPenalty(G, category) \in Nat
           /\ CategoryPenalty(G, category) <= CategoryPenalty(F, category)
<1> DEFINE P(s, c) == FindingPenalty([severity |-> s, confidence |-> c])
           A(s, c) == P(s, c) * Cardinality(Alike(F, category, s, c))
           B(s, c) == P(s, c) * Cardinality(Alike(G, category, s, c))
           Severe == {"critical", "high", "medium", "low", "info"}
           Sure == {"high", "medium", "low"}
<1>1. ASSUME NEW s \in Severe, NEW c \in Sure
      PROVE  A(s, c) \in Nat /\ B(s, c) \in Nat /\ B(s, c) <= A(s, c)
  <2>1. P(s, c) \in Nat
    <3>1. SeverityWeight[s] \in Nat /\ ConfidenceFactor[c] \in Nat
      BY DEF SeverityWeight, ConfidenceFactor
    <3> QED
      BY <3>1 DEF FindingPenalty
  <2>2. /\ Cardinality(Alike(F, category, s, c)) \in Nat
        /\ Cardinality(Alike(G, category, s, c)) \in Nat
        /\ Cardinality(Alike(G, category, s, c)) <= Cardinality(Alike(F, category, s, c))
    <3>1. Alike(F, category, s, c) \subseteq F
      BY DEF Alike
    <3>2. IsFiniteSet(Alike(F, category, s, c))
      BY <3>1, FS_Subset
    <3>3. Alike(G, category, s, c) \subseteq Alike(F, category, s, c)
      BY DEF Alike
    <3> QED
      BY <3>2, <3>3, FS_Subset, FS_CardinalityType
  <2> DEFINE a == Cardinality(Alike(F, category, s, c))
             b == Cardinality(Alike(G, category, s, c))
             p == P(s, c)
  <2> HIDE DEF a, b, p
  <2>3. p \in Nat /\ a \in Nat /\ b \in Nat /\ b <= a
    BY <2>1, <2>2 DEF a, b, p
  <2>4. p * a \in Nat /\ p * b \in Nat /\ p * b <= p * a
    BY <2>3
  <2> QED
    BY <2>4 DEF a, b, p
<1>2. CategoryPenalty(F, category) =
          (A("critical", "high") + A("critical", "medium") + A("critical", "low"))
        + (A("high", "high") + A("high", "medium") + A("high", "low"))
        + (A("medium", "high") + A("medium", "medium") + A("medium", "low"))
        + (A("low", "high") + A("low", "medium") + A("low", "low"))
        + (A("info", "high") + A("info", "medium") + A("info", "low"))
  BY DEF CategoryPenalty, OverLadders
<1>3. CategoryPenalty(G, category) =
          (B("critical", "high") + B("critical", "medium") + B("critical", "low"))
        + (B("high", "high") + B("high", "medium") + B("high", "low"))
        + (B("medium", "high") + B("medium", "medium") + B("medium", "low"))
        + (B("low", "high") + B("low", "medium") + B("low", "low"))
        + (B("info", "high") + B("info", "medium") + B("info", "low"))
  BY DEF CategoryPenalty, OverLadders
<1> HIDE DEF A, B
<1>4. \A s \in Severe : /\ A(s, "high") \in Nat /\ B(s, "high") \in Nat
                        /\ A(s, "medium") \in Nat /\ B(s, "medium") \in Nat
                        /\ A(s, "low") \in Nat /\ B(s, "low") \in Nat
                        /\ B(s, "high") <= A(s, "high")
                        /\ B(s, "medium") <= A(s, "medium")
                        /\ B(s, "low") <= A(s, "low")
  BY <1>1
<1> DEFINE AA(s) == A(s, "high") + A(s, "medium") + A(s, "low")
           BB(s) == B(s, "high") + B(s, "medium") + B(s, "low")
<1>5. \A s \in Severe : AA(s) \in Nat /\ BB(s) \in Nat /\ BB(s) <= AA(s)
  BY <1>4
<1>6. /\ CategoryPenalty(F, category) = AA("critical") + AA("high") + AA("medium") + AA("low") + AA("info")
      /\ CategoryPenalty(G, category) = BB("critical") + BB("high") + BB("medium") + BB("low") + BB("info")
  BY <1>2, <1>3
<1> HIDE DEF AA, BB
<1> QED
  BY <1>5, <1>6

LEMMA CategoryScoreFalls ==
    ASSUME NEW F, IsFiniteSet(F), NEW G \in SUBSET F, NEW category \in Categories,
           NEW files \in Nat
    PROVE  /\ CategoryScore(F, category, files) \in Nat
           /\ CategoryScore(G, category, files) \in Nat
           /\ CategoryScore(F, category, files) <= CategoryScore(G, category, files)
<1> DEFINE policy == Policies[category]
           d == IF policy.sizeNormalised THEN SizeDivisor(files) ELSE 100
           k == policy.sensitivity
           a == CategoryPenalty(F, category)
           b == CategoryPenalty(G, category)
<1>1. k \in Nat
  BY DEF Policies, Policy, Categories
<1>2. d \in Nat \ {0}
  BY DivisorIsPositive
<1>3. a \in Nat /\ b \in Nat /\ b <= a
  BY PenaltyGrows
<1>4. /\ CategoryScore(F, category, files) = RoundedQuotient(100 * 40 * d, 40 * d + k * a)
      /\ CategoryScore(G, category, files) = RoundedQuotient(100 * 40 * d, 40 * d + k * b)
  BY DEF CategoryScore
<1> HIDE DEF d, k, a, b
<1>5. k * a \in Nat /\ k * b \in Nat /\ k * b <= k * a
  BY <1>1, <1>3
<1>6. PICK n \in Nat : n = 100 * 40 * d /\ n <= n
  BY <1>2
<1>7. PICK x \in Nat \ {0} : x = 40 * d + k * a
  BY <1>2, <1>5
<1>8. PICK y \in Nat \ {0} : y = 40 * d + k * b
  BY <1>2, <1>5
<1>9. y <= x
  BY <1>2, <1>5, <1>7, <1>8
<1>10. /\ RoundedQuotient(n, x) \in Nat /\ RoundedQuotient(n, y) \in Nat
       /\ RoundedQuotient(n, x) <= RoundedQuotient(n, y)
  BY <1>6, <1>9, RoundingGrows
<1> QED
  BY <1>4, <1>6, <1>7, <1>8, <1>10

LEMMA AverageRises ==
    ASSUME NEW F, IsFiniteSet(F), NEW G \in SUBSET F, NEW files \in Nat
    PROVE  /\ Average(F, files) \in Nat /\ Average(G, files) \in Nat
           /\ Average(F, files) <= Average(G, files)
<1> DEFINE A(c) == Weight(c) * CategoryScore(F, c, files)
           B(c) == Weight(c) * CategoryScore(G, c, files)
<1>1. ASSUME NEW c \in Categories PROVE A(c) \in Nat /\ B(c) \in Nat /\ A(c) <= B(c)
  <2>1. Weight(c) \in Nat
    BY DEF Weight, Policies, Policy, Categories
  <2> DEFINE w == Weight(c)
             a == CategoryScore(F, c, files)
             b == CategoryScore(G, c, files)
  <2>2. w \in Nat /\ a \in Nat /\ b \in Nat /\ a <= b
    BY <2>1, CategoryScoreFalls
  <2> HIDE DEF w, a, b
  <2>3. w * a \in Nat /\ w * b \in Nat /\ w * a <= w * b
    BY <2>2
  <2> QED
    BY <2>3 DEF w, a, b
<1>2. OverCategories(Weight) = 29
  BY DEF OverCategories, Weight, Policies, Policy
<1>3. /\ Average(F, files) = RoundedQuotient(OverCategories(A), OverCategories(Weight))
      /\ Average(G, files) = RoundedQuotient(OverCategories(B), OverCategories(Weight))
  BY DEF Average
<1> HIDE DEF A, B
<1>4. /\ OverCategories(A) \in Nat /\ OverCategories(B) \in Nat
      /\ OverCategories(A) <= OverCategories(B)
  BY <1>1 DEF OverCategories, Categories
<1> QED
  BY <1>2, <1>3, <1>4, RoundingGrows

LEMMA ScoreRises ==
    ASSUME NEW F, F \subseteq Catalogue, IsFiniteSet(F), NEW G \in SUBSET F, NEW files \in Nat
    PROVE  ScoreValue(G, files) >= ScoreValue(F, files)
<1>1. PICK a \in Int : a = Average(F, files)
  BY AverageRises
<1>2. PICK b \in Int : b = Average(G, files)
  BY AverageRises
<1>3. a <= b
  BY <1>1, <1>2, AverageRises
<1>4. G \subseteq Catalogue
  OBVIOUS
<1>5. PICK c \in Int : c = Cap(F)
  BY CapIsCeiling
<1>6. PICK d \in Int : d = Cap(G)
  BY <1>4, CapIsCeiling
<1>7. c <= d
  <2>1. d \in Ceilings(G)
    BY <1>4, <1>6, CapIsCeiling
  <2>2. Ceilings(G) \subseteq Ceilings(F)
    BY DEF Ceilings
  <2> QED
    BY <1>5, <2>1, <2>2, CapIsCeiling
<1>8. ScoreValue(F, files) = Min({a, c}) /\ ScoreValue(G, files) = Min({b, d})
  BY <1>1, <1>2, <1>5, <1>6 DEF ScoreValue
<1>9. Min({a, c}) = IF a <= c THEN a ELSE c
  BY MinOfTwo
<1>10. Min({b, d}) = IF b <= d THEN b ELSE d
  BY MinOfTwo
<1> QED
  BY <1>3, <1>7, <1>8, <1>9, <1>10

LEMMA ScoreIsBelowCap ==
    ASSUME NEW F, F \subseteq Catalogue, IsFiniteSet(F), NEW files \in Nat
    PROVE  ScoreValue(F, files) \in Int /\ ScoreValue(F, files) <= Cap(F)
<1>1. Average(F, files) \in Int /\ Cap(F) \in Int
  BY AverageRises, CapIsCeiling
<1> QED
  BY <1>1, MinOfTwo DEF ScoreValue

LEMMA LowIsF ==
    ASSUME NEW v \in Int, v <= 39
    PROVE  GradeFor(v) = "F"
<1> DEFINE a == v >= 90
           b == v >= 80 /\ v < 90
           c == v >= 70 /\ v < 80
           d == v >= 60 /\ v < 70
           e == v < 60
<1>1. GradeFor(v) = CASE a -> "A" [] b -> "B" [] c -> "C" [] d -> "D" [] e -> "F"
  BY DEF GradeFor
<1>2. ~ a /\ ~ b /\ ~ c /\ ~ d /\ e
  OBVIOUS
<1> HIDE DEF a, b, c, d, e
<1> QED
  BY <1>1, <1>2

-----------------------------------------------------------------------------
(* Sorting: placing each element by the number of those before it puts     *)
(* every element of a finite set, strictly ordered by R, in its place.     *)
Preceding(S, R, x) == {y \in S : <<y, x>> \in R}

StrictlyOrders(R, S) ==
    /\ \A x \in S : <<x, x>> \notin R
    /\ \A x, y, z \in S : <<x, y>> \in R /\ <<y, z>> \in R => <<x, z>> \in R
    /\ \A x, y \in S : x # y => <<x, y>> \in R \/ <<y, x>> \in R

LEMMA RankIsNumber ==
    ASSUME NEW S, IsFiniteSet(S), NEW R, NEW x
    PROVE  IsFiniteSet(Preceding(S, R, x)) /\ Cardinality(Preceding(S, R, x)) \in Nat
<1>1. Preceding(S, R, x) \subseteq S
  BY DEF Preceding
<1> QED
  BY <1>1, FS_Subset, FS_CardinalityType

LEMMA RanksAreInOrder ==
    ASSUME NEW S, IsFiniteSet(S), NEW R, StrictlyOrders(R, S),
           NEW x \in S, NEW y \in S, <<x, y>> \in R
    PROVE  /\ Cardinality(Preceding(S, R, x)) \in Nat
           /\ Cardinality(Preceding(S, R, y)) \in Nat
           /\ Cardinality(Preceding(S, R, x)) < Cardinality(Preceding(S, R, y))
<1> DEFINE A == Preceding(S, R, x)
           B == Preceding(S, R, y)
<1>1. A \subseteq B
  BY DEF Preceding, StrictlyOrders
<1>2. x \in B /\ x \notin A
  BY DEF Preceding, StrictlyOrders
<1>3. IsFiniteSet(B) /\ IsFiniteSet(A)
  BY RankIsNumber
<1> HIDE DEF A, B
<1>4. Cardinality(A) <= Cardinality(B) /\ Cardinality(A) # Cardinality(B)
  BY <1>1, <1>2, <1>3, FS_Subset
<1>5. Cardinality(A) \in Nat /\ Cardinality(B) \in Nat
  BY <1>3, FS_CardinalityType
<1> QED
  BY <1>4, <1>5 DEF A, B

LEMMA EveryRankIsTaken ==
    ASSUME NEW S, IsFiniteSet(S), NEW R, StrictlyOrders(R, S)
    PROVE  /\ Cardinality(S) \in Nat
           /\ \A x \in S : Cardinality(Preceding(S, R, x)) + 1 \in 1..Cardinality(S)
           /\ \A i \in 1..Cardinality(S) : \E x \in S : Cardinality(Preceding(S, R, x)) = i - 1
<1> DEFINE rank == [x \in S |-> Cardinality(Preceding(S, R, x)) + 1]
           n == Cardinality(S)
<1>1. n \in Nat
  BY FS_CardinalityType
<1>2. ASSUME NEW x \in S PROVE Cardinality(Preceding(S, R, x)) + 1 \in 1..n
  <2>1. Preceding(S, R, x) \subseteq S \ {x}
    BY DEF Preceding, StrictlyOrders
  <2>2. IsFiniteSet(S \ {x}) /\ Cardinality(S \ {x}) = n - 1
    BY FS_RemoveElement
  <2>3. Cardinality(Preceding(S, R, x)) \in Nat /\ Cardinality(Preceding(S, R, x)) <= n - 1
    BY <2>1, <2>2, FS_Subset, FS_CardinalityType
  <2> QED
    BY <1>1, <2>3
<1>3. rank \in [S -> 1..n]
  BY <1>2
<1>4. IsInjective(rank)
  <2>1. ASSUME NEW x \in S, NEW y \in S, rank[x] = rank[y] PROVE x = y
    <3>1. Cardinality(Preceding(S, R, x)) = Cardinality(Preceding(S, R, y))
      <4>1. PICK a \in Int : a = Cardinality(Preceding(S, R, x))
        BY RankIsNumber
      <4>2. PICK b \in Int : b = Cardinality(Preceding(S, R, y))
        BY RankIsNumber
      <4>3. a + 1 = b + 1
        BY <2>1, <4>1, <4>2
      <4> QED
        BY <4>1, <4>2, <4>3
    <3>2. <<x, y>> \notin R /\ <<y, x>> \notin R
      BY <3>1, RanksAreInOrder
    <3> QED
      BY <3>2 DEF StrictlyOrders
  <2> QED
    BY <2>1 DEF IsInjective
<1>5. rank \in Injection(S, 1..n)
  BY <1>3, <1>4 DEF Injection
<1>6. IsFiniteSet(1..n) /\ Cardinality(1..n) = n
  BY <1>1, FS_Interval
<1>7. rank \in Surjection(S, 1..n)
  BY <1>5, <1>6, FS_Injection
<1>8. ASSUME NEW i \in 1..n PROVE \E x \in S : Cardinality(Preceding(S, R, x)) = i - 1
  <2>1. PICK x \in S : rank[x] = i
    BY <1>7 DEF Surjection
  <2>2. PICK a \in Int : a = Cardinality(Preceding(S, R, x))
    BY RankIsNumber
  <2>3. a + 1 = i
    BY <2>1, <2>2
  <2> QED
    BY <2>2, <2>3
<1> QED
  BY <1>1, <1>2, <1>8

Sorts(q, S, R) ==
    /\ q \in Seq(S) /\ Len(q) = Cardinality(S)
    /\ S = {q[i] : i \in 1..Cardinality(S)}
    /\ \A i, j \in 1..Cardinality(S) : i < j => <<q[i], q[j]>> \in R

LEMMA Sorting ==
    ASSUME NEW S, IsFiniteSet(S), NEW R, StrictlyOrders(R, S), NEW q,
           q = [i \in 1..Cardinality(S) |-> q[i]],
           \A i \in 1..Cardinality(S) :
              (\E x \in S : Cardinality(Preceding(S, R, x)) = i - 1)
                 => q[i] \in S /\ Cardinality(Preceding(S, R, q[i])) = i - 1
    PROVE  Sorts(q, S, R)
<1> DEFINE n == Cardinality(S)
           rank(x) == Cardinality(Preceding(S, R, x))
<1>1. n \in Nat
  BY EveryRankIsTaken
<1>2. \A i \in 1..n : q[i] \in S /\ rank(q[i]) = i - 1
  BY EveryRankIsTaken
<1> HIDE DEF n, rank
<1>3. q \in Seq(S) /\ Len(q) = n
  BY <1>1, <1>2 DEF n
<1>4. ASSUME NEW i \in 1..n, NEW j \in 1..n, i < j PROVE <<q[i], q[j]>> \in R
  <2>1. q[i] \in S /\ q[j] \in S /\ rank(q[i]) = i - 1 /\ rank(q[j]) = j - 1
    BY <1>2
  <2>2. q[i] # q[j]
    BY <1>1, <1>4, <2>1
  <2>3. ~ (j - 1 < i - 1)
    BY <1>1, <1>4
  <2>4. ~ (rank(q[j]) < rank(q[i]))
    BY <2>1, <2>3
  <2>5. <<q[j], q[i]>> \notin R
    BY <2>1, <2>4, RanksAreInOrder DEF rank
  <2> QED
    BY <2>1, <2>2, <2>5 DEF StrictlyOrders
<1>5. ASSUME NEW x \in S PROVE \E i \in 1..n : q[i] = x
  <2>1. PICK i \in 1..n : i = rank(x) + 1
    BY EveryRankIsTaken DEF rank, n
  <2>2. rank(x) \in Int
    BY RankIsNumber DEF rank
  <2>3. q[i] \in S /\ rank(q[i]) = rank(x)
    BY <1>2, <2>1, <2>2
  <2>4. ~ (rank(q[i]) < rank(x)) /\ ~ (rank(x) < rank(q[i]))
    BY <2>2, <2>3
  <2>5. <<x, q[i]>> \notin R /\ <<q[i], x>> \notin R
    BY <2>3, <2>4, RanksAreInOrder DEF rank
  <2> QED
    BY <2>3, <2>5 DEF StrictlyOrders
<1>6. S = {q[i] : i \in 1..n}
  BY <1>2, <1>5
<1> QED
  BY <1>3, <1>4, <1>6, Zenon DEF Sorts, n

(* The first k of a sorted set.                                            *)
FirstOf(p, k) == ToSet(SubSeq(p, 1, Min({k, Len(p)})))

LEMMA FirstOfSorted ==
    ASSUME NEW S, IsFiniteSet(S), NEW R, StrictlyOrders(R, S), NEW p, Sorts(p, S, R),
           NEW k \in Nat
    PROVE  /\ FirstOf(p, k) \subseteq S
           /\ \A t \in FirstOf(p, k), d \in S \ FirstOf(p, k) : <<t, d>> \in R
           /\ Cardinality(FirstOf(p, k)) = Min({k, Cardinality(S)})
<1> DEFINE n == Cardinality(S)
           m == Min({k, n})
           T == FirstOf(p, k)
<1>1. p \in Seq(S) /\ Len(p) = n /\ n \in Nat
  BY FS_CardinalityType DEF Sorts
<1>2. S = {p[i] : i \in 1..n} /\ \A i, j \in 1..n : i < j => <<p[i], p[j]>> \in R
  BY DEF Sorts
<1>3. m \in Nat /\ m <= n
  <2>1. PICK l \in Nat : l = n
    BY <1>1
  <2>2. Min({k, l}) = IF k <= l THEN k ELSE l
    <3>1. k \in Int /\ l \in Int
      OBVIOUS
    <3> QED
      BY <3>1, MinOfTwo, Zenon
  <2> QED
    BY <2>1, <2>2
<1>4. T = ToSet(SubSeq(p, 1, m))
  BY <1>1 DEF FirstOf
<1> HIDE DEF m, n, T
<1>5. T = {p[i] : i \in 1..m}
  <2>1. DOMAIN SubSeq(p, 1, m) = 1..m /\ \A i \in 1..m : SubSeq(p, 1, m)[i] = p[i]
    BY <1>1, <1>3
  <2> QED
    BY <1>4, <2>1 DEF ToSet
<1>6. \A i \in 1..m : i \in 1..n
  BY <1>1, <1>3
<1>7. T \subseteq S
  BY <1>2, <1>5, <1>6
<1>8. ASSUME NEW t \in T, NEW d \in S \ T PROVE <<t, d>> \in R
  <2>1. PICK i \in 1..m : t = p[i]
    BY <1>5
  <2>2. PICK j \in 1..n : d = p[j]
    BY <1>2
  <2>3. j \notin 1..m
    BY <1>5, <2>2
  <2>4. i < j /\ i \in 1..n
    BY <1>1, <1>3, <2>3
  <2> QED
    BY <1>2, <2>1, <2>2, <2>4
<1>9. Cardinality(T) = m
  <2> DEFINE q == [i \in 1..m |-> p[i]]
  <2>1. q \in [1..m -> T]
    BY <1>5
  <2>2. IsInjective(q)
    <3>1. ASSUME NEW i \in 1..m, NEW j \in 1..m, i < j PROVE p[i] # p[j]
      <4>1. <<p[i], p[j]>> \in R /\ p[i] \in S
        BY <1>2, <1>6, <3>1
      <4> QED
        BY <4>1 DEF StrictlyOrders
    <3>2. ASSUME NEW i \in 1..m, NEW j \in 1..m, p[i] = p[j] PROVE i = j
      <4>1. i < j \/ j < i \/ i = j
        BY <1>3
      <4> QED
        BY <3>1, <3>2, <4>1
    <3> QED
      BY <3>2 DEF IsInjective
  <2>3. q \in Bijection(1..m, T)
    <3>1. \A t \in T : \E i \in 1..m : q[i] = t
      BY <1>5
    <3> QED
      BY <2>1, <2>2, <3>1 DEF Bijection, Injection, Surjection
  <2>4. ExistsBijection(1..m, T)
    BY <2>3 DEF ExistsBijection
  <2> QED
    BY <1>3, <2>4, FS_CountingElements
<1> QED
  BY <1>7, <1>8, <1>9 DEF m, n, T

(* Comparing two keys of three numbers, one after the other.               *)
Lexically(a, b, c, x, y, z) == a > x \/ (a = x /\ (b < y \/ (b = y /\ c < z)))

LEMMA LexicallyIsStrict ==
    ASSUME NEW a \in Int, NEW b \in Int, NEW c \in Int, NEW x \in Int, NEW y \in Int, NEW z \in Int
    PROVE  /\ ~ Lexically(a, b, c, a, b, c)
           /\ c # z => Lexically(a, b, c, x, y, z) \/ Lexically(x, y, z, a, b, c)
<1>1. ~ Lexically(a, b, c, a, b, c)
  BY DEF Lexically
<1>2. c # z => Lexically(a, b, c, x, y, z) \/ Lexically(x, y, z, a, b, c)
  BY DEF Lexically
<1> QED
  BY <1>1, <1>2

LEMMA LexicallyGoesOn ==
    ASSUME NEW a \in Int, NEW b \in Int, NEW c \in Int, NEW x \in Int, NEW y \in Int, NEW z \in Int,
           NEW k \in Int, NEW l \in Int, NEW m \in Int,
           Lexically(a, b, c, x, y, z), Lexically(x, y, z, k, l, m)
    PROVE  Lexically(a, b, c, k, l, m)
  BY DEF Lexically

(* A set ordered by three numbers of each member, the last of them its own.*)
Keyed(S, a, b, c) ==
    {e \in S \X S : Lexically(a[e[1]], b[e[1]], c[e[1]], a[e[2]], b[e[2]], c[e[2]])}

LEMMA KeysOrder ==
    ASSUME NEW S, NEW a \in [S -> Int], NEW b \in [S -> Int], NEW c \in [S -> Int],
           \A x, y \in S : c[x] = c[y] => x = y
    PROVE  StrictlyOrders(Keyed(S, a, b, c), S)
<1>1. \A x, y : <<x, y>> \in Keyed(S, a, b, c) <=>
                   x \in S /\ y \in S /\ Lexically(a[x], b[x], c[x], a[y], b[y], c[y])
  BY DEF Keyed
<1>2. \A x \in S : a[x] \in Int /\ b[x] \in Int /\ c[x] \in Int
  OBVIOUS
<1>3. ASSUME NEW x \in S, NEW y \in S
      PROVE  /\ ~ Lexically(a[x], b[x], c[x], a[x], b[x], c[x])
             /\ x # y => \/ Lexically(a[x], b[x], c[x], a[y], b[y], c[y])
                         \/ Lexically(a[y], b[y], c[y], a[x], b[x], c[x])
  <2>1. /\ a[x] \in Int /\ b[x] \in Int /\ c[x] \in Int
        /\ a[y] \in Int /\ b[y] \in Int /\ c[y] \in Int
    BY <1>2, Zenon
  <2>2. x # y => c[x] # c[y]
    OBVIOUS
  <2> QED
    BY <2>1, <2>2, LexicallyIsStrict, Zenon
<1>4. ASSUME NEW x \in S, NEW y \in S, NEW z \in S,
             Lexically(a[x], b[x], c[x], a[y], b[y], c[y]),
             Lexically(a[y], b[y], c[y], a[z], b[z], c[z])
      PROVE  Lexically(a[x], b[x], c[x], a[z], b[z], c[z])
  <2>1. /\ a[x] \in Int /\ b[x] \in Int /\ c[x] \in Int
        /\ a[y] \in Int /\ b[y] \in Int /\ c[y] \in Int
        /\ a[z] \in Int /\ b[z] \in Int /\ c[z] \in Int
    BY <1>2, Zenon
  <2> QED
    BY <1>4, <2>1, LexicallyGoesOn, Zenon
<1> QED
  BY <1>1, <1>3, <1>4, Zenon DEF StrictlyOrders

LEMMA PriorityIsNumber ==
    ASSUME NEW f \in Catalogue
    PROVE  ComputePriority(f) \in Nat /\ SeverityRank(f) \in 1..5 /\ FindingPenalty(f) \in Nat
<1>1. PICK s \in Nat : s = SeverityWeight[f.severity]
  BY Ladders DEF SeverityWeight
<1>2. PICK c \in Nat : c = PriorityConfidence[f.confidence]
  BY Ladders DEF PriorityConfidence
<1>3. PICK l \in Nat : l = Leverage[f.category]
  BY Ladders DEF Leverage, Categories
<1>4. ComputePriority(f) \in Nat
  <2>1. s * c \in Nat
    BY <1>1, <1>2
  <2>2. s * c * l \in Nat
    BY <2>1, <1>3
  <2>3. RoundedQuotient(s * c * l, 4000) \in Nat
    BY <2>2, RoundingGrows
  <2> QED
    BY <1>1, <1>2, <1>3, <2>3 DEF ComputePriority
<1>5. SeverityRank(f) \in 1..5
  <2>1. DOMAIN Severities = 1..5
    BY DEF Severities
  <2>2. \E i \in 1..5 : Severities[i] = f.severity
    BY Ladders DEF Severities
  <2> QED
    BY <2>1, <2>2 DEF SeverityRank
<1>6. FindingPenalty(f) \in Nat
  <2>1. PICK k \in Nat : k = ConfidenceFactor[f.confidence]
    BY Ladders DEF ConfidenceFactor
  <2>2. s * k \in Nat
    BY <1>1, <2>1
  <2> QED
    BY <1>1, <2>1, <2>2 DEF FindingPenalty
<1> QED
  BY <1>4, <1>5, <1>6

Heavier(f, g) ==
    \/ FindingPenalty(f) > FindingPenalty(g)
    \/ FindingPenalty(f) = FindingPenalty(g) /\ f.place < g.place

Zeros(F) == [f \in F |-> 0]
Places(F) == [f \in F |-> f.place]
BeforeIn(F) == Keyed(F, [f \in F |-> ComputePriority(f)], [f \in F |-> SeverityRank(f)], Places(F))
HeavierIn(F) == Keyed(F, [f \in F |-> FindingPenalty(f)], Zeros(F), Places(F))

LEMMA FindingsAreOrdered ==
    ASSUME NEW F, F \subseteq Catalogue
    PROVE  /\ StrictlyOrders(BeforeIn(F), F) /\ StrictlyOrders(HeavierIn(F), F)
           /\ \A f, g \in F : /\ <<f, g>> \in BeforeIn(F) <=> Before(f, g)
                              /\ <<f, g>> \in HeavierIn(F) <=> Heavier(f, g)
<1> DEFINE a == [f \in F |-> ComputePriority(f)]
           b == [f \in F |-> SeverityRank(f)]
           w == [f \in F |-> FindingPenalty(f)]
<1>1. /\ a \in [F -> Int] /\ b \in [F -> Int] /\ w \in [F -> Int]
      /\ Zeros(F) \in [F -> Int] /\ Places(F) \in [F -> Int]
  BY PriorityIsNumber, Ladders DEF Zeros, Places
<1>2. \A f, g \in F : Places(F)[f] = Places(F)[g] => f = g
  BY CatalogueAssumption DEF Places
<1>3. ASSUME NEW f \in F, NEW g \in F
      PROVE  /\ <<f, g>> \in BeforeIn(F) <=> Before(f, g)
             /\ <<f, g>> \in HeavierIn(F) <=> Heavier(f, g)
  <2>1. <<f, g>> \in BeforeIn(F) <=>
            Lexically(ComputePriority(f), SeverityRank(f), f.place,
                      ComputePriority(g), SeverityRank(g), g.place)
    BY DEF BeforeIn, Keyed, Places
  <2>2. Before(f, g) <=> Lexically(ComputePriority(f), SeverityRank(f), f.place,
                                   ComputePriority(g), SeverityRank(g), g.place)
    BY Zenon DEF Before, Lexically
  <2>3. <<f, g>> \in HeavierIn(F) <=>
            Lexically(FindingPenalty(f), 0, f.place, FindingPenalty(g), 0, g.place)
    BY DEF HeavierIn, Keyed, Places, Zeros
  <2>4. Heavier(f, g) <=> Lexically(FindingPenalty(f), 0, f.place, FindingPenalty(g), 0, g.place)
    BY DEF Heavier, Lexically
  <2> QED
    BY <2>1, <2>2, <2>3, <2>4, Zenon
<1>4. BeforeIn(F) = Keyed(F, a, b, Places(F)) /\ HeavierIn(F) = Keyed(F, w, Zeros(F), Places(F))
  BY DEF BeforeIn, HeavierIn
<1> HIDE DEF a, b, w
<1>5. StrictlyOrders(BeforeIn(F), F) /\ StrictlyOrders(HeavierIn(F), F)
  BY <1>1, <1>2, <1>4, KeysOrder
<1> QED
  BY <1>3, <1>5, Zenon

LEMMA PrioritiseSorts ==
    ASSUME NEW F, F \subseteq Catalogue, IsFiniteSet(F)
    PROVE  Sorts(Prioritise(F), F, BeforeIn(F)) /\ ToSet(ByPenalty(F)) = F
<1>1. ASSUME NEW x \in F
      PROVE  /\ Preceding(F, BeforeIn(F), x) = {y \in F : Before(y, x)}
             /\ Preceding(F, HeavierIn(F), x) = {y \in F : Heavier(y, x)}
  BY FindingsAreOrdered DEF Preceding
<1> DEFINE n == Cardinality(F)
           p == Prioritise(F)
           b == ByPenalty(F)
           First(i) == CHOOSE x \in F : Cardinality({y \in F : Before(y, x)}) = i - 1
           Heavy(i) == CHOOSE x \in F : Cardinality({y \in F : Heavier(y, x)}) = i - 1
<1>2. p = [i \in 1..n |-> First(i)] /\ b = [i \in 1..n |-> Heavy(i)]
  BY DEF Prioritise, ByPenalty, InOrder, Heavier
<1>3. ASSUME NEW i \in 1..n, NEW x \in F, Cardinality(Preceding(F, BeforeIn(F), x)) = i - 1
      PROVE  First(i) \in F /\ Cardinality(Preceding(F, BeforeIn(F), First(i))) = i - 1
  <2>1. Cardinality({y \in F : Before(y, x)}) = i - 1
    BY <1>1, <1>3
  <2>2. First(i) \in F /\ Cardinality({y \in F : Before(y, First(i))}) = i - 1
    BY <2>1, Zenon
  <2> QED
    BY <1>1, <2>2
<1>4. ASSUME NEW i \in 1..n, NEW x \in F, Cardinality(Preceding(F, HeavierIn(F), x)) = i - 1
      PROVE  Heavy(i) \in F /\ Cardinality(Preceding(F, HeavierIn(F), Heavy(i))) = i - 1
  <2>1. Cardinality({y \in F : Heavier(y, x)}) = i - 1
    BY <1>1, <1>4
  <2>2. Heavy(i) \in F /\ Cardinality({y \in F : Heavier(y, Heavy(i))}) = i - 1
    BY <2>1, Zenon
  <2> QED
    BY <1>1, <2>2
<1> HIDE DEF First, Heavy, p, b
<1>5. Sorts(p, F, BeforeIn(F))
  <2>1. p = [i \in 1..n |-> p[i]] /\ \A i \in 1..n : p[i] = First(i)
    BY <1>2
  <2>2. \A i \in 1..n : (\E x \in F : Cardinality(Preceding(F, BeforeIn(F), x)) = i - 1)
                 => p[i] \in F /\ Cardinality(Preceding(F, BeforeIn(F), p[i])) = i - 1
    BY <1>3, <2>1
  <2> QED
    BY <2>1, <2>2, FindingsAreOrdered, Sorting
<1>6. Sorts(b, F, HeavierIn(F))
  <2>1. b = [i \in 1..n |-> b[i]] /\ \A i \in 1..n : b[i] = Heavy(i)
    BY <1>2
  <2>2. \A i \in 1..n : (\E x \in F : Cardinality(Preceding(F, HeavierIn(F), x)) = i - 1)
                 => b[i] \in F /\ Cardinality(Preceding(F, HeavierIn(F), b[i])) = i - 1
    BY <1>4, <2>1
  <2> QED
    BY <2>1, <2>2, FindingsAreOrdered, Sorting
<1>7. ToSet(b) = F
  <2>1. DOMAIN b = 1..n
    BY <1>2
  <2> QED
    BY <1>6, <2>1 DEF Sorts, ToSet
<1> QED
  BY <1>5, <1>7 DEF p, b

(* The cut: the first findings of the order, MaxFindings of them.          *)
LEMMA KeptAreFirst ==
    ASSUME NEW F, F \subseteq Catalogue, IsFiniteSet(F)
    PROVE  /\ ToSet(Kept(F)) \subseteq F
           /\ \A k \in ToSet(Kept(F)), d \in F \ ToSet(Kept(F)) : Before(k, d)
           /\ F # {} => ToSet(Kept(F)) # {}
<1> DEFINE p == Prioritise(F)
           T == ToSet(Kept(F))
<1>1. T = FirstOf(p, MaxFindings)
  BY PrioritiseSorts DEF Kept, FirstOf
<1>2. StrictlyOrders(BeforeIn(F), F) /\ Sorts(p, F, BeforeIn(F)) /\ MaxFindings \in Nat
  BY PrioritiseSorts, FindingsAreOrdered, MaxFindingsAssumption
<1> HIDE DEF p, T
<1>3. T \subseteq F /\ Cardinality(T) = Min({MaxFindings, Cardinality(F)})
  BY <1>1, <1>2, FirstOfSorted
<1>4. \A t \in T, d \in F \ T : <<t, d>> \in BeforeIn(F)
  BY <1>1, <1>2, FirstOfSorted
<1>5. F # {} => T # {}
  <2>1. ASSUME F # {} PROVE Cardinality(T) # 0
    <3>1. Cardinality(F) \in Nat \ {0}
      BY <2>1, FS_EmptySet, FS_CardinalityType
    <3>2. PICK n \in Nat \ {0} : n = Cardinality(F)
      BY <3>1
    <3> QED
      BY <1>3, <3>2, MinOfTwo, MaxFindingsAssumption
  <2> QED
    BY <2>1, FS_EmptySet
<1>6. \A t \in T, d \in F \ T : Before(t, d)
  BY <1>3, <1>4, FindingsAreOrdered
<1> QED
  BY <1>3, <1>5, <1>6 DEF T

-----------------------------------------------------------------------------
(* The run of an analysis.                                                 *)

(* An analysis does with its archive what an extraction does, and nothing  *)
(* more: what holds of every extraction holds of every analysis            *)
(* (AnalysisRunner._analyse calls extract_zip or extract_tarball once).    *)
THEOREM AnalysisExtracts == Spec => ExtractionSpec
<1>1. Init => ArchiveInit
  BY DEF Init
<1>2. ASSUME [Next]_vars PROVE [ExtractionStep]_archiveVars
  <2>1. CASE UNCHANGED vars
    BY <2>1 DEF vars
  <2>2. CASE Extract
    BY <2>2 DEF Extract
  <2>3. CASE ExtractionFails \/ BuildSnapshot \/ StartRules
    BY <2>3 DEF ExtractionFails, BuildSnapshot, StartRules
  <2>4. CASE RunRule \/ AnalysisTimesOut
    BY <2>4 DEF RunRule, AnalysisTimesOut
  <2>5. CASE MakeReport
    BY <2>5, Zenon DEF MakeReport
  <2> QED
    BY <1>2, <2>1, <2>2, <2>3, <2>4, <2>5 DEF Next
<1> QED
  BY <1>1, <1>2, PTL DEF Spec, ExtractionSpec

(* The report contains what was kept of what was collected, and its score  *)
(* is of these findings.                                                   *)
ReportIsOfTheKept ==
    stage = "reported" =>
       /\ report.findings = Kept(collected)
       /\ report.score = ComputeScore(ToSet(Kept(collected)), AnalysedFiles)

PipelineInv ==
    /\ collected \in SUBSET Catalogue
    /\ IsFiniteSet(snapshot)
    /\ ReportIsOfTheKept

LEMMA PipelineStep == PipelineInv /\ Stored /\ [Next]_vars => PipelineInv'
<1> SUFFICES ASSUME PipelineInv, Stored, [Next]_vars PROVE PipelineInv'
  OBVIOUS
<1>1. CASE UNCHANGED vars
  BY <1>1 DEF PipelineInv, ReportIsOfTheKept, AnalysedFiles, vars
<1>2. CASE Extract \/ ExtractionFails \/ StartRules \/ AnalysisTimesOut
  <2>1. /\ stage' # "reported" /\ collected' = collected /\ snapshot' = snapshot
    BY <1>2 DEF Extract, ExtractionFails, StartRules, AnalysisTimesOut
  <2> QED
    BY <2>1 DEF PipelineInv, ReportIsOfTheKept
<1>3. CASE BuildSnapshot
  <2>1. /\ stage' # "reported" /\ collected' = collected
        /\ snapshot' \subseteq DOMAIN disk
    BY <1>3 DEF BuildSnapshot
  <2>2. IsFiniteSet(snapshot')
    BY <2>1, FS_Subset DEF Stored
  <2> QED
    BY <2>1, <2>2 DEF PipelineInv, ReportIsOfTheKept
<1>4. CASE RunRule
  <2>1. /\ stage' # "reported" /\ snapshot' = snapshot
        /\ \E found \in SUBSET Reportable(Head(to_run)) : collected' = collected \cup found
    BY <1>4 DEF RunRule
  <2>2. Reportable(Head(to_run)) \subseteq Catalogue
    BY DEF Reportable
  <2> QED
    BY <2>1, <2>2 DEF PipelineInv, ReportIsOfTheKept
<1>5. CASE MakeReport
  <2>1. /\ collected' = collected /\ snapshot' = snapshot
        /\ report'.findings = Kept(collected)
        /\ report'.score = ComputeScore(ToSet(Kept(collected)), AnalysedFiles)
    BY <1>5 DEF MakeReport
  <2>2. AnalysedFiles' = AnalysedFiles
    BY <2>1 DEF AnalysedFiles
  <2> QED
    BY <2>1, <2>2 DEF PipelineInv, ReportIsOfTheKept
<1> QED
  BY <1>1, <1>2, <1>3, <1>4, <1>5 DEF Next

LEMMA PipelineInvariance == Spec => []PipelineInv
<1>1. Init => PipelineInv
  <2>1. ASSUME Init PROVE PipelineInv
    <3>1. stage # "reported" /\ collected = {} /\ snapshot = {}
      BY <2>1 DEF Init
    <3> QED
      BY <3>1, FS_EmptySet DEF PipelineInv, ReportIsOfTheKept
  <2> QED
    BY <2>1
<1>2. Inv => Stored
  BY DEF Inv
<1> QED
  BY <1>1, <1>2, PipelineStep, AnalysisExtracts, Invariance, PTL DEF Spec

(* What a report is made of.                                               *)
LEMMA InReportIsKept ==
    ASSUME PipelineInv, Reported
    PROVE  /\ InReport = ToSet(Kept(collected))
           /\ InReport \subseteq collected /\ InReport \subseteq Catalogue
           /\ IsFiniteSet(InReport) /\ IsFiniteSet(collected) /\ collected \subseteq Catalogue
           /\ AnalysedFiles \in Nat
           /\ report.score.value = ScoreValue(InReport, AnalysedFiles)
           /\ report.score.grade = GradeFor(ScoreValue(InReport, AnalysedFiles))
           /\ report.score.summary = Summary(InReport)
<1>1. collected \subseteq Catalogue /\ IsFiniteSet(collected)
  BY CatalogueAssumption, FS_Subset DEF PipelineInv
<1>2. InReport = ToSet(Kept(collected))
  BY DEF PipelineInv, ReportIsOfTheKept, Reported, InReport
<1>3. InReport \subseteq collected
  BY <1>1, <1>2, KeptAreFirst
<1>4. IsFiniteSet(InReport)
  BY <1>1, <1>3, FS_Subset
<1>5. AnalysedFiles \in Nat
  <2>1. {p \in snapshot : ShouldAnalyse(p)} \subseteq snapshot
    OBVIOUS
  <2>2. IsFiniteSet({p \in snapshot : ShouldAnalyse(p)})
    BY <2>1, FS_Subset DEF PipelineInv
  <2> QED
    BY <2>2, FS_CardinalityType DEF AnalysedFiles
<1>6. report.score = ComputeScore(InReport, AnalysedFiles)
  BY <1>2 DEF PipelineInv, ReportIsOfTheKept, Reported
<1> QED
  BY <1>1, <1>2, <1>3, <1>4, <1>5, <1>6 DEF ComputeScore

(* A capped grade says by what (scoring.compute_score and _summary).       *)
THEOREM CapsAreExplained == Spec => []CapIsExplained
<1>1. ASSUME PipelineInv, Reported, Cap(InReport) < 100
      PROVE  report.score.summary = "start with"
  BY <1>1, InReportIsKept, CapIsSaid
<1>2. PipelineInv => CapIsExplained
  BY <1>1 DEF CapIsExplained
<1> QED
  BY <1>2, PipelineInvariance, PTL

(* Accepting any of a report's findings leaves its score as it is or       *)
(* raises it (reports._mark with scoring.compute_score).                   *)
THEOREM AcceptingRaisesTheScore == Spec => []AcceptingNeverLowersScore
<1>1. ASSUME PipelineInv, Reported, NEW rest \in SUBSET InReport
      PROVE  ScoreValue(rest, AnalysedFiles) >= report.score.value
  BY <1>1, InReportIsKept, ScoreRises
<1>2. PipelineInv => AcceptingNeverLowersScore
  BY <1>1 DEF AcceptingNeverLowersScore
<1> QED
  BY <1>2, PipelineInvariance, PTL

(* What a priority can be.                                                 *)
LEMMA PriorityOf ==
    ASSUME NEW f \in Catalogue
    PROVE  /\ (/\ f.category \in Actionable
               /\ f.severity \in {"critical", "high", "medium"}
               /\ f.confidence \in {"high", "medium"}) => ComputePriority(f) >= 12
           /\ f.category = "metric" => ComputePriority(f) <= 10
           /\ Caps(f) /\ f.severity = "critical" => ComputePriority(f) = 100
           /\ ComputePriority(f) >= 100 => Caps(f) /\ f.severity = "critical"
<1>1. PICK s \in Nat : s = SeverityWeight[f.severity]
  BY Ladders DEF SeverityWeight
<1>2. PICK c \in Nat : c = PriorityConfidence[f.confidence]
  BY Ladders DEF PriorityConfidence
<1>3. PICK l \in Nat : l = Leverage[f.category]
  BY Ladders DEF Leverage, Categories
<1>4. PICK n \in Nat : n = s * c * l
  <2>1. PICK k \in Nat : k = s * c
    OBVIOUS
  <2>2. k * l \in Nat
    BY <2>1
  <2> QED
    BY <2>1, <2>2
<1>5. PICK p \in Nat : p = ComputePriority(f) /\ p = RoundedQuotient(n, 4000)
  <2>1. RoundedQuotient(n, 4000) \in Nat
    BY RoundingGrows
  <2> QED
    BY <1>1, <1>2, <1>3, <1>4, <2>1 DEF ComputePriority
<1>6. 8000 * p - 4000 <= 2 * n /\ 2 * n <= 8000 * p + 4000
  <2>1. LET q == RoundedQuotient(n, 4000)
        IN  2 * (q * 4000) - 4000 <= 2 * n /\ 2 * n <= 2 * (q * 4000) + 4000
    BY Rounding
  <2> QED
    BY <1>5, <2>1
<1>7. ASSUME f.category \in Actionable, f.severity \in {"critical", "high", "medium"},
             f.confidence \in {"high", "medium"}
      PROVE  p >= 12
  <2>1. s \in {40, 24, 12} /\ c \in {100, 55} /\ l \in {100, 85, 75}
    BY <1>1, <1>2, <1>3, <1>7 DEF SeverityWeight, PriorityConfidence, Leverage, Actionable
  <2>2. n >= 49500
    BY <1>4, <2>1
  <2> QED
    BY <1>5, <1>6, <2>2
<1>8. ASSUME f.category = "metric" PROVE p <= 10
  <2>1. l = 10
    BY <1>3, <1>8 DEF Leverage
  <2>2. s \in {40, 24, 12, 4, 1} /\ c \in {100, 55, 25}
    BY <1>1, <1>2, Ladders DEF SeverityWeight, PriorityConfidence
  <2>3. n <= 40000
    BY <1>4, <2>1, <2>2
  <2> QED
    BY <1>5, <1>6, <2>3
<1>9. ASSUME Caps(f), f.severity = "critical" PROVE p = 100
  <2>1. s = 40 /\ c = 100 /\ l = 100
    BY <1>1, <1>2, <1>3, <1>9
       DEF SeverityWeight, PriorityConfidence, Leverage, Caps, CappingCategories
  <2>2. n = 400000
    BY <1>4, <2>1
  <2> QED
    BY <1>5, <1>6, <2>2
<1>10. ASSUME p >= 100 PROVE Caps(f) /\ f.severity = "critical"
  <2>1. n >= 398000
    BY <1>5, <1>6, <1>10
  <2>2. s \in {40, 24, 12, 4, 1} /\ c \in {100, 55, 25} /\ l \in {100, 85, 75, 45, 40, 35, 30, 10}
    BY <1>1, <1>2, <1>3, Ladders DEF SeverityWeight, PriorityConfidence, Leverage, Categories
  <2>3. s = 40 /\ c = 100 /\ l = 100
    <3>1. s = 40
      <4>1. ASSUME s <= 24 PROVE FALSE
        <5>1. s * c <= 2400
          BY <2>2, <4>1
        <5> QED
          BY <1>4, <2>1, <2>2, <5>1
      <4> QED
        BY <2>2, <4>1
    <3>2. c = 100 /\ l = 100
      BY <1>4, <2>1, <2>2, <3>1
    <3> QED
      BY <3>1, <3>2
  <2>4. f.severity = "critical"
    BY <1>1, <2>3, Ladders DEF SeverityWeight
  <2>5. f.confidence = "high"
    BY <1>2, <2>3, Ladders DEF PriorityConfidence
  <2>6. f.category \in CappingCategories
    BY <1>3, <2>3, Ladders DEF Leverage, Categories, CappingCategories
  <2> QED
    BY <2>4, <2>5, <2>6 DEF Caps
<1>11. p = ComputePriority(f)
  BY <1>5
<1> QED
  BY <1>7, <1>8, <1>9, <1>10, <1>11, Zenon

LEMMA BeforeMeansNoLess ==
    ASSUME NEW f \in Catalogue, NEW g \in Catalogue, Before(f, g)
    PROVE  ComputePriority(f) >= ComputePriority(g)
<1>1. ComputePriority(f) \in Int /\ ComputePriority(g) \in Int
  BY PriorityIsNumber
<1>2. ComputePriority(f) > ComputePriority(g) \/ ComputePriority(f) = ComputePriority(g)
  BY Zenon DEF Before
<1> QED
  BY <1>1, <1>2

(* However many findings there are, the cut at max_findings keeps what     *)
(* matters: no measurement is kept while something to act on is dropped,   *)
(* and a proven critical finding caps the grade of the report although the *)
(* score is taken after the cut (AnalysisRunner._analyse).                 *)
THEOREM TheWorstSurvives == Spec => []WorstSurvivesTheCut
<1> DEFINE Serious(f) == /\ f.category \in Actionable
                         /\ f.severity \in {"critical", "high", "medium"}
                         /\ f.confidence \in {"high", "medium"}
<1>1. ASSUME PipelineInv, Reported, NEW d \in collected \ InReport, NEW k \in InReport
      PROVE  Before(k, d) /\ k \in Catalogue /\ d \in Catalogue
  <2>1. d \in collected \ ToSet(Kept(collected)) /\ k \in ToSet(Kept(collected))
    BY <1>1, InReportIsKept
  <2> QED
    BY <1>1, <2>1, InReportIsKept, KeptAreFirst
<1>2. ASSUME PipelineInv, Reported, NEW d \in collected \ InReport, NEW k \in InReport,
             Serious(d), k.category = "metric"
      PROVE  FALSE
  <2>1. ComputePriority(k) >= ComputePriority(d) /\ k \in Catalogue /\ d \in Catalogue
    BY <1>1, <1>2, BeforeMeansNoLess
  <2>2. ComputePriority(k) \in Int /\ ComputePriority(d) \in Int
    BY <2>1, PriorityIsNumber
  <2>3. ComputePriority(d) >= 12
    BY <1>2, <2>1, PriorityOf
  <2>4. ComputePriority(k) <= 10
    BY <1>2, <2>1, PriorityOf
  <2> QED
    BY <2>1, <2>2, <2>3, <2>4
<1>3. ASSUME PipelineInv, Reported, NEW f \in collected, Caps(f), f.severity = "critical"
      PROVE  report.score.value <= 39 /\ report.score.grade = "F"
  <2>1. \E k \in InReport : Caps(k) /\ k.severity = "critical"
    <3>1. CASE f \in InReport
      BY <1>3, <3>1
    <3>2. CASE f \notin InReport
      <4>1. PICK k \in InReport : TRUE
        BY <1>3, InReportIsKept, KeptAreFirst
      <4>2. ComputePriority(k) >= ComputePriority(f) /\ k \in Catalogue /\ f \in Catalogue
        BY <1>1, <1>3, <3>2, BeforeMeansNoLess
      <4>3. ComputePriority(f) = 100
        BY <1>3, <4>2, PriorityOf
      <4>4. ComputePriority(k) >= 100
        BY <4>2, <4>3
      <4> QED
        BY <4>2, <4>4, PriorityOf
    <3> QED
      BY <3>1, <3>2
  <2>2. 39 \in Ceilings(InReport)
    BY <2>1 DEF Ceilings, SeverityCap
  <2>3. Cap(InReport) <= 39 /\ Cap(InReport) \in Int
    BY <1>3, <2>2, InReportIsKept, CapIsCeiling
  <2>4. PICK v \in Int : v = ScoreValue(InReport, AnalysedFiles) /\ v <= Cap(InReport)
    BY <1>3, InReportIsKept, ScoreIsBelowCap
  <2>5. v <= 39
    BY <2>3, <2>4
  <2> QED
    BY <1>3, <2>4, <2>5, InReportIsKept, LowIsF
<1>4. PipelineInv => WorstSurvivesTheCut
  <2>1. ASSUME PipelineInv, Reported
        PROVE  \A d \in collected \ InReport, k \in InReport :
                  ~ (Serious(d) /\ k.category = "metric")
    BY <1>2, <2>1, Zenon
  <2>2. ASSUME PipelineInv, Reported
        PROVE  (\E f \in collected : Caps(f) /\ f.severity = "critical")
                  => report.score.value <= 39 /\ report.score.grade = "F"
    BY <1>3, <2>2, Zenon
  <2> QED
    BY <2>1, <2>2, Zenon DEF WorstSurvivesTheCut
<1> QED
  BY <1>4, PipelineInvariance, PTL

-----------------------------------------------------------------------------
(* The history.                                                            *)
LEMMA LeastIs ==
    ASSUME NEW S, S \subseteq Nat, S # {}
    PROVE  Min(S) \in S /\ \A y \in S : Min(S) <= y
<1>1. PICK m \in S : \A y \in S : m <= y
  BY Least, Zenon
<1>2. S \subseteq Int
  OBVIOUS
<1>3. Min(S) = m
  BY <1>1, <1>2, MinIs
<1> QED
  BY <1>1, <1>3

(* The files of a report's findings, one candidate each.                   *)
LEMMA CandidateIsOfWorst ==
    ASSUME NEW F, F \subseteq Catalogue, IsFiniteSet(F), NEW file \in AffectedFiles(F)
    PROVE  /\ Candidate(F, file).file = file
           /\ Candidate(F, file).findings \in Int
           /\ Candidate(F, file).rank \in Int
           /\ Candidate(F, file).place \in Int
           /\ \E f \in F : f.file = file /\ SeverityRank(f) = Candidate(F, file).rank
           /\ \A f \in F : f.file = file => Candidate(F, file).rank <= SeverityRank(f)
           /\ \E f \in F : f.file = file /\ f.place = Candidate(F, file).place
<1> DEFINE inFile == {f \in F : f.file = file}
           Ranks == {SeverityRank(f) : f \in inFile}
           OwnPlaces == {f.place : f \in inFile}
<1>1. inFile # {}
  BY DEF AffectedFiles
<1>2. Cardinality(inFile) \in Nat
  <2>1. inFile \subseteq F
    OBVIOUS
  <2> QED
    BY <2>1, FS_Subset, FS_CardinalityType
<1>3. Ranks \subseteq Nat /\ Ranks # {}
  BY <1>1, PriorityIsNumber
<1>4. OwnPlaces \subseteq Nat /\ OwnPlaces # {}
  BY <1>1, Ladders
<1>5. Min(Ranks) \in Ranks /\ \A y \in Ranks : Min(Ranks) <= y
  BY <1>3, LeastIs
<1>6. Min(OwnPlaces) \in OwnPlaces /\ \A y \in OwnPlaces : Min(OwnPlaces) <= y
  BY <1>4, LeastIs
<1>7. Candidate(F, file) = [file |-> file, findings |-> Cardinality(inFile),
                            rank |-> Min(Ranks), place |-> Min(OwnPlaces)]
  BY DEF Candidate
<1>8. \E f \in F : f.file = file /\ SeverityRank(f) = Min(Ranks)
  BY <1>5
<1>9. \A f \in F : f.file = file => Min(Ranks) <= SeverityRank(f)
  BY <1>5
<1>10. \E f \in F : f.file = file /\ f.place = Min(OwnPlaces)
  BY <1>6
<1>11. Min(Ranks) \in Int /\ Min(OwnPlaces) \in Int
  BY <1>3, <1>4, <1>5, <1>6
<1> HIDE DEF inFile, Ranks, OwnPlaces
<1> QED
  BY <1>2, <1>7, <1>8, <1>9, <1>10, <1>11

AllCandidates(F) == {Candidate(F, file) : file \in AffectedFiles(F)}

SoonerIn(F) == Keyed(AllCandidates(F), [c \in AllCandidates(F) |-> 0 - c.rank],
                                       [c \in AllCandidates(F) |-> 0 - c.findings],
                                       [c \in AllCandidates(F) |-> c.place])

LEMMA CandidatesDiffer ==
    ASSUME NEW F, F \subseteq Catalogue, IsFiniteSet(F)
    PROVE  /\ \A c \in AllCandidates(F) :
                 /\ c.file \in AffectedFiles(F) /\ c = Candidate(F, c.file)
                 /\ c.findings \in Int /\ c.rank \in Int /\ c.place \in Int
           /\ \A c, d \in AllCandidates(F) : c.file = d.file \/ c.place = d.place => c = d
<1>1. \A c \in AllCandidates(F) :
                 /\ c.file \in AffectedFiles(F) /\ c = Candidate(F, c.file)
                 /\ c.findings \in Int /\ c.rank \in Int /\ c.place \in Int
  BY CandidateIsOfWorst DEF AllCandidates
<1>2. ASSUME NEW c \in AllCandidates(F), NEW d \in AllCandidates(F), c.place = d.place
      PROVE  c = d
  <2>1. PICK f \in F : f.file = c.file /\ f.place = c.place
    BY <1>1, CandidateIsOfWorst
  <2>2. PICK g \in F : g.file = d.file /\ g.place = d.place
    BY <1>1, CandidateIsOfWorst
  <2>3. f = g
    BY <1>2, <2>1, <2>2, CatalogueAssumption
  <2> QED
    BY <1>1, <2>1, <2>2, <2>3
<1>3. ASSUME NEW c \in AllCandidates(F), NEW d \in AllCandidates(F), c.file = d.file
      PROVE  c = d
  BY <1>1, <1>3
<1> QED
  BY <1>1, <1>2, <1>3

LEMMA CandidatesAreFinite ==
    ASSUME NEW F, F \subseteq Catalogue, IsFiniteSet(F)
    PROVE  /\ IsFiniteSet(AffectedFiles(F)) /\ IsFiniteSet(AllCandidates(F))
           /\ Cardinality(AllCandidates(F)) = Cardinality(AffectedFiles(F))
<1> DEFINE G == {g \in F : g.file # NoFile}
           s == [f \in G |-> f.file]
           A == AffectedFiles(F)
           b == [file \in A |-> Candidate(F, file)]
<1>1. IsFiniteSet(A)
  <2>1. IsFiniteSet(G)
    <3>1. G \subseteq F
      OBVIOUS
    <3> QED
      BY <3>1, FS_Subset
  <2>2. s \in Surjection(G, A)
    <3>1. A = {f.file : f \in G}
      BY DEF AffectedFiles
    <3> HIDE DEF A, G
    <3>2. s \in [G -> A] /\ \A file \in A : \E f \in G : s[f] = file
      BY <3>1
    <3> QED
      BY <3>2 DEF Surjection
  <2> QED
    BY <2>1, <2>2, FS_Surjection
<1>2. b \in Bijection(A, AllCandidates(F))
  <2>1. b \in [A -> AllCandidates(F)] /\ \A c \in AllCandidates(F) : \E file \in A : b[file] = c
    BY DEF AllCandidates
  <2>2. \A x, y \in A : b[x] = b[y] => x = y
    BY CandidateIsOfWorst
  <2>3. IsInjective(b)
    BY <2>1, <2>2 DEF IsInjective
  <2> QED
    BY <2>1, <2>3 DEF Bijection, Injection, Surjection
<1>3. ExistsBijection(A, AllCandidates(F))
  BY <1>2 DEF ExistsBijection
<1> QED
  BY <1>1, <1>3, FS_Bijection

LEMMA CandidatesAreSorted ==
    ASSUME NEW F, F \subseteq Catalogue, IsFiniteSet(F)
    PROVE  /\ StrictlyOrders(SoonerIn(F), AllCandidates(F))
           /\ Sorts(Candidates(F), AllCandidates(F), SoonerIn(F))
<1> DEFINE S == AllCandidates(F)
           R == SoonerIn(F)
           n == Cardinality(S)
           p == Candidates(F)
           Sooner(c, d) == \/ c.rank < d.rank
                           \/ c.rank = d.rank /\ c.findings > d.findings
                           \/ /\ c.rank = d.rank /\ c.findings = d.findings
                              /\ c.place < d.place
           First(i) == CHOOSE x \in S : Cardinality({y \in S : Sooner(y, x)}) = i - 1
<1>1. StrictlyOrders(R, S)
  <2> DEFINE a == [c \in S |-> 0 - c.rank]
             b == [c \in S |-> 0 - c.findings]
             e == [c \in S |-> c.place]
  <2>1. a \in [S -> Int] /\ b \in [S -> Int] /\ e \in [S -> Int]
    BY CandidatesDiffer
  <2>2. \A x, y \in S : e[x] = e[y] => x = y
    BY CandidatesDiffer
  <2>3. R = Keyed(S, a, b, e)
    BY DEF SoonerIn
  <2> HIDE DEF a, b, e, R, S
  <2> QED
    BY <2>1, <2>2, <2>3, KeysOrder
<1>2. ASSUME NEW x \in S PROVE Preceding(S, R, x) = {y \in S : Sooner(y, x)}
  <2>1. ASSUME NEW y \in S PROVE <<y, x>> \in R <=> Sooner(y, x)
    <3>1. <<y, x>> \in R <=> Lexically(0 - y.rank, 0 - y.findings, y.place,
                                      0 - x.rank, 0 - x.findings, x.place)
      BY DEF SoonerIn, Keyed
    <3>2. /\ x.rank \in Int /\ x.findings \in Int /\ x.place \in Int
          /\ y.rank \in Int /\ y.findings \in Int /\ y.place \in Int
      BY CandidatesDiffer
    <3> HIDE DEF S, R
    <3> QED
      BY <3>1, <3>2 DEF Lexically
  <2> HIDE DEF S, R, Sooner
  <2> QED
    BY <2>1 DEF Preceding
<1>3. p = [i \in 1..n |-> First(i)]
  BY DEF Candidates, InOrder, AllCandidates
<1>4. ASSUME NEW i \in 1..n, NEW x \in S, Cardinality(Preceding(S, R, x)) = i - 1
      PROVE  First(i) \in S /\ Cardinality(Preceding(S, R, First(i))) = i - 1
  <2> HIDE DEF S, R, Sooner
  <2>1. Cardinality({y \in S : Sooner(y, x)}) = i - 1
    BY <1>2, <1>4
  <2>2. First(i) \in S /\ Cardinality({y \in S : Sooner(y, First(i))}) = i - 1
    BY <2>1, Zenon
  <2> QED
    BY <1>2, <2>2
<1> HIDE DEF First, p, S, R
<1>5. p = [i \in 1..n |-> p[i]] /\ \A i \in 1..n : p[i] = First(i)
  BY <1>3
<1>6. \A i \in 1..n : (\E x \in S : Cardinality(Preceding(S, R, x)) = i - 1)
               => p[i] \in S /\ Cardinality(Preceding(S, R, p[i])) = i - 1
  BY <1>4, <1>5
<1>7. IsFiniteSet(S)
  BY CandidatesAreFinite DEF S
<1>8. Sorts(p, S, R)
  BY <1>1, <1>5, <1>6, <1>7, Sorting
<1> QED
  BY <1>1, <1>8 DEF p, S, R

(* The files that are asked about: of the worst candidates, as many as     *)
(* allowed.                                                                *)
AskedFiles(F) == {c.file : c \in ToSet(Asked(F))}

LEMMA AskedAreTheWorst ==
    ASSUME NEW F, F \subseteq Catalogue, IsFiniteSet(F)
    PROVE  /\ ToSet(Asked(F)) \subseteq AllCandidates(F)
           /\ AskedFiles(F) \subseteq AffectedFiles(F)
           /\ Cardinality(AskedFiles(F)) = Min({MaxChurnFiles, Cardinality(AffectedFiles(F))})
           /\ \A f \in F, file \in AskedFiles(F) :
                 f.file \in AffectedFiles(F) \ AskedFiles(F) =>
                    \E g \in F : g.file = file /\ SeverityRank(g) <= SeverityRank(f)
<1> DEFINE T == ToSet(Asked(F))
           S == AllCandidates(F)
<1>1. T = FirstOf(Candidates(F), MaxChurnFiles)
  BY DEF Asked, FirstOf
<1>2. /\ T \subseteq S
      /\ \A t \in T, d \in S \ T : <<t, d>> \in SoonerIn(F)
      /\ Cardinality(T) = Min({MaxChurnFiles, Cardinality(S)})
  <2>1. MaxChurnFiles \in Nat
    BY ChurnAssumption
  <2> HIDE DEF T, S
  <2>2. IsFiniteSet(S)
    BY CandidatesAreFinite DEF S
  <2>3. StrictlyOrders(SoonerIn(F), S) /\ Sorts(Candidates(F), S, SoonerIn(F))
    BY CandidatesAreSorted DEF S
  <2> DEFINE p == Candidates(F)
             R == SoonerIn(F)
  <2> HIDE DEF p, R
  <2>4. StrictlyOrders(R, S) /\ Sorts(p, S, R)
    BY <2>3 DEF p, R
  <2>5. FirstOf(p, MaxChurnFiles) \subseteq S
    BY <2>1, <2>2, <2>4, FirstOfSorted
  <2>6. \A t \in FirstOf(p, MaxChurnFiles), d \in S \ FirstOf(p, MaxChurnFiles) : <<t, d>> \in R
    BY <2>1, <2>2, <2>4, FirstOfSorted
  <2>7. Cardinality(FirstOf(p, MaxChurnFiles)) = Min({MaxChurnFiles, Cardinality(S)})
    BY <2>1, <2>2, <2>4, FirstOfSorted
  <2> QED
    BY <1>1, <2>5, <2>6, <2>7 DEF p, R
<1> HIDE DEF T
<1>3. AskedFiles(F) = {c.file : c \in T}
  BY DEF AskedFiles, T
<1>4. AskedFiles(F) \subseteq AffectedFiles(F)
  BY <1>2, <1>3, CandidatesDiffer
<1>5. Cardinality(AskedFiles(F)) = Cardinality(T)
  <2> DEFINE q == [c \in T |-> c.file]
  <2>1. \A c, d \in T : c.file = d.file => c = d
    BY <1>2, CandidatesDiffer
  <2>2. q \in [T -> AskedFiles(F)] /\ \A file \in AskedFiles(F) : \E c \in T : q[c] = file
    BY <1>3
  <2>3. IsInjective(q)
    BY <2>1 DEF IsInjective
  <2>4. ExistsBijection(T, AskedFiles(F))
    BY <2>2, <2>3 DEF ExistsBijection, Bijection, Injection, Surjection
  <2>5. IsFiniteSet(T)
    BY <1>2, CandidatesAreFinite, FS_Subset
  <2> QED
    BY <2>4, <2>5, FS_Bijection
<1>6. ASSUME NEW f \in F, NEW file \in AskedFiles(F), f.file \in AffectedFiles(F) \ AskedFiles(F)
      PROVE  \E g \in F : g.file = file /\ SeverityRank(g) <= SeverityRank(f)
  <2>1. PICK t \in T : t.file = file
    BY <1>3
  <2>2. PICK d \in S \ T : d = Candidate(F, f.file)
    <3>1. Candidate(F, f.file) \in S /\ Candidate(F, f.file).file = f.file
      BY <1>6, CandidateIsOfWorst DEF AllCandidates
    <3>2. Candidate(F, f.file) \notin T
      BY <1>3, <1>6, <3>1
    <3> QED
      BY <3>1, <3>2
  <2>3. <<t, d>> \in SoonerIn(F) /\ t \in S
    BY <1>2
  <2>4. t.rank \in Int /\ d.rank \in Int
    BY <2>2, <2>3, CandidatesDiffer
  <2>5. t.rank <= d.rank
    <3>1. Lexically(0 - t.rank, 0 - t.findings, t.place, 0 - d.rank, 0 - d.findings, d.place)
      BY <2>2, <2>3 DEF SoonerIn, Keyed
    <3> HIDE DEF S
    <3> QED
      BY <2>4, <3>1 DEF Lexically
  <2>6. PICK g \in F : g.file = file /\ SeverityRank(g) = t.rank
    <3>1. t = Candidate(F, file) /\ file \in AffectedFiles(F)
      BY <2>1, <2>3, CandidatesDiffer
    <3> QED
      BY <3>1, CandidateIsOfWorst
  <2>7. d.rank <= SeverityRank(f)
    BY <1>6, <2>2, CandidateIsOfWorst
  <2>8. SeverityRank(f) \in Int
    BY PriorityIsNumber
  <2> QED
    BY <2>4, <2>5, <2>6, <2>7, <2>8
<1>7. Cardinality(S) = Cardinality(AffectedFiles(F))
  BY CandidatesAreFinite
<1> HIDE DEF S
<1> QED
  BY <1>2, <1>4, <1>5, <1>6, <1>7 DEF T, S

(* Ordering the files by what they cost loses none of them.                *)
LEMMA ChurnIsOfAll ==
    ASSUME NEW F, F \subseteq Catalogue, IsFiniteSet(F),
           NEW files \in [AffectedFiles(F) -> FileAnswers], ~ IsRefused(F, files)
    PROVE  ToSet(Churn(F, files)) =
               {c \in ToSet(Asked(F)) : files[c.file].kind = "commits"}
<1> DEFINE Product(c) == files[c.file].changes * c.findings
           S == {c \in ToSet(Asked(F)) : files[c.file].kind = "commits"}
           a == [c \in S |-> Product(c)]
           b == [c \in S |-> 0]
           e == [c \in S |-> c.place]
           R == Keyed(S, a, b, e)
           n == Cardinality(S)
           p == Churn(F, files)
           Sooner(c, d) == \/ Product(c) > Product(d)
                           \/ Product(c) = Product(d) /\ c.place < d.place
           First(i) == CHOOSE x \in S : Cardinality({y \in S : Sooner(y, x)}) = i - 1
<1>1. S \subseteq AllCandidates(F)
  BY AskedAreTheWorst
<1>2. \A c \in S : Product(c) \in Int /\ c.place \in Int
  <2>1. ASSUME NEW c \in S PROVE Product(c) \in Int /\ c.place \in Int
    <3>1. c.findings \in Int /\ c.place \in Int /\ files[c.file] \in FileAnswers
      BY <1>1, CandidatesDiffer
    <3>2. files[c.file].changes \in 0..MaxChanges
      BY <3>1 DEF FileAnswers
    <3>3. PICK x \in Int : x = files[c.file].changes
      BY <3>2
    <3>4. PICK y \in Int : y = c.findings
      BY <3>1
    <3>5. x * y \in Int
      OBVIOUS
    <3> QED
      BY <3>1, <3>3, <3>4, <3>5
  <2> QED
    BY <2>1
<1>3. StrictlyOrders(R, S)
  <2>1. a \in [S -> Int] /\ b \in [S -> Int] /\ e \in [S -> Int]
    BY <1>2
  <2>2. \A x, y \in S : e[x] = e[y] => x = y
    BY <1>1, CandidatesDiffer
  <2> HIDE DEF a, b, e, S
  <2> QED
    BY <2>1, <2>2, KeysOrder
<1>4. ASSUME NEW x \in S PROVE Preceding(S, R, x) = {y \in S : Sooner(y, x)}
  <2>1. ASSUME NEW y \in S PROVE <<y, x>> \in R <=> Sooner(y, x)
    <3>1. <<y, x>> \in R <=> Lexically(Product(y), 0, y.place, Product(x), 0, x.place)
      <4> HIDE DEF S, Product
      <4> QED
        BY DEF Keyed
    <3> HIDE DEF S, R, Product
    <3> QED
      BY <3>1 DEF Lexically
  <2> HIDE DEF S, R, Sooner
  <2> QED
    BY <2>1 DEF Preceding
<1>5. p = [i \in 1..n |-> First(i)]
  BY DEF Churn, InOrder
<1>6. ASSUME NEW i \in 1..n, NEW x \in S, Cardinality(Preceding(S, R, x)) = i - 1
      PROVE  First(i) \in S /\ Cardinality(Preceding(S, R, First(i))) = i - 1
  <2> HIDE DEF S, R, Sooner
  <2>1. Cardinality({y \in S : Sooner(y, x)}) = i - 1
    BY <1>4, <1>6
  <2>2. First(i) \in S /\ Cardinality({y \in S : Sooner(y, First(i))}) = i - 1
    BY <2>1, Zenon
  <2> QED
    BY <1>4, <2>2
<1>7. IsFiniteSet(S)
  BY <1>1, CandidatesAreFinite, FS_Subset
<1> HIDE DEF First, p, S, R
<1>8. p = [i \in 1..n |-> p[i]] /\ \A i \in 1..n : p[i] = First(i)
  BY <1>5
<1>9. \A i \in 1..n : (\E x \in S : Cardinality(Preceding(S, R, x)) = i - 1)
               => p[i] \in S /\ Cardinality(Preceding(S, R, p[i])) = i - 1
  BY <1>6, <1>8
<1>10. Sorts(p, S, R)
  BY <1>3, <1>7, <1>8, <1>9, Sorting
<1>11. DOMAIN p = 1..n
  BY <1>5
<1>12. ToSet(p) = S
  BY <1>10, <1>11 DEF Sorts, ToSet
<1> QED
  BY <1>12 DEF p, S

LEMMA LastIsAnAnswer ==
    ASSUME NEW w \in WeeklyExchanges
    PROVE  Last(w) \in WeeklyAnswers
<1>1. CASE \E a \in WeeklyAnswers : w = <<a>>
  <2>1. PICK a \in WeeklyAnswers : w = <<a>>
    BY <1>1
  <2>2. Len(w) = 1 /\ w[1] = a
    BY <2>1
  <2> QED
    BY <2>2 DEF Last
<1>2. CASE \E a \in WeeklyAnswers : w = <<"computing", a>>
  <2>1. PICK a \in WeeklyAnswers : w = <<"computing", a>>
    BY <1>2
  <2>2. Len(w) = 2 /\ w[2] = a
    BY <2>1
  <2> QED
    BY <2>2 DEF Last
<1> QED
  BY <1>1, <1>2 DEF WeeklyExchanges

LEMMA ReasonIs ==
    ASSUME NEW F, NEW w \in WeeklyExchanges, NEW files
    PROVE  /\ Reason(F, w, files) = "none" =>
                 Last(w) \in {"weeks", "nothing"} /\ ~ IsRefused(F, files)
           /\ Reason(F, w, files) # "not asked"
<1> DEFINE failed == Last(w) \in {"computing", "refused", "lost", "garbled"}
           counted == Last(w) \in {"weeks", "nothing"}
           denied == IsRefused(F, files)
<1>1. failed \/ counted
  BY LastIsAnAnswer DEF WeeklyAnswers
<1>2. ~ (failed /\ counted)
  OBVIOUS
<1>3. failed => Last(w) # "none" /\ Last(w) # "not asked"
  OBVIOUS
<1>4. Reason(F, w, files) = CASE failed -> Last(w)
                              [] counted /\ denied -> "refused"
                              [] OTHER -> "none"
  BY Zenon DEF Reason
<1> HIDE DEF failed, counted, denied
<1>5. /\ Reason(F, w, files) = "none" => counted /\ ~ denied
      /\ Reason(F, w, files) # "not asked"
  BY <1>1, <1>2, <1>3, <1>4
<1> QED
  BY <1>5 DEF counted, denied

LEMMA ActivityIs ==
    ASSUME NEW F, NEW w \in WeeklyExchanges, NEW files, NEW A, A = CollectActivity(F, w, files)
    PROVE  /\ A = NoActivity \/ A.reason = "none" => Reason(F, w, files) = "none"
           /\ A # NoActivity /\ A.reason = "none" => A.churn = Churn(F, files)
<1> DEFINE reason == Reason(F, w, files)
           churn == IF reason \in {"lost", "garbled"} THEN <<>> ELSE Churn(F, files)
           nothing == reason = "none" /\ Last(w) = "nothing" /\ churn = <<>>
           B == [reason |-> reason, partial |-> reason # "none",
                 weeks |-> Last(w) = "weeks", churn |-> churn,
                 files_with_findings |-> IF reason = "garbled" THEN 0
                                         ELSE Cardinality(AffectedFiles(F))]
<1>1. A = IF nothing THEN NoActivity ELSE B
  BY Zenon DEF CollectActivity
<1>2. nothing => reason = "none"
  OBVIOUS
<1>3. B.reason = reason /\ B.churn = churn
  OBVIOUS
<1>4. NoActivity.reason = "not asked"
  BY DEF NoActivity
<1>5. reason # "not asked"
  BY ReasonIs
<1>6. reason = "none" => churn = Churn(F, files)
  OBVIOUS
<1> HIDE DEF reason, churn, nothing, B
<1>7. /\ A = NoActivity \/ A.reason = "none" => reason = "none"
      /\ A # NoActivity /\ A.reason = "none" => A.churn = Churn(F, files)
  BY <1>1, <1>2, <1>3, <1>4, <1>5, <1>6
<1> QED
  BY <1>7 DEF reason

(* The history of a report is put together from answers about its files.   *)
HistoryInv ==
    stage = "reported" /\ answers # NoAnswers =>
       /\ answers.weekly \in WeeklyExchanges
       /\ answers.files \in [AffectedFiles(ToSet(Kept(collected))) -> FileAnswers]
       /\ report.activity =
             CollectActivity(ToSet(Kept(collected)), answers.weekly, answers.files)

LEMMA HistoryStep == HistoryInv /\ [Next]_vars => HistoryInv'
<1> SUFFICES ASSUME HistoryInv, [Next]_vars PROVE HistoryInv'
  OBVIOUS
<1>1. CASE UNCHANGED vars
  BY <1>1 DEF HistoryInv, vars
<1>2. CASE \/ Extract \/ ExtractionFails \/ BuildSnapshot \/ StartRules
           \/ RunRule \/ AnalysisTimesOut
  <2>1. stage' # "reported"
    BY <1>2 DEF Extract, ExtractionFails, BuildSnapshot, StartRules, RunRule, AnalysisTimesOut
  <2> QED
    BY <2>1 DEF HistoryInv
<1>3. CASE MakeReport
  <2> DEFINE kept == ToSet(Kept(collected))
  <2>1. /\ collected' = collected /\ answers' \in Answers(kept)
        /\ report'.activity = Activity(kept)
    BY <1>3 DEF MakeReport
  <2>2. CASE archive.format = "tar"
    <3>1. answers' \in [weekly : WeeklyExchanges, files : [AffectedFiles(kept) -> FileAnswers]]
      BY <2>1, <2>2, Zenon DEF Answers
    <3>2. report'.activity = CollectActivity(kept, answers'.weekly, answers'.files)
      BY <2>1, <2>2, Zenon DEF Activity
    <3> HIDE DEF kept
    <3>3. /\ answers'.weekly \in WeeklyExchanges
          /\ answers'.files \in [AffectedFiles(kept) -> FileAnswers]
      BY <3>1
    <3> QED
      BY <2>1, <3>2, <3>3 DEF HistoryInv, kept
  <2>3. CASE archive.format # "tar"
    <3>1. answers' = NoAnswers
      BY <2>1, <2>3 DEF Answers
    <3> QED
      BY <3>1 DEF HistoryInv, NoAnswers
  <2> QED
    BY <2>2, <2>3
<1> QED
  BY <1>1, <1>2, <1>3 DEF Next

(* What a report says of the commits of its repository is about the files  *)
(* with its worst findings, and admits what GitHub refused, whatever       *)
(* GitHub answers (history.collect_activity, file_change_counts).          *)
THEOREM HistoriesAreOfTheWorst == Spec => []HistoryIsOfTheWorst
<1>1. Init => HistoryInv
  <2>1. ASSUME Init PROVE HistoryInv
    <3>1. stage # "reported"
      BY <2>1 DEF Init
    <3> QED
      BY <3>1 DEF HistoryInv
  <2> QED
    BY <2>1
<1>2. Spec => []HistoryInv
  BY <1>1, HistoryStep, PTL DEF Spec
<1> DEFINE F == InReport
           w == answers.weekly
           files == answers.files
           activity == report.activity
           kinds == {files[c.file].kind : c \in ToSet(Asked(F))}
           listed == {c.file : c \in ToSet(activity.churn)}
           affected == AffectedFiles(F)
<1>3. ASSUME PipelineInv, HistoryInv, Reported, answers # NoAnswers
      PROVE  /\ F \subseteq Catalogue /\ IsFiniteSet(F) /\ w \in WeeklyExchanges
             /\ files \in [AffectedFiles(F) -> FileAnswers]
             /\ activity = CollectActivity(F, w, files)
  BY <1>3, InReportIsKept DEF HistoryInv, Reported
<1>4. IsRefused(F, files) <=> "refused" \in kinds
  BY DEF IsRefused
<1>5. ASSUME PipelineInv, HistoryInv, Reported, answers # NoAnswers,
             activity = NoActivity \/ activity.reason = "none"
      PROVE  Last(w) \in {"weeks", "nothing"} /\ "refused" \notin kinds
  <2>1. Reason(F, w, files) = "none"
    <3> HIDE DEF F, w, files, activity
    <3> QED
      BY <1>3, <1>5, ActivityIs, Zenon
  <2> HIDE DEF F, w, files, kinds
  <2> QED
    BY <1>3, <1>4, <1>5, <2>1, ReasonIs, Zenon
<1>6. ASSUME PipelineInv, HistoryInv, Reported, answers # NoAnswers,
             activity # NoActivity, activity.reason = "none", "lost" \notin kinds
      PROVE  listed = AskedFiles(F)
  <2>1. ~ IsRefused(F, files)
    BY <1>4, <1>5, <1>6, Zenon
  <2>2. activity.churn = Churn(F, files)
    <3> HIDE DEF F, w, files, activity
    <3> QED
      BY <1>3, <1>6, ActivityIs, Zenon
  <2>3. ToSet(activity.churn) = {c \in ToSet(Asked(F)) : files[c.file].kind = "commits"}
    <3> HIDE DEF F, w, files, activity
    <3> QED
      BY <1>3, <1>6, <2>1, <2>2, ChurnIsOfAll, Zenon
  <2>4. ASSUME NEW c \in ToSet(Asked(F)) PROVE files[c.file].kind = "commits"
    <3>1. files[c.file] \in FileAnswers
      <4>1. c.file \in AskedFiles(F)
        BY DEF AskedFiles
      <4>2. c.file \in AffectedFiles(F)
        BY <1>3, <1>6, <4>1, AskedAreTheWorst
      <4> HIDE DEF F, files
      <4> QED
        BY <1>3, <1>6, <4>2
    <3>2. files[c.file].kind \in {"commits", "refused", "lost"}
      BY <3>1 DEF FileAnswers
    <3>3. files[c.file].kind # "refused"
      BY <2>1 DEF IsRefused
    <3>4. files[c.file].kind # "lost"
      BY <1>6
    <3> QED
      BY <3>2, <3>3, <3>4
  <2>5. ToSet(activity.churn) = ToSet(Asked(F))
    <3> HIDE DEF F, files, activity
    <3> QED
      BY <2>3, <2>4
  <2> QED
    BY <2>5 DEF AskedFiles
<1>7. ASSUME PipelineInv, HistoryInv, Reported, answers # NoAnswers,
             activity # NoActivity, activity.reason = "none", "lost" \notin kinds
      PROVE  /\ listed \subseteq affected
             /\ Cardinality(listed) = Min({MaxChurnFiles, Cardinality(affected)})
             /\ \A f \in F, file \in listed :
                   f.file \in affected \ listed =>
                     \E g \in F : g.file = file /\ SeverityRank(g) <= SeverityRank(f)
  <2>1. listed = AskedFiles(F) /\ F \subseteq Catalogue /\ IsFiniteSet(F)
    BY <1>3, <1>6, <1>7, Zenon
  <2> HIDE DEF F, listed
  <2> QED
    BY <2>1, AskedAreTheWorst, Zenon
<1>8. PipelineInv /\ HistoryInv => HistoryIsOfTheWorst
  BY <1>5, <1>7, Zenon DEF HistoryIsOfTheWorst
<1> QED
  BY <1>2, <1>8, PipelineInvariance, PTL
=============================================================================
