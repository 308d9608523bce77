-------------------------- MODULE SourceRetention --------------------------
(***************************************************************************)
(* The files of uploads: PostgresBlobStore of app/source/blobs.py as the    *)
(* runner (_store_source) and delete_report of app/routers/reports.py use   *)
(* it.  Every statement sees what was committed before it (READ COMMITTED), *)
(* so uploads, prunes and deletions interleave between statements.  Rows of *)
(* one upload are inserted, evicted and deleted together: an upload's rows  *)
(* are one element here, with the size of the lot.                          *)
(***************************************************************************)
EXTENDS Naturals, FiniteSets

CONSTANTS
    Uploads,  \* reports made from an uploaded archive
    SizeOf,   \* per upload: bytes of what put would store, 0 when nothing is
    Budget,   \* MAX_TOTAL_BLOB_BYTES
    MayFail   \* FALSE: no statement raises and the process does not stop

ASSUME SizeAssumption    == SizeOf \in [Uploads -> Nat]
ASSUME BudgetAssumption  == Budget \in Nat
ASSUME FailureAssumption == MayFail \in BOOLEAN

VARIABLES
    saved,      \* uploads whose report is in the report store
    stored,     \* uploads whose rows are in source_blobs
    stampedAt,  \* created_at of the rows, 0 before put
    run,        \* the next thing the upload's runner does
    view,       \* what its prune has read
    deletion,   \* the next thing a DELETE of its report does
    early,      \* history: deleted before its runner was done with the source
    overtaken,  \* history: prunes whose view somebody else has changed
    spoiled     \* history: a prune failed and none has looked since

vars == <<saved, stored, stampedAt, run, view, deletion, early, overtaken, spoiled>>

Pruning == {"total", "groups", "evict"}
Steps == {"save", "put", "insert", "ended"} \cup Pruning
Deleting == {"none", "row", "blobs", "ended", "broken"}

NoView == [total |-> 0, evicted |-> {}]

TypeOK ==
    /\ saved \subseteq Uploads
    /\ stored \subseteq Uploads
    /\ stampedAt \in [Uploads -> 0..Cardinality(Uploads)]
    /\ run \in [Uploads -> Steps]
    /\ view \in [Uploads -> [total : Nat, evicted : SUBSET Uploads]]
    /\ deletion \in [Uploads -> Deleting]
    /\ early \subseteq Uploads
    /\ overtaken \subseteq Uploads
    /\ spoiled \in BOOLEAN

Init ==
    /\ saved = {}
    /\ stored = {}
    /\ stampedAt = [u \in Uploads |-> 0]
    /\ run = [u \in Uploads |-> "save"]
    /\ view = [u \in Uploads |-> NoView]
    /\ deletion = [u \in Uploads |-> "none"]
    /\ early = {}
    /\ overtaken = {}
    /\ spoiled = FALSE

\* The sum of the sizes: the bytes of the uploads, counted one by one.
Bytes(S) == UNION {{u} \X (1..SizeOf[u]) : u \in S}
Size(S) == Cardinality(Bytes(S))
Older(u, S) == {o \in S : stampedAt[o] < stampedAt[u]}

\* The prunes under way, other than u's, that a change of the table overtakes.
Overtakes(u) == {o \in Uploads \ {u} : run[o] \in {"groups", "evict"}}

\* The runner is done with the source, and what it read is gone.
StoreSourceEnds(u) ==
    /\ run' = [run EXCEPT ![u] = "ended"]
    /\ view' = [view EXCEPT ![u] = NoView]

-----------------------------------------------------------------------------
(* The runner: save the report, then store its source.                     *)

SaveReport(u) ==
    /\ run[u] = "save"
    /\ saved' = saved \cup {u}
    /\ run' = [run EXCEPT ![u] = "put"]
    /\ UNCHANGED <<stored, stampedAt, view, deletion, early, overtaken, spoiled>>

\* put: read the clock and pack the files; there may be none worth keeping.
StartPut(u) ==
    /\ run[u] = "put"
    /\ stampedAt' = [stampedAt EXCEPT
                       ![u] = 1 + Cardinality({o \in Uploads : stampedAt[o] # 0})]
    /\ run' = [run EXCEPT ![u] = IF SizeOf[u] = 0 THEN "ended" ELSE "insert"]
    /\ UNCHANGED <<saved, stored, view, deletion, early, overtaken, spoiled>>

Insert(u) ==
    /\ run[u] = "insert"
    /\ stored' = stored \cup {u}
    /\ run' = [run EXCEPT ![u] = "total"]
    /\ overtaken' = overtaken \cup Overtakes(u)
    /\ UNCHANGED <<saved, stampedAt, view, deletion, early, spoiled>>

\* prune, first statement: the total size, and done when it fits.
ReadTotal(u) ==
    /\ run[u] = "total"
    /\ \/ /\ Size(stored) <= Budget
          /\ StoreSourceEnds(u)
       \/ /\ Size(stored) > Budget
          /\ view' = [view EXCEPT ![u].total = Size(stored)]
          /\ run' = [run EXCEPT ![u] = "groups"]
    /\ spoiled' = FALSE
    /\ UNCHANGED <<saved, stored, stampedAt, deletion, early, overtaken>>

\* Faulty variant: the size of an upload is taken off before it is evicted.
EvictedOneShort(total, S) ==
    {u \in S : total > Budget + Size(Older(u, S)) + SizeOf[u]}

\* Faulty variant: newest first.
EvictedNewestFirst(total, S) ==
    {u \in S : total > Budget + Size({o \in S : stampedAt[o] > stampedAt[u]})}

\* Oldest first, until what is left of the total fits.
Evicted(total, S) == {u \in S : total > Budget + Size(Older(u, S))}

\* Second statement: the uploads by age, and the choice.
ReadGroups(u) ==
    /\ run[u] = "groups"
    /\ LET evicted == Evicted(view[u].total, stored)
       IN  \/ /\ evicted = {}
              /\ StoreSourceEnds(u)
              /\ overtaken' = overtaken \ {u}
           \/ /\ evicted # {}
              /\ view' = [view EXCEPT ![u].evicted = evicted]
              /\ run' = [run EXCEPT ![u] = "evict"]
              /\ UNCHANGED overtaken
    /\ UNCHANGED <<saved, stored, stampedAt, deletion, early, spoiled>>

\* Third statement, and the commit.
Evict(u) ==
    /\ run[u] = "evict"
    /\ stored' = stored \ view[u].evicted
    /\ StoreSourceEnds(u)
    /\ overtaken' = (overtaken \cup Overtakes(u)) \ {u}
    /\ UNCHANGED <<saved, stampedAt, deletion, early, spoiled>>

\* A statement raises, or the process stops.  The insert is either committed or
\* not; the errors of put and of prune are swallowed and nothing is tried again.
Fail(u) ==
    /\ MayFail
    /\ run[u] \in {"put", "insert"} \cup Pruning
    /\ StoreSourceEnds(u)
    /\ spoiled' = (spoiled \/ run[u] \in Pruning)
    /\ overtaken' = overtaken \ {u}
    /\ UNCHANGED <<saved, stored, stampedAt, deletion, early>>

-----------------------------------------------------------------------------
(* delete_report.                                                          *)

\* Its owner finds the report in the listing as soon as it is saved.
StartDelete(u) ==
    /\ u \in saved
    /\ deletion[u] = "none"
    /\ deletion' = [deletion EXCEPT ![u] = "row"]
    /\ early' = IF run[u] = "ended" THEN early ELSE early \cup {u}
    /\ UNCHANGED <<saved, stored, stampedAt, run, view, overtaken, spoiled>>

\* Faulty variant: the report goes and its source stays.
DeleteRowOnly(u) ==
    /\ deletion[u] = "row"
    /\ saved' = saved \ {u}
    /\ deletion' = [deletion EXCEPT ![u] = "ended"]
    /\ UNCHANGED <<stored, stampedAt, run, view, early, overtaken, spoiled>>

DeleteRow(u) ==
    /\ deletion[u] = "row"
    /\ saved' = saved \ {u}
    /\ deletion' = [deletion EXCEPT ![u] = "blobs"]
    /\ UNCHANGED <<stored, stampedAt, run, view, early, overtaken, spoiled>>

DeleteBlobs(u) ==
    /\ deletion[u] = "blobs"
    /\ stored' = stored \ {u}
    /\ deletion' = [deletion EXCEPT ![u] = "ended"]
    /\ overtaken' = overtaken \cup {o \in Uploads : run[o] \in {"groups", "evict"}}
    /\ UNCHANGED <<saved, stampedAt, run, view, early, spoiled>>

\* A statement raises: with the report gone there is no owner any more who could
\* ask again.
FailDelete(u) ==
    /\ MayFail
    /\ deletion[u] \in {"row", "blobs"}
    /\ deletion' = [deletion EXCEPT ![u] = IF u \in saved THEN "none" ELSE "broken"]
    /\ UNCHANGED <<saved, stored, stampedAt, run, view, early, overtaken, spoiled>>

RunnerStep(u) ==
    \/ SaveReport(u) \/ StartPut(u) \/ Insert(u)
    \/ ReadTotal(u) \/ ReadGroups(u) \/ Evict(u) \/ Fail(u)
DeleteStep(u) == StartDelete(u) \/ DeleteRow(u) \/ DeleteBlobs(u) \/ FailDelete(u)

Next == \E u \in Uploads : RunnerStep(u) \/ DeleteStep(u)

Spec == Init /\ [][Next]_vars

-----------------------------------------------------------------------------
(* Properties.                                                             *)

\* "Prune after writing, not before": once every prune is through, what is stored
\* fits in the budget, whatever the prunes read of each other's work; after a
\* failure, once another upload's prune was.
FitsWhenQuiet ==
    (~spoiled /\ \A u \in Uploads : run[u] \notin Pruning) => Size(stored) <= Budget

\* A prune that nobody overtook evicts the oldest uploads and just as many as it
\* takes: putting back any of them, and what is younger, would not fit.
PruneIsExact ==
    [][\A u \in Uploads :
          (u \notin overtaken /\ Evict(u)) =>
              LET gone == stored \ stored'
              IN  /\ Size(stored') <= Budget
                  /\ \A e \in gone :
                        /\ Older(e, stored') = {}
                        /\ Size(stored' \cup (gone \ Older(e, gone))) > Budget]_vars

\* "Stored source outlives its report otherwise": a deletion of a finished upload
\* that ran to its end leaves nothing, and no prune or late put brings it back.
DeleteTakesSource ==
    \A u \in Uploads : deletion[u] = "ended" /\ u \notin early => u \notin stored

Quiet == \A u \in Uploads : run[u] = "ended" /\ deletion[u] \in {"none", "ended"}

\* "Stored source outlives its report otherwise, and nothing would ever reference
\* it again": no source is stored whose report is gone.
NothingOrphaned == Quiet => stored \subseteq saved

\* "the oldest are dropped first": the latest upload is there to be read when it
\* fits at all and its report was not deleted.
NewestIsKept ==
    Quiet => \A u \in Uploads :
                /\ deletion[u] = "none"
                /\ SizeOf[u] \in 1..Budget
                /\ \A o \in Uploads : stampedAt[o] <= stampedAt[u]
                => u \in stored
=============================================================================
