----------------------- MODULE SourceRetention_proofs -----------------------
(***************************************************************************)
(* A deletion takes the source with it, what is stored fits in the budget  *)
(* once it is quiet, and a prune evicts no more than it has to, for any    *)
(* uploads, sizes and budget.                                              *)
(***************************************************************************)
EXTENDS SourceRetention, Integers, FiniteSetTheorems, TLAPS

Typed ==
    /\ run \in [Uploads -> Steps]
    /\ deletion \in [Uploads -> Deleting]

(* A deletion that was not early came after the last step of the runner,   *)
(* and nothing starts a runner again.                                      *)
DeletionsAreLate ==
    \A u \in Uploads :
        deletion[u] \in {"row", "blobs", "ended", "broken"} /\ u \notin early => run[u] = "ended"

Inv == Typed /\ DeletionsAreLate /\ DeleteTakesSource

LEMMA Names ==
    /\ Steps = {"save", "put", "insert", "ended", "total", "groups", "evict"}
    /\ Pruning = {"total", "groups", "evict"}
    /\ Deleting = {"none", "row", "blobs", "ended", "broken"}
  BY DEF Steps, Pruning, Deleting

(* Only Insert adds rows, and it does so before the runner has ended.      *)
LEMMA RunnerKeeps ==
    ASSUME Inv, NEW u \in Uploads, RunnerStep(u)
    PROVE  Inv'
<1>1. /\ run[u] # "ended" /\ run' \in [Uploads -> Steps]
      /\ \A o \in Uploads \ {u} : run'[o] = run[o]
  BY Names DEF RunnerStep, SaveReport, StartPut, Insert, ReadTotal, ReadGroups, Evict, Fail,
               StoreSourceEnds, Inv, Typed
<1>2. deletion' = deletion /\ early' = early /\ stored' \subseteq stored \cup {u}
  BY DEF RunnerStep, SaveReport, StartPut, Insert, ReadTotal, ReadGroups, Evict, Fail
<1>3. DeletionsAreLate'
  BY <1>1, <1>2 DEF Inv, DeletionsAreLate
<1>4. DeleteTakesSource'
  BY <1>1, <1>2 DEF Inv, DeletionsAreLate, DeleteTakesSource
<1> QED
  BY <1>1, <1>2, <1>3, <1>4 DEF Inv, Typed

LEMMA DeletionKeeps ==
    ASSUME Inv, NEW u \in Uploads, DeleteStep(u)
    PROVE  Inv'
<1> USE Names DEF Inv, Typed, DeletionsAreLate, DeleteTakesSource
<1>1. CASE StartDelete(u)
  BY <1>1 DEF StartDelete
<1>2. CASE DeleteRow(u)
  BY <1>2 DEF DeleteRow
<1>3. CASE DeleteBlobs(u)
  BY <1>3 DEF DeleteBlobs
<1>4. CASE FailDelete(u)
  BY <1>4 DEF FailDelete
<1> QED
  BY <1>1, <1>2, <1>3, <1>4 DEF DeleteStep

(* When a report is deleted whose upload was through, the deletion leaves  *)
(* nothing of its source, and no prune or late put of anybody brings it    *)
(* back (routers/reports.py, delete_report; blobs.py, put and prune).      *)
THEOREM DeletionTakesSource == Spec => []DeleteTakesSource
<1>1. Init => Inv
  BY Names DEF Init, Inv, Typed, DeletionsAreLate, DeleteTakesSource
<1>2. Inv /\ [Next]_vars => Inv'
  <2> SUFFICES ASSUME Inv, [Next]_vars PROVE Inv'
    OBVIOUS
  <2>1. CASE UNCHANGED vars
    BY <2>1 DEF vars, Inv, Typed, DeletionsAreLate, DeleteTakesSource
  <2> QED
    BY <2>1, RunnerKeeps, DeletionKeeps DEF Next
<1>3. Inv => DeleteTakesSource
  BY DEF Inv
<1> QED
  BY <1>1, <1>2, <1>3, PTL DEF Spec

-----------------------------------------------------------------------------
(* Sizes.  The bytes of different uploads are different, so that sizes add *)
(* up, whatever the uploads.                                               *)
LEMMA BytesAreFinite ==
    ASSUME NEW S, IsFiniteSet(S), S \subseteq Uploads
    PROVE  IsFiniteSet(Bytes(S)) /\ Size(S) \in Nat
<1> DEFINE f == [u \in S |-> {u} \X (1..SizeOf[u])]
           T == {{u} \X (1..SizeOf[u]) : u \in S}
<1>1. f \in Surjection(S, T)
  BY DEF Surjection
<1>2. IsFiniteSet(T)
  <2> HIDE DEF f, T
  <2> QED
    BY <1>1, FS_Surjection
<1>3. ASSUME NEW t \in T PROVE IsFiniteSet(t)
  <2>1. PICK u \in S : t = {u} \X (1..SizeOf[u])
    OBVIOUS
  <2>2. SizeOf[u] \in Nat
    BY SizeAssumption
  <2>3. IsFiniteSet(1..SizeOf[u])
    <3>1. 1 \in Int /\ SizeOf[u] \in Int
      BY <2>2
    <3> QED
      BY <3>1, FS_Interval
  <2>4. IsFiniteSet({u})
    BY FS_Singleton
  <2> QED
    BY <2>1, <2>3, <2>4, FS_Product
<1>4. IsFiniteSet(UNION T)
  <2> HIDE DEF T
  <2> QED
    BY <1>2, <1>3, FS_UNION
<1>5. Bytes(S) = UNION T
  BY DEF Bytes
<1> QED
  BY <1>4, <1>5, FS_CardinalityType DEF Size

LEMMA SizesAdd ==
    ASSUME NEW S, IsFiniteSet(S), S \subseteq Uploads, NEW T, T \subseteq S
    PROVE  /\ IsFiniteSet(T) /\ IsFiniteSet(S \ T)
           /\ Size(S) \in Nat /\ Size(T) \in Nat /\ Size(S \ T) \in Nat
           /\ Size(S) = Size(T) + Size(S \ T)
<1>1. IsFiniteSet(T) /\ IsFiniteSet(S \ T)
  BY FS_Subset
<1>2. /\ IsFiniteSet(Bytes(T)) /\ IsFiniteSet(Bytes(S \ T))
      /\ Size(S) \in Nat /\ Size(T) \in Nat /\ Size(S \ T) \in Nat
  BY <1>1, BytesAreFinite
<1>3. Bytes(S) = Bytes(T) \cup Bytes(S \ T)
  <2>1. ASSUME NEW x \in Bytes(S) PROVE x \in Bytes(T) \cup Bytes(S \ T)
    <3>1. PICK u \in S : x \in {u} \X (1..SizeOf[u])
      BY DEF Bytes
    <3>2. CASE u \in T
      BY <3>1, <3>2 DEF Bytes
    <3>3. CASE u \notin T
      <4>1. u \in S \ T
        BY <3>3
      <4> QED
        BY <3>1, <4>1 DEF Bytes
    <3> QED
      BY <3>2, <3>3
  <2>2. ASSUME NEW x \in Bytes(T) \cup Bytes(S \ T) PROVE x \in Bytes(S)
    <3>1. PICK u \in S : x \in {u} \X (1..SizeOf[u])
      BY DEF Bytes
    <3> QED
      BY <3>1 DEF Bytes
  <2> QED
    BY <2>1, <2>2
<1>4. Bytes(T) \cap Bytes(S \ T) = {}
  <2> SUFFICES ASSUME NEW x, x \in Bytes(T), x \in Bytes(S \ T) PROVE FALSE
    OBVIOUS
  <2>1. PICK u \in T : x \in {u} \X (1..SizeOf[u])
    BY DEF Bytes
  <2>2. PICK w \in S \ T : x \in {w} \X (1..SizeOf[w])
    BY DEF Bytes
  <2>3. x[1] = u /\ x[1] = w
    BY <2>1, <2>2
  <2> QED
    BY <2>1, <2>2, <2>3
<1>5. Cardinality(Bytes(T) \cap Bytes(S \ T)) = 0
  BY <1>4, FS_EmptySet
<1>6. Cardinality(Bytes(S)) = Cardinality(Bytes(T)) + Cardinality(Bytes(S \ T)) - 0
  BY <1>2, <1>3, <1>5, FS_Union
<1> QED
  BY <1>1, <1>2, <1>6 DEF Size

LEMMA SizesGrow ==
    ASSUME NEW S, IsFiniteSet(S), S \subseteq Uploads, NEW T, T \subseteq S
    PROVE  IsFiniteSet(T) /\ Size(T) \in Nat /\ Size(S) \in Nat /\ Size(T) <= Size(S)
<1>1. /\ IsFiniteSet(T)
      /\ Size(S) \in Nat /\ Size(T) \in Nat /\ Size(S \ T) \in Nat
      /\ Size(S) = Size(T) + Size(S \ T)
  BY SizesAdd, Zenon
<1>2. Size(T) <= Size(S)
  <2> DEFINE s == Size(S)
             n == Size(T)
             d == Size(S \ T)
  <2>1. s \in Nat /\ n \in Nat /\ d \in Nat /\ s = n + d
    BY <1>1
  <2> HIDE DEF s, n, d
  <2>2. n <= s
    BY <2>1
  <2> QED
    BY <2>2 DEF n, s
<1> QED
  BY <1>1, <1>2

LEMMA NothingHasNoSize == Size({}) = 0
<1>1. Bytes({}) = {}
  BY DEF Bytes
<1> QED
  BY <1>1, FS_EmptySet DEF Size

LEMMA Oldest ==
    ASSUME NEW S, S # {}, \A u \in S : stampedAt[u] \in Nat
    PROVE  \E w \in S : \A u \in S : ~ (stampedAt[u] < stampedAt[w])
<1> DEFINE D == {stampedAt[u] : u \in S}
<1>1. D \subseteq Nat /\ D # {}
  OBVIOUS
<1>2. PICK d \in D : \A e \in D : ~ (<<e, d>> \in OpToRel(<, Nat))
  <2> HIDE DEF D
  <2> QED
    BY <1>1, WFMin, NatLessThanWellFounded
<1>3. \A e \in D : ~ (e < d)
  BY <1>1, <1>2 DEF OpToRel
<1> QED
  BY <1>3

(* What a prune leaves of uploads that are no larger than it believes is   *)
(* within the budget.                                                      *)
LEMMA EvictedSuffice ==
    ASSUME NEW S, IsFiniteSet(S), S \subseteq Uploads, \A u \in S : stampedAt[u] \in Nat,
           NEW total \in Nat, Size(S) <= total
    PROVE  Size(S \ Evicted(total, S)) <= Budget
<1> DEFINE kept == S \ Evicted(total, S)
<1>1. CASE kept = {}
  BY <1>1, NothingHasNoSize, BudgetAssumption
<1>2. CASE kept # {}
  <2>1. PICK w \in kept : \A u \in kept : ~ (stampedAt[u] < stampedAt[w])
    BY <1>2, Oldest
  <2>2. kept \subseteq S \ Older(w, S)
    BY <2>1 DEF Older
  <2>3. /\ Size(S) \in Nat /\ Size(Older(w, S)) \in Nat /\ Size(S \ Older(w, S)) \in Nat
        /\ Size(S) = Size(Older(w, S)) + Size(S \ Older(w, S))
        /\ IsFiniteSet(S \ Older(w, S))
    <3>1. Older(w, S) \subseteq S
      BY DEF Older
    <3> QED
      BY <3>1, SizesAdd
  <2>4. Size(kept) \in Nat /\ Size(kept) <= Size(S \ Older(w, S))
    BY <2>2, <2>3, SizesGrow
  <2>5. ~ (total > Budget + Size(Older(w, S)))
    BY <2>1 DEF Evicted
  <2> HIDE DEF kept
  <2>6. Size(kept) <= Budget
    BY <2>3, <2>4, <2>5, BudgetAssumption
  <2> QED
    BY <2>6 DEF kept
<1> QED
  BY <1>1, <1>2

(* What it evicts are the oldest, and none of them for nothing.            *)
LEMMA EvictedAreNeeded ==
    ASSUME NEW S, IsFiniteSet(S), S \subseteq Uploads, \A u \in S : stampedAt[u] \in Nat,
           NEW e \in Evicted(Size(S), S)
    PROVE  LET gone == Evicted(Size(S), S)
           IN  /\ Older(e, S \ gone) = {}
               /\ Size((S \ gone) \cup (gone \ Older(e, gone))) > Budget
<1> DEFINE gone == Evicted(Size(S), S)
<1>1. e \in S /\ gone \subseteq S /\ Size(S) > Budget + Size(Older(e, S))
  BY DEF Evicted
<1>2. /\ Size(S) \in Nat /\ Size(Older(e, S)) \in Nat /\ Size(S \ Older(e, S)) \in Nat
      /\ Size(S) = Size(Older(e, S)) + Size(S \ Older(e, S))
      /\ IsFiniteSet(Older(e, S))
  <2>1. Older(e, S) \subseteq S
    BY DEF Older
  <2> QED
    BY <2>1, SizesAdd, Zenon
<1>3. ASSUME NEW o \in S, stampedAt[o] < stampedAt[e] PROVE o \in gone
  <2>1. stampedAt[o] \in Nat /\ stampedAt[e] \in Nat
    BY <1>1
  <2>2. Older(o, S) \subseteq Older(e, S)
    <3>1. ASSUME NEW x \in S, stampedAt[x] < stampedAt[o] PROVE stampedAt[x] < stampedAt[e]
      <4>1. stampedAt[x] \in Nat
        OBVIOUS
      <4> QED
        BY <4>1, <2>1, <1>3, <3>1
    <3> QED
      BY <3>1 DEF Older
  <2>3. Older(e, S) \subseteq Uploads
    BY DEF Older
  <2>4. Size(Older(o, S)) \in Nat /\ Size(Older(o, S)) <= Size(Older(e, S))
    BY <1>2, <2>2, <2>3, SizesGrow, Zenon
  <2>5. Size(S) > Budget + Size(Older(o, S))
    BY <1>1, <1>2, <2>4, BudgetAssumption
  <2> QED
    BY <2>5 DEF Evicted
<1>4. Older(e, S \ gone) = {}
  BY <1>3 DEF Older
<1>5. (S \ gone) \cup (gone \ Older(e, gone)) = S \ Older(e, S)
  BY <1>1, <1>3 DEF Older
<1>6. Size(S \ Older(e, S)) > Budget
  BY <1>1, <1>2, BudgetAssumption
<1> QED
  BY <1>4, <1>5, <1>6

-----------------------------------------------------------------------------
(* The rows, and what prunes know of them.                                 *)
RowsTyped ==
    /\ run \in [Uploads -> Steps]
    /\ view \in [Uploads -> [total : Nat, evicted : SUBSET Uploads]]
    /\ stored \subseteq Uploads
    /\ IsFiniteSet(stored)
    /\ stampedAt \in [Uploads -> Nat]
    /\ IsFiniteSet({u \in Uploads : stampedAt[u] # 0})

(* Rows are stamped once, before they are there.                           *)
NotYet == \A u \in Uploads : run[u] \in {"save", "put", "insert"} => u \notin stored

(* u's prune, as far as it has come, ends within the budget.               *)
WillFit(u) ==
    \/ run[u] = "total"
    \/ run[u] = "groups" /\ Size(stored) <= view[u].total
    \/ run[u] = "evict" /\ Size(stored \ view[u].evicted) <= Budget

(* What does not fit has a prune under way that makes it fit: the one that *)
(* reads the total after the last insert counts everything, and what the   *)
(* others take away meanwhile only helps.                                  *)
Fits == ~ spoiled => Size(stored) <= Budget \/ \E u \in Uploads : WillFit(u)

(* A view that nobody has overtaken is what the table holds.               *)
Current(u) ==
    u \notin overtaken =>
        /\ run[u] \in {"groups", "evict"} => view[u].total = Size(stored) /\ view[u].total > Budget
        /\ run[u] = "evict" => view[u].evicted = Evicted(view[u].total, stored)

PruneInv ==
    /\ RowsTyped
    /\ NotYet
    /\ Fits
    /\ \A u \in Uploads : Current(u)

(* Taking rows away is no harm to a prune under way.                       *)
LEMMA LessWillFit ==
    ASSUME RowsTyped, NEW w \in Uploads, WillFit(w), run'[w] = run[w], view'[w] = view[w],
           stored' \subseteq stored
    PROVE  WillFit(w)'
<1>1. Size(stored') \in Nat /\ Size(stored) \in Nat /\ Size(stored') <= Size(stored)
  BY SizesGrow, Zenon DEF RowsTyped
<1>2. /\ Size(stored' \ view[w].evicted) \in Nat /\ Size(stored \ view[w].evicted) \in Nat
      /\ Size(stored' \ view[w].evicted) <= Size(stored \ view[w].evicted)
  <2>1. IsFiniteSet(stored \ view[w].evicted)
    BY FS_Subset DEF RowsTyped
  <2>2. stored' \ view[w].evicted \subseteq stored \ view[w].evicted
    OBVIOUS
  <2>3. stored \ view[w].evicted \subseteq Uploads
    BY DEF RowsTyped
  <2> QED
    BY <2>1, <2>2, <2>3, SizesGrow, Zenon
<1>3. view[w].total \in Nat
  BY DEF RowsTyped
<1>4. CASE run[w] = "total"
  BY <1>4 DEF WillFit
<1>5. CASE run[w] = "groups" /\ Size(stored) <= view[w].total
  <2>1. Size(stored') <= view[w].total
    BY <1>1, <1>3, <1>5
  <2> QED
    BY <1>5, <2>1 DEF WillFit
<1>6. CASE run[w] = "evict" /\ Size(stored \ view[w].evicted) <= Budget
  <2>1. Size(stored' \ view[w].evicted) <= Budget
    BY <1>2, <1>6, BudgetAssumption
  <2> QED
    BY <1>6, <2>1 DEF WillFit
<1> QED
  BY <1>4, <1>5, <1>6 DEF WillFit

LEMMA RowsStayTyped ==
    ASSUME RowsTyped, NEW u \in Uploads, RunnerStep(u) \/ DeleteStep(u)
    PROVE  RowsTyped'
<1> USE Names DEF RowsTyped
<1>a. NoView \in [total : Nat, evicted : SUBSET Uploads]
  BY DEF NoView
<1>1. CASE SaveReport(u)
  BY <1>1 DEF SaveReport
<1>2. CASE StartPut(u)
  <2> DEFINE stamped == {o \in Uploads : stampedAt[o] # 0}
  <2>1. Cardinality(stamped) \in Nat
    <3>1. IsFiniteSet(stamped)
      OBVIOUS
    <3> HIDE DEF stamped
    <3> QED
      BY <3>1, FS_CardinalityType
  <2>2. stampedAt' = [stampedAt EXCEPT ![u] = 1 + Cardinality(stamped)]
    BY <1>2 DEF StartPut
  <2>3. stampedAt' \in [Uploads -> Nat]
    <3> HIDE DEF stamped
    <3> QED
      BY <2>1, <2>2
  <2>4. {o \in Uploads : stampedAt'[o] # 0} \subseteq stamped \cup {u}
    BY <2>2
  <2>5. IsFiniteSet(stamped \cup {u})
    <3>1. IsFiniteSet(stamped)
      OBVIOUS
    <3> HIDE DEF stamped
    <3> QED
      BY <3>1, FS_AddElement
  <2>6. IsFiniteSet({o \in Uploads : stampedAt'[o] # 0})
    <3> HIDE DEF stamped
    <3> QED
      BY <2>4, <2>5, FS_Subset
  <2>7. run' \in [Uploads -> Steps] /\ view' = view /\ stored' = stored
    BY <1>2 DEF StartPut
  <2> QED
    BY <2>3, <2>6, <2>7
<1>3. CASE Insert(u)
  <2>1. stored' = stored \cup {u} /\ stampedAt' = stampedAt /\ view' = view
    BY <1>3 DEF Insert
  <2>2. IsFiniteSet(stored')
    BY <2>1, FS_AddElement
  <2>3. run' \in [Uploads -> Steps]
    BY <1>3 DEF Insert
  <2> QED
    BY <2>1, <2>2, <2>3
<1>4. CASE ReadTotal(u)
  <2>1. stored' = stored /\ stampedAt' = stampedAt /\ run' \in [Uploads -> Steps]
    BY <1>4 DEF ReadTotal, StoreSourceEnds
  <2>2. Size(stored) \in Nat
    BY BytesAreFinite
  <2>3. view' \in [Uploads -> [total : Nat, evicted : SUBSET Uploads]]
    <3>1. CASE StoreSourceEnds(u)
      BY <1>a, <3>1 DEF StoreSourceEnds
    <3>2. CASE view' = [view EXCEPT ![u].total = Size(stored)]
      BY <2>2, <3>2
    <3> QED
      BY <1>4, <3>1, <3>2 DEF ReadTotal
  <2> QED
    BY <2>1, <2>3
<1>5. CASE ReadGroups(u)
  <2>1. stored' = stored /\ stampedAt' = stampedAt /\ run' \in [Uploads -> Steps]
    BY <1>5 DEF ReadGroups, StoreSourceEnds
  <2>2. PICK E : E = Evicted(view[u].total, stored)
    OBVIOUS
  <2>3. E \in SUBSET Uploads
    BY <2>2 DEF Evicted
  <2>4. view' \in [Uploads -> [total : Nat, evicted : SUBSET Uploads]]
    <3>1. CASE StoreSourceEnds(u)
      BY <1>a, <3>1 DEF StoreSourceEnds
    <3>2. CASE view' = [view EXCEPT ![u].evicted = E]
      BY <2>3, <3>2
    <3> QED
      BY <1>5, <2>2, <3>1, <3>2 DEF ReadGroups
  <2> QED
    BY <2>1, <2>4
<1>6. CASE Evict(u)
  <2>1. /\ stored' \subseteq stored /\ stampedAt' = stampedAt
        /\ run' \in [Uploads -> Steps]
        /\ view' = [view EXCEPT ![u] = NoView]
    BY <1>6 DEF Evict, StoreSourceEnds
  <2>2. IsFiniteSet(stored')
    BY <2>1, FS_Subset
  <2> QED
    BY <1>a, <2>1, <2>2
<1>7. CASE Fail(u)
  BY <1>a, <1>7 DEF Fail, StoreSourceEnds
<1>8. CASE DeleteStep(u)
  <2>1. /\ stored' \subseteq stored
        /\ stampedAt' = stampedAt /\ run' = run /\ view' = view
    BY <1>8 DEF DeleteStep, StartDelete, DeleteRow, DeleteBlobs, FailDelete
  <2>2. IsFiniteSet(stored')
    BY <2>1, FS_Subset
  <2> QED
    BY <2>1, <2>2
<1> QED
  BY <1>1, <1>2, <1>3, <1>4, <1>5, <1>6, <1>7, <1>8 DEF RunnerStep

LEMMA NotYetKept ==
    ASSUME RowsTyped, NotYet, NEW u \in Uploads, RunnerStep(u) \/ DeleteStep(u)
    PROVE  NotYet'
<1>1. CASE RunnerStep(u)
  <2>1. /\ run' \in [Uploads -> Steps]
        /\ \A o \in Uploads \ {u} : run'[o] = run[o]
        /\ stored' \subseteq stored \cup {u}
        /\ run'[u] \in {"save", "put", "insert"} =>
              run[u] \in {"save", "put", "insert"} /\ stored' = stored
    BY <1>1, Names DEF RunnerStep, SaveReport, StartPut, Insert, ReadTotal, ReadGroups, Evict, Fail,
                 StoreSourceEnds, RowsTyped
  <2> QED
    BY <2>1 DEF NotYet
<1>2. CASE DeleteStep(u)
  BY <1>2 DEF NotYet, DeleteStep, StartDelete, DeleteRow, DeleteBlobs, FailDelete
<1> QED
  BY <1>1, <1>2

LEMMA FitsKept ==
    ASSUME RowsTyped, RowsTyped', Fits, NEW u \in Uploads, RunnerStep(u) \/ DeleteStep(u)
    PROVE  Fits'
<1>a. Size(stored) \in Nat /\ Size(stored') \in Nat
  BY BytesAreFinite DEF RowsTyped
(* A step of u that adds no row and no doubt, and ends no prune that helps. *)
<1>b. ASSUME stored' \subseteq stored, spoiled' = spoiled,
             \A w \in Uploads \ {u} : run'[w] = run[w] /\ view'[w] = view[w],
             WillFit(u) => Size(stored') <= Budget \/ WillFit(u)'
      PROVE  Fits'
  <2> SUFFICES ASSUME ~ spoiled' PROVE Size(stored') <= Budget \/ \E w \in Uploads : WillFit(w)'
    BY DEF Fits
  <2>1. CASE Size(stored) <= Budget
    <3>1. Size(stored') <= Size(stored)
      BY <1>b, SizesGrow, Zenon DEF RowsTyped
    <3> QED
      BY <1>a, <2>1, <3>1, BudgetAssumption
  <2>2. CASE \E w \in Uploads : WillFit(w)
    <3>1. PICK w \in Uploads : WillFit(w)
      BY <2>2
    <3>2. CASE w = u
      BY <1>b, <3>1, <3>2
    <3>3. CASE w # u
      BY <1>b, <3>1, <3>3, LessWillFit
    <3> QED
      BY <3>2, <3>3
  <2> QED
    BY <1>b, <2>1, <2>2 DEF Fits
<1>1. CASE SaveReport(u)
  <2>1. ~ WillFit(u)
    BY <1>1 DEF SaveReport, WillFit
  <2> QED
    BY <1>1, <1>b, <2>1 DEF SaveReport, RowsTyped
<1>2. CASE StartPut(u)
  <2>1. ~ WillFit(u)
    BY <1>2 DEF StartPut, WillFit
  <2> QED
    BY <1>2, <1>b, <2>1 DEF StartPut, RowsTyped
<1>3. CASE Insert(u)
  <2>1. run'[u] = "total"
    BY <1>3 DEF Insert, RowsTyped
  <2> QED
    BY <2>1 DEF Fits, WillFit
<1>4. CASE ReadTotal(u)
  <2>1. stored' = stored
    BY <1>4 DEF ReadTotal
  <2>2. CASE Size(stored) <= Budget
    BY <2>1, <2>2 DEF Fits
  <2>3. CASE ~ (Size(stored) <= Budget)
    <3>1. run' = [run EXCEPT ![u] = "groups"] /\ view' = [view EXCEPT ![u].total = Size(stored)]
      BY <1>4, <2>3 DEF ReadTotal
    <3>2. run'[u] = "groups" /\ view'[u].total = Size(stored)
      BY <3>1 DEF RowsTyped
    <3>3. Size(stored') <= view'[u].total
      BY <1>a, <2>1, <3>2
    <3> QED
      BY <3>2, <3>3 DEF Fits, WillFit
  <2> QED
    BY <2>2, <2>3
<1>5. CASE ReadGroups(u)
  <2>1. stored' = stored /\ spoiled' = spoiled /\ run[u] = "groups"
    BY <1>5 DEF ReadGroups
  <2>2. \A w \in Uploads \ {u} : run'[w] = run[w] /\ view'[w] = view[w]
    BY <1>5 DEF ReadGroups, StoreSourceEnds, RowsTyped
  <2>3. PICK E : E = Evicted(view[u].total, stored)
    OBVIOUS
  <2>4. ASSUME WillFit(u) PROVE Size(stored') <= Budget \/ WillFit(u)'
    <3>1. Size(stored) <= view[u].total
      BY <2>1, <2>4 DEF WillFit
    <3>2. view[u].total \in Nat /\ \A o \in stored : stampedAt[o] \in Nat
      BY DEF RowsTyped
    <3>3. Size(stored \ E) <= Budget
      BY <2>3, <3>1, <3>2, EvictedSuffice DEF RowsTyped
    <3>4. CASE E = {}
      <4>1. stored \ E = stored
        BY <3>4
      <4> QED
        BY <2>1, <3>3, <4>1
    <3>5. CASE E # {}
      <4>1. run' = [run EXCEPT ![u] = "evict"] /\ view' = [view EXCEPT ![u].evicted = E]
        BY <1>5, <2>3, <3>5 DEF ReadGroups
      <4>2. run'[u] = "evict" /\ view'[u].evicted = E
        BY <4>1 DEF RowsTyped
      <4>3. Size(stored' \ view'[u].evicted) <= Budget
        BY <2>1, <3>3, <4>2
      <4> QED
        BY <4>2, <4>3 DEF WillFit
    <3> QED
      BY <3>4, <3>5
  <2> QED
    BY <1>b, <2>1, <2>2, <2>4
<1>6. CASE Evict(u)
  <2>1. /\ stored' = stored \ view[u].evicted /\ spoiled' = spoiled /\ run[u] = "evict"
        /\ \A w \in Uploads \ {u} : run'[w] = run[w] /\ view'[w] = view[w]
    BY <1>6 DEF Evict, StoreSourceEnds, RowsTyped
  <2>2. ASSUME WillFit(u) PROVE Size(stored') <= Budget
    BY <2>1, <2>2 DEF WillFit
  <2> QED
    BY <1>b, <2>1, <2>2
<1>7. CASE Fail(u)
  <2>1. /\ stored' = stored /\ spoiled' = (spoiled \/ run[u] \in Pruning)
        /\ \A w \in Uploads \ {u} : run'[w] = run[w] /\ view'[w] = view[w]
    BY <1>7 DEF Fail, StoreSourceEnds, RowsTyped
  <2>2. CASE run[u] \in Pruning
    BY <2>1, <2>2 DEF Fits
  <2>3. CASE run[u] \notin Pruning
    <3>1. spoiled' <=> spoiled
      BY <2>1, <2>3
    <3>2. ~ WillFit(u)
      BY <2>3, Names DEF WillFit
    <3>3. ASSUME ~ spoiled', ~ (Size(stored') <= Budget) PROVE \E w \in Uploads : WillFit(w)'
      <4>1. PICK w \in Uploads : WillFit(w)
        BY <2>1, <3>1, <3>3 DEF Fits
      <4>2. w # u
        BY <3>2, <4>1
      <4> QED
        BY <2>1, <4>1, <4>2, LessWillFit
    <3> QED
      BY <3>3 DEF Fits
  <2> QED
    BY <2>2, <2>3
<1>8. CASE DeleteStep(u)
  <2>1. stored' \subseteq stored /\ spoiled' = spoiled /\ run' = run /\ view' = view
    BY <1>8 DEF DeleteStep, StartDelete, DeleteRow, DeleteBlobs, FailDelete
  <2>2. WillFit(u) => WillFit(u)'
    BY <2>1, LessWillFit
  <2> QED
    BY <1>b, <2>1, <2>2
<1> QED
  BY <1>1, <1>2, <1>3, <1>4, <1>5, <1>6, <1>7, <1>8 DEF RunnerStep

LEMMA StaysCurrent ==
    ASSUME NEW w \in Uploads, Current(w),
           run'[w] = run[w], view'[w] = view[w], w \notin overtaken' => w \notin overtaken,
           stored' = stored, \A o \in stored : stampedAt'[o] = stampedAt[o]
    PROVE  Current(w)'
<1>1. PICK total : total = view[w].total
  OBVIOUS
<1>2. Evicted(total, stored)' = Evicted(total, stored)
  <2>1. \A x \in stored : Older(x, stored)' = Older(x, stored)
    BY DEF Older
  <2>2. \A x \in stored : Size(Older(x, stored))' = Size(Older(x, stored))
    BY <2>1 DEF Size, Bytes
  <2> QED
    BY <2>2 DEF Evicted
<1>3. Size(stored)' = Size(stored)
  BY DEF Size, Bytes
<1> QED
  BY <1>1, <1>2, <1>3 DEF Current

LEMMA CurrentKept ==
    ASSUME RowsTyped, RowsTyped', NotYet, \A w \in Uploads : Current(w),
           NEW u \in Uploads, RunnerStep(u) \/ DeleteStep(u),
           NEW w \in Uploads
    PROVE  Current(w)'
<1>a. ASSUME run'[w] \notin {"groups", "evict"} PROVE Current(w)'
  BY <1>a DEF Current
<1>b. Current(w)
  OBVIOUS
<1>1. CASE SaveReport(u)
  <2>1. run'[w] = run[w] \/ run'[w] = "put"
    BY <1>1 DEF SaveReport, RowsTyped
  <2> QED
    BY <1>1, <1>a, <1>b, <2>1, StaysCurrent DEF SaveReport
<1>2. CASE StartPut(u)
  <2>1. run'[w] = run[w] \/ run'[w] \in {"ended", "insert"}
    BY <1>2 DEF StartPut, RowsTyped
  <2>2. \A o \in stored : stampedAt'[o] = stampedAt[o]
    BY <1>2 DEF StartPut, NotYet, RowsTyped
  <2> QED
    BY <1>2, <1>a, <1>b, <2>1, <2>2, StaysCurrent DEF StartPut
<1>3. CASE Insert(u)
  <2>1. CASE w = u
    BY <1>3, <1>a, <2>1 DEF Insert, RowsTyped
  <2>2. CASE w # u
    <3>1. run'[w] = run[w] /\ overtaken' = overtaken \cup Overtakes(u)
      BY <1>3, <2>2 DEF Insert, RowsTyped
    <3> QED
      BY <1>a, <2>2, <3>1 DEF Current, Overtakes
  <2> QED
    BY <2>1, <2>2
<1>4. CASE ReadTotal(u)
  <2>1. stored' = stored /\ stampedAt' = stampedAt /\ overtaken' = overtaken
    BY <1>4 DEF ReadTotal
  <2>2. CASE w # u
    <3>1. run'[w] = run[w] /\ view'[w] = view[w]
      BY <1>4, <2>2 DEF ReadTotal, StoreSourceEnds, RowsTyped
    <3> QED
      BY <1>b, <2>1, <3>1, StaysCurrent
  <2>3. CASE w = u /\ StoreSourceEnds(u)
    BY <1>a, <2>3 DEF StoreSourceEnds, RowsTyped
  <2>4. CASE w = u /\ ~ StoreSourceEnds(u)
    <3>1. /\ run' = [run EXCEPT ![u] = "groups"]
          /\ view' = [view EXCEPT ![u].total = Size(stored)]
          /\ Size(stored) > Budget
      BY <1>4, <2>4 DEF ReadTotal
    <3>2. run'[w] = "groups" /\ view'[w].total = Size(stored)
      BY <2>4, <3>1 DEF RowsTyped
    <3>3. Size(stored)' = Size(stored)
      BY <2>1 DEF Size, Bytes
    <3> QED
      BY <3>1, <3>2, <3>3 DEF Current
  <2> QED
    BY <2>2, <2>3, <2>4
<1>5. CASE ReadGroups(u)
  <2>1. stored' = stored /\ stampedAt' = stampedAt /\ run[u] = "groups"
    BY <1>5 DEF ReadGroups
  <2>2. CASE w # u
    <3>1. run'[w] = run[w] /\ view'[w] = view[w] /\ (w \notin overtaken' => w \notin overtaken)
      BY <1>5, <2>2 DEF ReadGroups, StoreSourceEnds, RowsTyped
    <3> QED
      BY <1>b, <2>1, <3>1, StaysCurrent
  <2>3. CASE w = u /\ StoreSourceEnds(u)
    BY <1>a, <2>3 DEF StoreSourceEnds, RowsTyped
  <2>4. CASE w = u /\ ~ StoreSourceEnds(u)
    <3>1. PICK total : total = view[u].total
      OBVIOUS
    <3>2. PICK E : E = Evicted(total, stored)
      OBVIOUS
    <3>3. /\ run' = [run EXCEPT ![u] = "evict"]
          /\ view' = [view EXCEPT ![u].evicted = E]
          /\ overtaken' = overtaken
      BY <1>5, <2>4, <3>1, <3>2 DEF ReadGroups
    <3>4. run'[w] = "evict" /\ view'[w].evicted = E /\ view'[w].total = total
      BY <2>4, <3>1, <3>3 DEF RowsTyped
    <3>5. Size(stored)' = Size(stored) /\ Evicted(total, stored)' = Evicted(total, stored)
      BY <2>1 DEF Size, Bytes, Evicted, Older
    <3>6. w \notin overtaken => total = Size(stored) /\ total > Budget
      BY <1>b, <2>1, <2>4, <3>1 DEF Current
    <3> QED
      BY <3>2, <3>3, <3>4, <3>5, <3>6 DEF Current
  <2> QED
    BY <2>2, <2>3, <2>4
<1>6. CASE Evict(u)
  <2>1. CASE w = u
    BY <1>6, <1>a, <2>1 DEF Evict, StoreSourceEnds, RowsTyped
  <2>2. CASE w # u
    <3>1. run'[w] = run[w] /\ overtaken' = (overtaken \cup Overtakes(u)) \ {u}
      BY <1>6, <2>2 DEF Evict, StoreSourceEnds, RowsTyped
    <3> QED
      BY <1>a, <2>2, <3>1 DEF Current, Overtakes
  <2> QED
    BY <2>1, <2>2
<1>7. CASE Fail(u)
  <2>1. CASE w = u
    BY <1>7, <1>a, <2>1 DEF Fail, StoreSourceEnds, RowsTyped
  <2>2. CASE w # u
    <3>1. /\ run'[w] = run[w] /\ view'[w] = view[w]
          /\ (w \notin overtaken' => w \notin overtaken)
          /\ stored' = stored /\ stampedAt' = stampedAt
      BY <1>7, <2>2 DEF Fail, StoreSourceEnds, RowsTyped
    <3> QED
      BY <1>b, <3>1, StaysCurrent
  <2> QED
    BY <2>1, <2>2
<1>8. CASE DeleteStep(u)
  <2>1. run' = run /\ view' = view /\ stampedAt' = stampedAt
    BY <1>8 DEF DeleteStep, StartDelete, DeleteRow, DeleteBlobs, FailDelete
  <2>2. CASE DeleteBlobs(u)
    <3>1. overtaken' = overtaken \cup {o \in Uploads : run[o] \in {"groups", "evict"}}
      BY <2>2 DEF DeleteBlobs
    <3> QED
      BY <1>a, <2>1, <3>1 DEF Current
  <2>3. CASE ~ DeleteBlobs(u)
    <3>1. stored' = stored /\ overtaken' = overtaken
      BY <1>8, <2>3 DEF DeleteStep, StartDelete, DeleteRow, FailDelete
    <3> QED
      BY <1>b, <2>1, <3>1, StaysCurrent
  <2> QED
    BY <2>2, <2>3
<1> QED
  BY <1>1, <1>2, <1>3, <1>4, <1>5, <1>6, <1>7, <1>8 DEF RunnerStep

LEMMA PruneInvInit == Init => PruneInv
<1> SUFFICES ASSUME Init PROVE PruneInv
  OBVIOUS
<1>1. IsFiniteSet({})
  BY FS_EmptySet
<1>2. RowsTyped
  <2>1. {u \in Uploads : stampedAt[u] # 0} = {}
    BY DEF Init
  <2> QED
    BY <1>1, <2>1, Names DEF Init, RowsTyped, NoView
<1>3. NotYet
  BY DEF Init, NotYet
<1>4. Fits
  BY NothingHasNoSize, BudgetAssumption DEF Init, Fits
<1>5. \A u \in Uploads : Current(u)
  BY DEF Init, Current
<1> QED
  BY <1>2, <1>3, <1>4, <1>5 DEF PruneInv

LEMMA PruneInvKept ==
    ASSUME PruneInv, [Next]_vars
    PROVE  PruneInv'
<1>1. CASE Next
  <2>1. PICK u \in Uploads : RunnerStep(u) \/ DeleteStep(u)
    BY <1>1 DEF Next
  <2>2. RowsTyped'
    BY <2>1, RowsStayTyped DEF PruneInv
  <2>3. NotYet'
    BY <2>1, NotYetKept DEF PruneInv
  <2>4. Fits'
    BY <2>1, <2>2, FitsKept DEF PruneInv
  <2>5. \A w \in Uploads : Current(w)'
    BY <2>1, <2>2, CurrentKept DEF PruneInv
  <2> QED
    BY <2>2, <2>3, <2>4, <2>5 DEF PruneInv
<1>2. CASE UNCHANGED vars
  <2>1. UNCHANGED <<run, view, stored, stampedAt, spoiled, overtaken>>
    BY <1>2 DEF vars
  <2> QED
    BY <2>1 DEF PruneInv, RowsTyped, NotYet, Fits, WillFit, Current, Size, Bytes, Evicted, Older
<1> QED
  BY <1>1, <1>2

(* Once no prune is under way and no failure is outstanding, what is       *)
(* stored fits in the budget, however uploads, prunes and deletions        *)
(* interleaved between their statements (blobs.py, prune, "after writing,  *)
(* not before").                                                           *)
THEOREM StoredFits == Spec => []FitsWhenQuiet
<1>1. PruneInv => FitsWhenQuiet
  <2> SUFFICES ASSUME PruneInv, ~ spoiled, \A u \in Uploads : run[u] \notin Pruning
               PROVE  Size(stored) <= Budget
    BY DEF FitsWhenQuiet
  <2>1. \A u \in Uploads : ~ WillFit(u)
    BY Names DEF WillFit
  <2> QED
    BY <2>1 DEF PruneInv, Fits
<1> QED
  BY <1>1, PruneInvInit, PruneInvKept, PTL DEF Spec

(* A prune that nobody overtook between its three statements evicts the    *)
(* oldest uploads and not one of them for nothing (blobs.py, prune).       *)
THEOREM PrunesAreExact == Spec => PruneIsExact
<1> DEFINE Exactly ==
        \A u \in Uploads :
            (u \notin overtaken /\ Evict(u)) =>
                LET gone == stored \ stored'
                IN  /\ Size(stored') <= Budget
                    /\ \A e \in gone :
                          /\ Older(e, stored') = {}
                          /\ Size(stored' \cup (gone \ Older(e, gone))) > Budget
<1>1. PruneInv /\ [Next]_vars => [Exactly]_vars
  <2> SUFFICES ASSUME PruneInv, NEW u \in Uploads, u \notin overtaken, Evict(u)
               PROVE  LET gone == stored \ stored'
                      IN  /\ Size(stored') <= Budget
                          /\ \A e \in gone :
                                /\ Older(e, stored') = {}
                                /\ Size(stored' \cup (gone \ Older(e, gone))) > Budget
    OBVIOUS
  <2>1. PICK S : S = stored
    OBVIOUS
  <2>2. stored' = S \ Evicted(Size(S), S)
    BY <2>1 DEF PruneInv, Current, Evict
  <2>3. /\ IsFiniteSet(S) /\ S \subseteq Uploads /\ \A o \in S : stampedAt[o] \in Nat
        /\ Evicted(Size(S), S) \subseteq S
    BY <2>1 DEF PruneInv, RowsTyped, Evicted
  <2>4. Size(S) \in Nat /\ Size(S) <= Size(S)
    BY <2>3, SizesGrow
  <2>5. Size(S \ Evicted(Size(S), S)) <= Budget
    BY <2>3, <2>4, EvictedSuffice
  <2>6. stored \ stored' = Evicted(Size(S), S)
    BY <2>1, <2>2, <2>3
  <2> QED
    BY <2>2, <2>3, <2>5, <2>6, EvictedAreNeeded, Zenon
<1> QED
  BY <1>1, PruneInvInit, PruneInvKept, PTL DEF Spec, PruneIsExact
=============================================================================
