------------------------ MODULE GitHubClients_proofs ------------------------
(***************************************************************************)
(* The two parts that ask GitHub about a branch that moves: what is kept   *)
(* of the model's answers, and what the model is sent (AIActions), and the *)
(* comments on a pull request (PullRequestComments), for any requests,     *)
(* findings, commits, answers and sizes.                                   *)
(***************************************************************************)
EXTENDS AIActions, PullRequestComments, SequenceTheorems, FiniteSetTheorems, TLAPS

-----------------------------------------------------------------------------
(* Sequences without repetitions of what they are ordered by.              *)
Distinct(s) == \A i, j \in DOMAIN s : s[i] = s[j] => i = j

LEMMA Removed ==
    ASSUME NEW S, NEW s \in Seq(S), NEW n \in DOMAIN s
    PROVE  /\ RemoveAt(s, n) \in Seq(S)
           /\ Len(RemoveAt(s, n)) = Len(s) - 1
           /\ \A k \in 1 .. (Len(s) - 1) : RemoveAt(s, n)[k] = s[IF k < n THEN k ELSE k + 1]
<1> DEFINE before == SubSeq(s, 1, n - 1)
           after == SubSeq(s, n + 1, Len(s))
<1>1. n \in 1 .. Len(s) /\ Len(s) \in Nat
  OBVIOUS
<1>2. /\ before \in Seq(S) /\ Len(before) = n - 1
      /\ \A k \in 1 .. (n - 1) : before[k] = s[k]
  BY <1>1
<1>3. /\ after \in Seq(S) /\ Len(after) = Len(s) - n
      /\ \A k \in 1 .. (Len(s) - n) : after[k] = s[n + k]
  BY <1>1
<1> HIDE DEF before, after
<1>4. /\ before \o after \in Seq(S) /\ Len(before \o after) = Len(s) - 1
      /\ \A k \in 1 .. (Len(s) - 1) :
            (before \o after)[k] = IF k <= n - 1 THEN before[k] ELSE after[k - (n - 1)]
  <2>1. /\ before \o after \in Seq(S) /\ Len(before \o after) = Len(before) + Len(after)
        /\ \A k \in 1 .. (Len(before) + Len(after)) :
              (before \o after)[k] = IF k <= Len(before) THEN before[k]
                                                        ELSE after[k - Len(before)]
    BY <1>2, <1>3, ConcatProperties
  <2>2. Len(before) + Len(after) = Len(s) - 1
    BY <1>1, <1>2, <1>3
  <2> QED
    BY <1>2, <2>1, <2>2
<1>5. \A k \in 1 .. (Len(s) - 1) : (before \o after)[k] = s[IF k < n THEN k ELSE k + 1]
  BY <1>1, <1>2, <1>3, <1>4
<1>6. before \o after = RemoveAt(s, n)
  BY DEF RemoveAt, before, after
<1> QED
  BY <1>4, <1>5, <1>6

(* Taking out the n-th and putting another last.                           *)
Renewal(s, n, e, t) ==
    /\ Len(t) = Len(s)
    /\ \A k \in 1 .. Len(s) : t[k] = IF k = Len(s) THEN e ELSE s[IF k < n THEN k ELSE k + 1]

LEMMA Renewed ==
    ASSUME NEW S, NEW s \in Seq(S), NEW n \in DOMAIN s, NEW e \in S
    PROVE  /\ Append(RemoveAt(s, n), e) \in Seq(S)
           /\ Renewal(s, n, e, Append(RemoveAt(s, n), e))
<1>1. /\ RemoveAt(s, n) \in Seq(S) /\ Len(RemoveAt(s, n)) = Len(s) - 1
      /\ \A k \in 1 .. (Len(s) - 1) : RemoveAt(s, n)[k] = s[IF k < n THEN k ELSE k + 1]
  BY Removed
<1>2. Len(s) \in Nat /\ n \in 1 .. Len(s)
  OBVIOUS
<1>3. ASSUME NEW r \in Seq(S), Len(r) = Len(s) - 1
      PROVE  /\ Append(r, e) \in Seq(S) /\ Len(Append(r, e)) = Len(s)
             /\ \A k \in 1 .. Len(s) : Append(r, e)[k] = IF k = Len(s) THEN e ELSE r[k]
  <2>1. /\ Append(r, e) \in Seq(S) /\ Len(Append(r, e)) = Len(r) + 1
        /\ \A k \in 1 .. Len(r) : Append(r, e)[k] = r[k]
        /\ Append(r, e)[Len(r) + 1] = e
    BY AppendProperties
  <2>2. Len(r) + 1 = Len(s) /\ 1 .. Len(r) = 1 .. (Len(s) - 1)
    BY <1>2, <1>3
  <2> QED
    BY <1>2, <1>3, <2>1, <2>2
<1>4. /\ Append(RemoveAt(s, n), e) \in Seq(S) /\ Len(Append(RemoveAt(s, n), e)) = Len(s)
      /\ \A k \in 1 .. Len(s) :
            Append(RemoveAt(s, n), e)[k] = IF k = Len(s) THEN e ELSE RemoveAt(s, n)[k]
  BY <1>1, <1>3
<1>5. \A k \in 1 .. Len(s) : k # Len(s) => k \in 1 .. (Len(s) - 1)
  BY <1>2
<1> QED
  BY <1>1, <1>4, <1>5 DEF Renewal

LEMMA AtIsThere ==
    ASSUME NEW s, NEW e, e \in ToSet(s)
    PROVE  At(s, e) \in DOMAIN s /\ s[At(s, e)] = e
  BY DEF At, ToSet

-----------------------------------------------------------------------------
(* The cache and the order of use.  Every key of the cache is where its    *)
(* last use is: the cache is the end of that order.                        *)
Entry == {a \in [kind : OutputKinds, key : Targets, of : {"nothing", "snippet", "window"}] :
             /\ IsValid(a.key[2], a.kind)
             /\ a.key[2] \in NeedsSource => a.of # "nothing"}

IsEnd(answers, keys) ==
    /\ Len(answers) <= Len(keys)
    /\ \A k \in 1 .. Len(answers) : answers[k].key = keys[Len(keys) - Len(answers) + k]

CacheInv ==
    /\ cache \in Seq(Entry) /\ used \in Seq(Targets)
    /\ Distinct(used)
    /\ IsEnd(cache, used)
    /\ Len(cache) = (IF Len(used) < CacheCapacity THEN Len(used) ELSE CacheCapacity)

LEMMA UseMoves ==
    ASSUME CacheInv, NEW key \in Targets
    PROVE  LET after == MoveToEnd(used, key)
           IN  /\ after \in Seq(Targets) /\ Distinct(after)
               /\ \/ /\ key \notin ToSet(used) /\ after = Append(used, key)
                  \/ /\ Len(after) = Len(used)
                     /\ \E n \in DOMAIN used : used[n] = key /\ Renewal(used, n, key, after)
<1> DEFINE after == MoveToEnd(used, key)
<1>1. used \in Seq(Targets) /\ Distinct(used) /\ Len(used) \in Nat /\ DOMAIN used = 1 .. Len(used)
  BY DEF CacheInv
<1>2. CASE key \notin ToSet(used)
  <2>1. after = Append(used, key)
    BY <1>2 DEF MoveToEnd, Dropped
  <2>2. /\ after \in Seq(Targets) /\ Len(after) = Len(used) + 1
        /\ \A k \in 1 .. Len(used) : after[k] = used[k]
        /\ after[Len(used) + 1] = key
    BY <1>1, <2>1, AppendProperties
  <2>3. \A k \in 1 .. Len(used) : used[k] # key
    BY <1>1, <1>2 DEF ToSet
  <2> HIDE DEF after
  <2>4. Distinct(after)
    BY <1>1, <2>2, <2>3 DEF Distinct
  <2> QED
    BY <1>2, <2>1, <2>2, <2>4 DEF after
<1>3. CASE key \in ToSet(used)
  <2> DEFINE n == At(used, key)
  <2>1. n \in DOMAIN used /\ used[n] = key
    BY <1>3, AtIsThere
  <2>2. after = Append(RemoveAt(used, n), key)
    BY <1>3 DEF MoveToEnd, Dropped
  <2> HIDE DEF n, after
  <2>3. /\ after \in Seq(Targets) /\ Len(after) = Len(used)
        /\ Renewal(used, n, key, after)
    <3>1. n \in DOMAIN used
      BY <2>1
    <3>2. used \in Seq(Targets) /\ key \in Targets
      BY <1>1
    <3>3. after \in Seq(Targets) /\ Renewal(used, n, key, after)
      BY <2>2, <3>1, <3>2, Renewed, Zenon
    <3> QED
      BY <3>3 DEF Renewal
  <2>4. ASSUME NEW i \in DOMAIN after, NEW j \in DOMAIN after, after[i] = after[j]
        PROVE  i = j
    <3> DEFINE from(k) == IF k = Len(used) THEN n ELSE IF k < n THEN k ELSE k + 1
    <3>1. DOMAIN after = 1 .. Len(used)
      <4>1. after \in Seq(Targets) /\ Len(after) = Len(used)
        BY <2>3
      <4> QED
        BY <4>1
    <3>2. \A k \in 1 .. Len(used) : from(k) \in DOMAIN used
      <4>1. Len(used) \in Nat /\ n \in 1 .. Len(used)
        BY <1>1, <2>1
      <4>2. \A k \in 1 .. Len(used) : from(k) \in 1 .. Len(used)
        BY <4>1
      <4> QED
        BY <1>1, <4>2
    <3>3. \A k \in 1 .. Len(used) : after[k] = used[from(k)]
      <4>1. \A k \in 1 .. Len(used) :
               after[k] = IF k = Len(used) THEN key ELSE used[IF k < n THEN k ELSE k + 1]
        BY <2>3 DEF Renewal
      <4> QED
        BY <2>1, <4>1
    <3>4. from(i) = from(j)
      <4> HIDE DEF from
      <4> QED
        BY <1>1, <2>4, <3>1, <3>2, <3>3 DEF Distinct
    <3> QED
      BY <1>1, <2>1, <3>1, <3>4
  <2> QED
    BY <2>1, <2>3, <2>4 DEF Distinct, after
<1> QED
  BY <1>2, <1>3

LEMMA KeyIsThere ==
    ASSUME CacheInv, NEW key \in Keys(cache)
    PROVE  /\ Cached(key) \in ToSet(cache) /\ Cached(key).key = key
           /\ \E n \in DOMAIN cache : /\ cache[n].key = key
                                    /\ Without(cache, key) = RemoveAt(cache, n)
<1>1. \E a \in ToSet(cache) : a.key = key
  BY DEF Keys, ToSet
<1>2. Cached(key) \in ToSet(cache) /\ Cached(key).key = key
  BY <1>1 DEF Cached
<1>3. key \in ToSet(InOrder(cache))
  BY DEF Keys, ToSet, InOrder
<1>4. At(InOrder(cache), key) \in DOMAIN cache /\ cache[At(InOrder(cache), key)].key = key
  BY <1>3, AtIsThere DEF InOrder
<1> QED
  BY <1>2, <1>4 DEF Without

(* A key that is in the cache moves to the end of both.                    *)
LEMMA HitKeepsEnd ==
    ASSUME CacheInv, NEW answer \in Entry, answer.key \in Keys(cache)
    PROVE  LET answers == Append(Without(cache, answer.key), answer)
               keys == MoveToEnd(used, answer.key)
           IN  /\ answers \in Seq(Entry) /\ keys \in Seq(Targets) /\ Distinct(keys)
               /\ Len(answers) = Len(cache) /\ Len(keys) = Len(used)
               /\ IsEnd(answers, keys)
<1> DEFINE key == answer.key
           answers == Append(Without(cache, key), answer)
           keys == MoveToEnd(used, key)
           off == Len(used) - Len(cache)
<1>1. /\ used \in Seq(Targets) /\ Len(used) \in Nat /\ DOMAIN used = 1 .. Len(used)
      /\ cache \in Seq(Entry) /\ Len(cache) \in Nat /\ DOMAIN cache = 1 .. Len(cache)
      /\ Distinct(used) /\ Len(cache) <= Len(used)
      /\ \A k \in 1 .. Len(cache) : cache[k].key = used[off + k]
  BY DEF CacheInv, IsEnd
<1>0. Len(used) \in Nat /\ Len(cache) \in Nat /\ Len(cache) <= Len(used)
  BY <1>1
<1>2. key \in Targets
  BY DEF Entry
<1>3. PICK m \in DOMAIN cache : cache[m].key = key /\ Without(cache, key) = RemoveAt(cache, m)
  BY KeyIsThere
<1>4. answers = Append(RemoveAt(cache, m), answer)
  BY <1>3
<1> HIDE DEF answers, key
<1>5. /\ answers \in Seq(Entry) /\ Len(answers) = Len(cache)
      /\ \A k \in 1 .. Len(cache) :
            answers[k] = IF k = Len(cache) THEN answer ELSE cache[IF k < m THEN k ELSE k + 1]
  <2>1. cache \in Seq(Entry) /\ m \in DOMAIN cache
    BY <1>1, <1>3
  <2> QED
    <3>1. answer \in Entry
      OBVIOUS
    <3>2. answers \in Seq(Entry) /\ Renewal(cache, m, answer, answers)
      BY <1>4, <2>1, <3>1, Renewed, Zenon
    <3> QED
      BY <3>2 DEF Renewal
<1>6. off + m \in DOMAIN used /\ used[off + m] = key
  BY <1>1, <1>3
<1>7. /\ keys \in Seq(Targets) /\ Distinct(keys) /\ Len(keys) = Len(used)
      /\ \A k \in 1 .. Len(used) :
            keys[k] = IF k = Len(used) THEN key ELSE used[IF k < off + m THEN k ELSE k + 1]
  <2>1. key \in ToSet(used)
    BY <1>6 DEF ToSet
  <2>2. /\ keys \in Seq(Targets) /\ Distinct(keys) /\ Len(keys) = Len(used)
        /\ \E n \in DOMAIN used : used[n] = key /\ Renewal(used, n, key, keys)
    BY <1>2, <2>1, UseMoves
  <2> HIDE DEF keys
  <2> QED
    BY <1>1, <1>6, <2>2 DEF Distinct, Renewal
<1> HIDE DEF keys
<1>8. ASSUME NEW k \in 1 .. Len(cache) PROVE answers[k].key = keys[off + k]
  <2>1. /\ k \in Int /\ m \in 1 .. Len(cache) /\ off + k \in 1 .. Len(used)
        /\ off + k = Len(used) <=> k = Len(cache)
        /\ off + k < off + m <=> k < m
    <3>1. m \in 1 .. Len(cache)
      BY <1>1
    <3> QED
      BY <1>0, <3>1
  <2>2. CASE k = Len(cache)
    BY <1>5, <1>7, <2>1, <2>2 DEF key
  <2>3. CASE k # Len(cache) /\ k < m
    BY <1>1, <1>5, <1>7, <2>1, <2>3
  <2>4. CASE k # Len(cache) /\ ~ (k < m)
    <3>1. answers[k] = cache[k + 1] /\ keys[off + k] = used[off + k + 1]
      BY <1>5, <1>7, <2>1, <2>4
    <3>2. k + 1 \in 1 .. Len(cache) /\ off + (k + 1) = off + k + 1
      BY <1>0, <2>1, <2>4
    <3> QED
      BY <1>1, <3>1, <3>2
  <2> QED
    BY <2>2, <2>3, <2>4
<1>9. IsEnd(answers, keys)
  BY <1>1, <1>5, <1>7, <1>8 DEF IsEnd
<1> QED
  BY <1>5, <1>7, <1>9 DEF answers, keys, key

(* A key that is not in the cache comes last; the cache loses its first    *)
(* when it is full, and the order of use grows unless the key was used     *)
(* before the cache lost it.                                               *)
Shifted(s, e, t, n) ==
    /\ Len(t) = Len(s) + 1 - n
    /\ \A k \in 1 .. Len(t) : t[k] = IF k + n = Len(s) + 1 THEN e ELSE s[k + n]

LEMMA ShiftedIn ==
    ASSUME NEW S, NEW s \in Seq(S), NEW e \in S, NEW n \in 0 .. Len(s)
    PROVE  LET t == SubSeq(Append(s, e), 1 + n, Len(Append(s, e)))
           IN  t \in Seq(S) /\ Shifted(s, e, t, n)
<1>1. /\ Append(s, e) \in Seq(S) /\ Len(Append(s, e)) = Len(s) + 1
      /\ \A k \in 1 .. Len(s) : Append(s, e)[k] = s[k]
      /\ Append(s, e)[Len(s) + 1] = e
  BY AppendProperties
<1>2. Len(s) \in Nat
  OBVIOUS
<1>3. ASSUME NEW a \in Seq(S), Len(a) = Len(s) + 1,
             \A k \in 1 .. Len(s) : a[k] = s[k], a[Len(s) + 1] = e
      PROVE  SubSeq(a, 1 + n, Len(a)) \in Seq(S) /\ Shifted(s, e, SubSeq(a, 1 + n, Len(a)), n)
  <2>1. 1 + n \in 1 .. (Len(a) + 1) /\ Len(a) \in Nat /\ n \in Nat
    BY <1>2, <1>3
  <2>2. /\ SubSeq(a, 1 + n, Len(a)) \in Seq(S)
        /\ Len(SubSeq(a, 1 + n, Len(a))) = Len(a) - n
        /\ \A k \in 1 .. (Len(a) - n) : SubSeq(a, 1 + n, Len(a))[k] = a[k + n]
    BY <2>1
  <2>3. \A k \in 1 .. (Len(a) - n) : k + n \in 1 .. (Len(s) + 1)
    BY <1>2, <1>3, <2>1
  <2> QED
    BY <1>2, <1>3, <2>1, <2>2, <2>3 DEF Shifted
<1> QED
  BY <1>1, <1>3

LEMMA MissKeepsEnd ==
    ASSUME CacheInv, NEW answer \in Entry, answer.key \notin Keys(cache)
    PROVE  LET answers == AfterPut(answer)
               keys == MoveToEnd(used, answer.key)
           IN  /\ answers \in Seq(Entry) /\ keys \in Seq(Targets) /\ Distinct(keys)
               /\ IsEnd(answers, keys)
               /\ Len(answers) = (IF Len(keys) < CacheCapacity THEN Len(keys) ELSE CacheCapacity)
<1> DEFINE key == answer.key
           answers == AfterPut(answer)
           keys == MoveToEnd(used, key)
           off == Len(used) - Len(cache)
           n == IF Len(cache) + 1 > CacheCapacity THEN Len(cache) + 1 - CacheCapacity ELSE 0
<1>1. /\ used \in Seq(Targets) /\ DOMAIN used = 1 .. Len(used)
      /\ cache \in Seq(Entry) /\ DOMAIN cache = 1 .. Len(cache)
      /\ \A k \in 1 .. Len(cache) : cache[k].key = used[off + k]
  BY DEF CacheInv, IsEnd
<1>2. /\ Len(used) \in Nat /\ Len(cache) \in Nat /\ Len(cache) <= Len(used)
      /\ Len(cache) = (IF Len(used) < CacheCapacity THEN Len(used) ELSE CacheCapacity)
      /\ CacheCapacity \in Nat \ {0}
  BY <1>1, ContextAssumption DEF CacheInv, IsEnd
<1>3. /\ n \in 0 .. Len(cache) /\ n \in {0, 1}
      /\ n = 0 => Len(cache) = Len(used) /\ Len(used) < CacheCapacity
      /\ n = 1 => Len(cache) = CacheCapacity
  BY <1>2
<1>4. key \in Targets
  BY DEF Entry
<1>5. answers \in Seq(Entry) /\ Shifted(cache, answer, answers, n)
  <2>1. Without(cache, key) = cache
    BY DEF Without
  <2>2. Len(Append(cache, answer)) = Len(cache) + 1
    BY <1>1
  <2> DEFINE all == Append(cache, answer)
             over == IF Len(all) > CacheCapacity THEN Len(all) - CacheCapacity ELSE 0
  <2>3. answers = SubSeq(all, 1 + over, Len(all))
    BY <2>1, Zenon DEF AfterPut
  <2>4. over = n
    <3>1. Len(all) = Len(cache) + 1
      BY <2>2
    <3> HIDE DEF all
    <3> QED
      BY <1>2, <3>1
  <2> HIDE DEF answers, over, n
  <2>5. answers = SubSeq(Append(cache, answer), 1 + n, Len(Append(cache, answer)))
    BY <2>3, <2>4
  <2> QED
    BY <1>1, <1>3, <2>5, ShiftedIn, Zenon
<1> HIDE DEF answers, n
<1>6. /\ keys \in Seq(Targets) /\ Distinct(keys)
      /\ \/ keys = Append(used, key)
         \/ \E p \in DOMAIN used : used[p] = key /\ Renewal(used, p, key, keys)
  BY <1>4, UseMoves
<1> HIDE DEF keys
<1>7. Len(answers) = Len(cache) + 1 - n /\ Len(answers) \in Nat /\ n \in Nat
  BY <1>2, <1>3, <1>5 DEF Shifted
<1>8. ASSUME NEW k \in 1 .. Len(answers)
      PROVE  /\ k + n = Len(cache) + 1 => answers[k].key = key
             /\ k + n # Len(cache) + 1 => answers[k].key = used[off + (k + n)]
  <2>1. answers[k] = IF k + n = Len(cache) + 1 THEN answer ELSE cache[k + n]
    BY <1>5 DEF Shifted
  <2>2. k + n # Len(cache) + 1 => k + n \in 1 .. Len(cache)
    BY <1>2, <1>3, <1>7
  <2>3. k + n # Len(cache) + 1 => cache[k + n].key = used[off + (k + n)]
    BY <1>1, <2>2
  <2> QED
    BY <2>1, <2>3
<1>9. CASE keys = Append(used, key)
  <2>1. /\ Len(keys) = Len(used) + 1 /\ keys[Len(used) + 1] = key
        /\ \A k \in 1 .. Len(used) : keys[k] = used[k]
    BY <1>1, <1>4, <1>9, AppendProperties
  <2>4. Len(keys) = Len(used) + 1
    BY <2>1
  <2>2. /\ Len(answers) <= Len(keys)
        /\ Len(answers) = (IF Len(keys) < CacheCapacity THEN Len(keys) ELSE CacheCapacity)
    BY <1>2, <1>3, <1>7, <2>1
  <2>3. ASSUME NEW k \in 1 .. Len(answers)
        PROVE  answers[k].key = keys[Len(keys) - Len(answers) + k]
    <3>1. CASE k + n = Len(cache) + 1
      <4>0. k \in Int
        BY <1>7
      <4>1. Len(keys) - Len(answers) + k = Len(used) + 1
        <5>1. Len(used) \in Nat /\ Len(cache) \in Nat
          BY <1>2
        <5> QED
          BY <1>7, <2>4, <3>1, <4>0, <5>1
      <4> QED
        BY <1>8, <2>1, <3>1, <4>1
    <3>2. CASE k + n # Len(cache) + 1
      <4>1. /\ Len(keys) - Len(answers) + k = off + (k + n)
            /\ off + (k + n) \in 1 .. Len(used)
        BY <1>2, <1>3, <1>7, <2>4, <3>2
      <4> QED
        BY <1>8, <2>1, <3>2, <4>1
    <3> QED
      BY <3>1, <3>2
  <2> QED
    BY <1>5, <1>6, <2>2, <2>3 DEF IsEnd, keys, answers, key
<1>10. ASSUME NEW p \in DOMAIN used, used[p] = key, Renewal(used, p, key, keys)
       PROVE  /\ IsEnd(answers, keys)
              /\ Len(answers) = (IF Len(keys) < CacheCapacity THEN Len(keys) ELSE CacheCapacity)
  <2>1. /\ Len(keys) = Len(used)
        /\ \A k \in 1 .. Len(used) :
              keys[k] = IF k = Len(used) THEN key ELSE used[IF k < p THEN k ELSE k + 1]
    BY <1>10 DEF Renewal
  <2>2. p \in 1 .. Len(used) /\ Len(keys) = Len(used)
    BY <1>1, <2>1
  <2>3. p <= off
    <3> SUFFICES ASSUME off < p PROVE FALSE
      BY <1>2, <2>2
    <3>1. p - off \in 1 .. Len(cache) /\ off + (p - off) = p
      BY <1>2, <2>2
    <3>2. cache[p - off].key = key
      BY <1>1, <1>10, <3>1
    <3> QED
      BY <1>1, <3>1, <3>2 DEF Keys
  <2>4. n = 1 /\ Len(cache) = CacheCapacity
    BY <1>2, <1>3, <2>2, <2>3
  <2>5. /\ Len(answers) <= Len(keys)
        /\ Len(answers) = (IF Len(keys) < CacheCapacity THEN Len(keys) ELSE CacheCapacity)
    BY <1>2, <1>7, <2>1, <2>4
  <2>6. ASSUME NEW k \in 1 .. Len(answers)
        PROVE  answers[k].key = keys[Len(keys) - Len(answers) + k]
    <3>0. k \in Int
      BY <1>7
    <3>1. /\ Len(keys) - Len(answers) + k = off + k /\ off + k \in 1 .. Len(used)
          /\ off + k = Len(used) <=> k + n = Len(cache) + 1
          /\ ~ (off + k < p) /\ off + (k + n) = off + k + 1
      <4>1. Len(used) \in Nat /\ Len(cache) \in Nat /\ p \in Int
        BY <1>2, <2>2
      <4>2. Len(answers) = Len(cache)
        BY <1>7, <2>4, <4>1
      <4>3. Len(cache) <= Len(used)
        BY <1>2
      <4> QED
        BY <2>2, <2>3, <2>4, <3>0, <4>1, <4>2, <4>3
    <3>2. CASE k + n = Len(cache) + 1
      BY <1>8, <2>1, <3>1, <3>2
    <3>3. CASE k + n # Len(cache) + 1
      BY <1>8, <2>1, <3>1, <3>3
    <3> QED
      BY <3>2, <3>3
  <2> QED
    BY <2>5, <2>6 DEF IsEnd
<1> QED
  BY <1>5, <1>6, <1>9, <1>10 DEF keys, answers, key

LEMMA PutKeepsCache ==
    ASSUME CacheInv, NEW answer \in Entry, cache' = AfterPut(answer),
           used' = MoveToEnd(used, answer.key)
    PROVE  CacheInv'
<1>1. /\ cache \in Seq(Entry) /\ Len(cache) \in Nat /\ CacheCapacity \in Nat
      /\ Len(cache) = (IF Len(used) < CacheCapacity THEN Len(used) ELSE CacheCapacity)
      /\ Len(used) \in Nat
  BY ContextAssumption DEF CacheInv
<1>2. CASE answer.key \notin Keys(cache)
  BY <1>2, MissKeepsEnd DEF CacheInv
<1>3. CASE answer.key \in Keys(cache)
  <2> DEFINE all == Append(Without(cache, answer.key), answer)
             keys == MoveToEnd(used, answer.key)
  <2>1. /\ all \in Seq(Entry) /\ keys \in Seq(Targets) /\ Distinct(keys)
        /\ Len(all) = Len(cache) /\ Len(keys) = Len(used) /\ IsEnd(all, keys)
    BY <1>3, HitKeepsEnd
  <2>2. cache' = SubSeq(all, 1 + (IF Len(all) > CacheCapacity THEN Len(all) - CacheCapacity
                                                              ELSE 0), Len(all))
    BY DEF AfterPut
  <2> HIDE DEF all, keys
  <2>3. ~ (Len(all) > CacheCapacity)
    BY <1>1, <2>1
  <2>4. cache' = SubSeq(all, 1, Len(all))
    BY <2>2, <2>3
  <2>5. cache' = all
    BY <2>1, <2>4, SubSeqFull
  <2>6. used' = keys
    BY DEF keys
  <2> QED
    BY <1>1, <2>1, <2>5, <2>6 DEF CacheInv
<1> QED
  BY <1>2, <1>3

LEMMA HitKeepsCache ==
    ASSUME CacheInv, NEW key \in Keys(cache), cache' = AfterHit(key), used' = MoveToEnd(used, key)
    PROVE  CacheInv' /\ Cached(key) \in Entry
<1>1. Cached(key) \in ToSet(cache) /\ Cached(key).key = key
  BY KeyIsThere
<1>2. Cached(key) \in Entry
  BY <1>1 DEF CacheInv, ToSet
<1>3. cache' = Append(Without(cache, Cached(key).key), Cached(key))
  BY <1>1 DEF AfterHit
<1>4. used' = MoveToEnd(used, Cached(key).key)
  BY <1>1
<1>5. Cached(key).key \in Keys(cache)
  BY <1>1
<1> HIDE DEF Cached
<1>6. /\ cache' \in Seq(Entry) /\ used' \in Seq(Targets) /\ Distinct(used')
      /\ Len(cache') = Len(cache) /\ Len(used') = Len(used) /\ IsEnd(cache', used')
  BY <1>2, <1>3, <1>4, <1>5, HitKeepsEnd
<1> QED
  BY <1>2, <1>6 DEF CacheInv

-----------------------------------------------------------------------------
(* The branch: until the archive is asked for, a report that is not moved  *)
(* has the commit the branch is at, or none; then that of its tree.        *)
ReportInv(r) ==
    /\ analysis[r].step \in {"idle", "meta", "commit"} => analysis[r].commit = NoCommit
    /\ analysis[r].step = "tarball" /\ r \notin moved => analysis[r].commit \in {NoCommit, head}
    /\ analysis[r].step = "done" => /\ analysis[r].tree \in Commits
                                    /\ r \notin moved =>
                                          analysis[r].commit \in {NoCommit, analysis[r].tree}

GitHubInv == GitHubTypeOK /\ \A r \in Reports : ReportInv(r)

ViewedInv ==
    /\ DOMAIN viewed = Viewings
    /\ \A v \in Shown : /\ viewed[v].report \in Made
                        /\ viewed[v].of = analysis[viewed[v].report].commit
                        /\ viewed[v].of # NoCommit

(* What a request that the model has been asked for sent it.               *)
IsSent(sent, r, key) ==
    /\ sent.kind \in {"nothing", "snippet", "window"}
    /\ key[2] \in NeedsSource => sent.kind # "nothing"
    /\ sent.kind = "snippet" => sent.of = analysis[r].tree
    /\ sent.kind = "window" =>
          /\ Findings[key[1]].line > 0
          /\ sent.of = analysis[r].commit /\ sent.of # NoCommit
          /\ sent.described = Window(Findings[key[1]], Length[sent.of])

RequestInv(q) ==
    /\ ask[q].step \in {"read", "complete"} => ask[q].report \in Made /\ ask[q].key \in Targets
    /\ ask[q].step = "read" =>
          ask[q] = [step |-> "read", report |-> ask[q].report, key |-> ask[q].key, sent |-> Nothing]
    /\ ask[q].step = "complete" => IsSent(ask[q].sent, ask[q].report, ask[q].key)
    /\ ask[q].step = "answered" => ask[q].answer \in Entry

AskInv == DOMAIN ask = Asks /\ \A q \in Asks : RequestInv(q)

ActionsInv == GitHubInv /\ ViewedInv /\ AskInv /\ CacheInv

(* Reports do not change, and only a branch that moves under an archive    *)
(* that is asked for spoils one.                                           *)
Frozen == \A r \in Made : r \in Made' /\ analysis'[r] = analysis[r]

LEMMA BranchKeeps ==
    ASSUME GitHubInv, UNCHANGED <<head, private, gone, moved>>, Trouble \/ UNCHANGED troubles,
           NEW r \in Reports, analysis[r].step # "done",
           NEW a \in [step : Steps, private : BOOLEAN, commit : Commits \cup {NoCommit},
                      tree : Commits \cup {NoCommit}],
           analysis' = [analysis EXCEPT ![r] = a], ReportInv(r)'
    PROVE  GitHubInv' /\ Frozen
<1>1. /\ analysis' \in [Reports -> [step : Steps, private : BOOLEAN,
                                  commit : Commits \cup {NoCommit},
                                  tree : Commits \cup {NoCommit}]]
      /\ \A s \in Reports : s # r => analysis'[s] = analysis[s]
  BY DEF GitHubInv, GitHubTypeOK
<1>2. troubles' \in 0 .. MaxTroubles
  BY CommitsAssumption DEF GitHubInv, GitHubTypeOK, Trouble
<1>3. GitHubTypeOK'
  BY <1>1, <1>2 DEF GitHubInv, GitHubTypeOK, Commits
<1>4. ASSUME NEW s \in Reports, s # r PROVE ReportInv(s)'
  <2>1. analysis'[s] = analysis[s] /\ ReportInv(s)
    BY <1>1, <1>4 DEF GitHubInv
  <2> QED
    BY <2>1 DEF ReportInv, Commits
<1>5. Frozen
  BY <1>1 DEF Frozen, Made
<1> QED
  BY <1>3, <1>4, <1>5 DEF GitHubInv

LEMMA BranchStep ==
    ASSUME GitHubInv, GitHubStep
    PROVE  GitHubInv' /\ Frozen /\ moved \subseteq moved'
<1>1. GitHubTypeOK /\ \A r \in Reports : ReportInv(r)
  BY DEF GitHubInv
<1>2. CASE Push
  <2>1. troubles' \in 0 .. MaxTroubles
    BY <1>1, <1>2, CommitsAssumption DEF Push, Trouble, GitHubTypeOK
  <2>2. head' \in Commits /\ gone' \subseteq Commits
    <3>1. head \in Commits /\ gone \subseteq Commits
      BY <1>1 DEF GitHubTypeOK
    <3>2. head < MaxCommit /\ head' = head + 1 /\ (gone' = gone \/ gone' = gone \cup {head})
      BY <1>2, Zenon DEF Push
    <3>3. head' \in Commits
      BY <3>1, <3>2, CommitsAssumption DEF Commits
    <3> QED
      BY <3>1, <3>2, <3>3
  <2>3. /\ moved' = moved \cup {r \in Reports : analysis[r].step = "tarball"}
        /\ analysis' = analysis /\ private' = private
    BY <1>2 DEF Push
  <2>4. GitHubTypeOK'
    BY <1>1, <2>1, <2>2, <2>3 DEF GitHubTypeOK, Commits
  <2>5. ASSUME NEW r \in Reports PROVE ReportInv(r)'
    <3>1. ReportInv(r)
      BY <1>1
    <3>2. analysis[r].step = "tarball" => r \in moved'
      BY <2>3
    <3>3. r \notin moved' => r \notin moved
      BY <2>3
    <3> QED
      BY <2>3, <3>1, <3>2, <3>3 DEF ReportInv, Commits
  <2>6. Frozen /\ moved \subseteq moved'
    BY <2>3 DEF Frozen, Made
  <2> QED
    BY <2>4, <2>5, <2>6 DEF GitHubInv
<1>3. CASE MakePrivate
  <2>1. /\ UNCHANGED <<head, gone, analysis, moved>> /\ private' \in BOOLEAN
        /\ troubles' \in 0 .. MaxTroubles
    BY <1>1, <1>3, CommitsAssumption DEF MakePrivate, Trouble, GitHubTypeOK
  <2>2. GitHubTypeOK'
    BY <1>1, <2>1 DEF GitHubTypeOK, Commits
  <2>3. \A r \in Reports : ReportInv(r)'
    BY <1>1, <2>1 DEF ReportInv, Commits
  <2> QED
    BY <2>1, <2>2, <2>3 DEF GitHubInv, Frozen, Made
<1>4. ASSUME NEW r \in Reports, Analyse(r)
      PROVE  GitHubInv' /\ Frozen /\ moved \subseteq moved'
  <2> DEFINE Kinds == [step : Steps, private : BOOLEAN, commit : Commits \cup {NoCommit},
                       tree : Commits \cup {NoCommit}]
             Kept == /\ UNCHANGED <<head, private, gone, moved>>
                     /\ Trouble \/ UNCHANGED troubles
                     /\ analysis[r].step # "done"
                     /\ \E a \in Kinds : analysis' = [analysis EXCEPT ![r] = a]
                     /\ ReportInv(r)'
  <2>1. /\ analysis[r] \in Kinds /\ DOMAIN analysis = Reports /\ ReportInv(r)
        /\ head \in Commits /\ private \in BOOLEAN
    BY <1>1 DEF GitHubTypeOK
  <2>2. ASSUME BeginAnalysis(r) PROVE Kept
    <3> DEFINE a == [analysis[r] EXCEPT !.step = "meta"]
    <3>1. a \in Kinds /\ a.step = "meta" /\ a.commit = analysis[r].commit
      BY <2>1 DEF Steps
    <3>2. /\ analysis' = [analysis EXCEPT ![r] = a] /\ analysis[r].step = "idle"
          /\ UNCHANGED <<head, private, gone, troubles, moved>>
      BY <2>2, Zenon DEF BeginAnalysis
    <3> HIDE DEF a
    <3>3. analysis'[r] = a
      BY <2>1, <3>2
    <3>4. ReportInv(r)'
      BY <2>1, <3>1, <3>2, <3>3 DEF ReportInv
    <3> QED
      BY <3>1, <3>2, <3>4, Zenon
  <2>3. ASSUME FetchMeta(r) PROVE Kept
    <3> DEFINE a == [analysis[r] EXCEPT
                        !.step = IF Visible(r \in AsUser) /\ (private => r \in AsUser)
                                 THEN "commit" ELSE "failed",
                        !.private = private]
    <3>1. a \in Kinds /\ a.step \in {"commit", "failed"} /\ a.commit = analysis[r].commit
      BY <2>1 DEF Steps
    <3>2. /\ analysis' = [analysis EXCEPT ![r] = a] /\ analysis[r].step = "meta"
          /\ UNCHANGED <<head, private, gone, troubles, moved>>
      BY <2>3, Zenon DEF FetchMeta
    <3> HIDE DEF a
    <3>3. analysis'[r] = a
      BY <2>1, <3>2
    <3>4. ReportInv(r)'
      BY <2>1, <3>1, <3>2, <3>3 DEF ReportInv
    <3> QED
      BY <3>1, <3>2, <3>4, Zenon
  <2>4. ASSUME FetchCommit(r) PROVE Kept
    <3>1. \E c \in {analysis[r].commit, head} :
             analysis' = [analysis EXCEPT ![r] = [analysis[r] EXCEPT !.step = "tarball", !.commit = c]]
      <4>1. [analysis[r] EXCEPT !.step = "tarball"]
              = [analysis[r] EXCEPT !.step = "tarball", !.commit = analysis[r].commit]
        BY <2>1
      <4> QED
        BY <2>4, <4>1 DEF FetchCommit
    <3>2. PICK c \in {analysis[r].commit, head} :
             analysis' = [analysis EXCEPT ![r] = [analysis[r] EXCEPT !.step = "tarball", !.commit = c]]
      BY <3>1
    <3> DEFINE a == [analysis[r] EXCEPT !.step = "tarball", !.commit = c]
    <3>3. a \in Kinds /\ a.step = "tarball" /\ a.commit = c
      BY <2>1 DEF Steps
    <3>4. /\ analysis[r].step = "commit" /\ analysis' = [analysis EXCEPT ![r] = a]
          /\ UNCHANGED <<head, private, gone, moved>> /\ (Trouble \/ UNCHANGED troubles)
      BY <2>4, <3>2, Zenon DEF FetchCommit
    <3> HIDE DEF a
    <3>5. analysis'[r] = a
      BY <2>1, <3>4
    <3>6. ReportInv(r)'
      BY <2>1, <3>3, <3>4, <3>5 DEF ReportInv
    <3> QED
      BY <3>3, <3>4, <3>6, Zenon
  <2>5. ASSUME FetchTarball(r) PROVE Kept
    <3> DEFINE a == [analysis[r] EXCEPT
                        !.step = IF Visible(r \in AsUser) THEN "done" ELSE "failed",
                        !.tree = IF Visible(r \in AsUser) THEN head ELSE NoCommit]
    <3>1. /\ a \in Kinds /\ a.step \in {"done", "failed"} /\ a.commit = analysis[r].commit
          /\ a.step = "done" => a.tree = head
      BY <2>1 DEF Steps
    <3>2. /\ analysis' = [analysis EXCEPT ![r] = a] /\ analysis[r].step = "tarball"
          /\ UNCHANGED <<head, private, gone, troubles, moved>>
      BY <2>5, Zenon DEF FetchTarball
    <3> HIDE DEF a
    <3>3. analysis'[r] = a
      BY <2>1, <3>2
    <3>4. ReportInv(r)'
      BY <2>1, <3>1, <3>2, <3>3 DEF ReportInv, Commits
    <3> QED
      BY <3>1, <3>2, <3>4, Zenon
  <2>6. ASSUME FetchFails(r) PROVE Kept
    <3> DEFINE a == [analysis[r] EXCEPT !.step = "failed"]
    <3>1. a \in Kinds /\ a.step = "failed"
      BY <2>1 DEF Steps
    <3>2. /\ analysis' = [analysis EXCEPT ![r] = a] /\ analysis[r].step \in {"meta", "tarball"}
          /\ UNCHANGED <<head, private, gone, moved>> /\ Trouble
      BY <2>6, Zenon DEF FetchFails
    <3> HIDE DEF a
    <3>3. analysis'[r] = a
      BY <2>1, <3>2
    <3>4. ReportInv(r)'
      BY <3>1, <3>3 DEF ReportInv
    <3>5. analysis[r].step # "done"
      BY <3>2
    <3> QED
      BY <3>1, <3>2, <3>4, <3>5, Zenon
  <2>7. Kept
    BY <1>4, <2>2, <2>3, <2>4, <2>5, <2>6 DEF Analyse
  <2> QED
    BY <2>7, BranchKeeps
<1> QED
  BY <1>2, <1>3, <1>4 DEF GitHubStep

(* What a request to GitHub that goes wrong does to the branch.            *)
LEMMA BranchStays ==
    ASSUME GitHubInv, UNCHANGED <<head, private, gone, analysis, moved>>, Trouble \/ UNCHANGED troubles
    PROVE  GitHubInv' /\ Frozen
<1>1. troubles' \in 0 .. MaxTroubles
  BY CommitsAssumption DEF GitHubInv, GitHubTypeOK, Trouble
<1>2. GitHubTypeOK'
  BY <1>1 DEF GitHubInv, GitHubTypeOK, Commits
<1>3. \A r \in Reports : ReportInv(r)'
  BY DEF GitHubInv, ReportInv, Commits
<1> QED
  BY <1>2, <1>3 DEF GitHubInv, Frozen, Made

-----------------------------------------------------------------------------
(* Reports being frozen, what has been shown and sent stays what it was.   *)
LEMMA ShownStays ==
    ASSUME Frozen, ViewedInv, viewed' = viewed
    PROVE  ViewedInv'
  BY DEF ViewedInv, Shown, Frozen

LEMMA RequestStays ==
    ASSUME Frozen, NEW q \in Asks, RequestInv(q), ask'[q] = ask[q]
    PROVE  RequestInv(q)'
<1>1. ask[q].step \in {"read", "complete"} =>
        /\ ask[q].report \in Made' /\ ask[q].key \in Targets
        /\ analysis'[ask[q].report] = analysis[ask[q].report]
  BY DEF RequestInv, Frozen
<1>2. ASSUME ask[q].step = "complete"
      PROVE  IsSent(ask[q].sent, ask[q].report, ask[q].key)'
  BY <1>1, <1>2 DEF RequestInv, IsSent
<1> QED
  BY <1>1, <1>2 DEF RequestInv

LEMMA RequestsStay ==
    ASSUME Frozen, AskInv, NEW q \in Asks, NEW a, ask' = [ask EXCEPT ![q] = a],
           ask'[q] = a => RequestInv(q)'
    PROVE  AskInv'
<1>1. DOMAIN ask = Asks /\ DOMAIN ask' = Asks /\ ask'[q] = a
  BY DEF AskInv
<1>2. ASSUME NEW p \in Asks, p # q PROVE RequestInv(p)'
  <2>1. ask'[p] = ask[p] /\ RequestInv(p)
    BY <1>1, <1>2 DEF AskInv
  <2> QED
    BY <2>1, RequestStays
<1> QED
  BY <1>1, <1>2 DEF AskInv

LEMMA ReadIsRecorded ==
    ASSUME NEW r, NEW asUser, ReadAt(r, asUser) # NoCommit
    PROVE  ReadAt(r, asUser) = analysis[r].commit
  BY DEF ReadAt

LEMMA ViewKeeps ==
    ASSUME GitHubInv, ViewedInv, AskInv, NEW v \in Viewings, View(v), UNCHANGED ask
    PROVE  GitHubInv' /\ ViewedInv' /\ AskInv'
<1>1. /\ UNCHANGED <<head, private, gone, analysis, moved>> /\ (Trouble \/ UNCHANGED troubles)
      /\ \E r \in Made, step \in {"not authorised", "shown", "unavailable"},
             commit \in Commits \cup {NoCommit} :
            /\ viewed' = [viewed EXCEPT ![v] = [step |-> step, report |-> r, of |-> commit]]
            /\ step = "shown" => commit # NoCommit /\ commit = analysis[r].commit
  <2> DEFINE read(r) == ReadAt(r, v \in SignedInViewings)
  <2>1. PICK r \in Made : \/ Ends(v, "not authorised", r, NoCommit)
                          \/ read(r) # NoCommit /\ Ends(v, "shown", r, read(r))
                          \/ Ends(v, "unavailable", r, NoCommit)
    BY Zenon DEF View
  <2>2. UNCHANGED <<head, private, gone, analysis, moved>> /\ (Trouble \/ UNCHANGED troubles)
    BY Zenon DEF View
  <2>3. analysis[r].commit \in Commits \cup {NoCommit}
    BY DEF GitHubInv, GitHubTypeOK, Made
  <2>4. read(r) # NoCommit => read(r) = analysis[r].commit
    BY ReadIsRecorded
  <2> HIDE DEF read
  <2>5. CASE Ends(v, "not authorised", r, NoCommit)
    BY <2>2, <2>5 DEF Ends
  <2>6. CASE read(r) # NoCommit /\ Ends(v, "shown", r, read(r))
    BY <2>2, <2>3, <2>4, <2>6 DEF Ends
  <2>7. CASE Ends(v, "unavailable", r, NoCommit)
    BY <2>2, <2>7 DEF Ends
  <2> QED
    BY <2>1, <2>5, <2>6, <2>7
<1>2. GitHubInv' /\ Frozen
  BY <1>1, BranchStays
<1>3. PICK r \in Made, step \in {"not authorised", "shown", "unavailable"},
           commit \in Commits \cup {NoCommit} :
            /\ viewed' = [viewed EXCEPT ![v] = [step |-> step, report |-> r, of |-> commit]]
            /\ step = "shown" => commit # NoCommit /\ commit = analysis[r].commit
  BY <1>1
<1>4. /\ DOMAIN viewed' = Viewings
      /\ viewed'[v] = [step |-> step, report |-> r, of |-> commit]
      /\ \A w \in Viewings : w # v => viewed'[w] = viewed[w]
  BY <1>3 DEF ViewedInv
<1>5. ASSUME NEW w \in Shown'
      PROVE  /\ viewed'[w].report \in Made'
             /\ viewed'[w].of = analysis'[viewed'[w].report].commit
             /\ viewed'[w].of # NoCommit
  <2>1. CASE w = v
    <3> DEFINE shown == [step |-> step, report |-> r, of |-> commit]
    <3>0. viewed'[v] = shown
      BY <1>4
    <3>1. viewed'[v].step = step /\ viewed'[v].report = r /\ viewed'[v].of = commit
      <4>1. shown.step = step /\ shown.report = r /\ shown.of = commit
        BY Zenon
      <4> HIDE DEF shown
      <4> QED
        BY <3>0, <4>1, Zenon
    <3>2. step = "shown"
      BY <1>5, <2>1, <3>1 DEF Shown
    <3>3. r \in Made' /\ analysis'[r] = analysis[r]
      BY <1>2 DEF Frozen
    <3> QED
      BY <1>3, <2>1, <3>1, <3>2, <3>3
  <2>2. CASE w # v
    <3>1. w \in Shown /\ viewed'[w] = viewed[w]
      BY <1>4, <1>5, <2>2 DEF Shown
    <3> QED
      BY <1>2, <3>1 DEF ViewedInv, Frozen
  <2> QED
    BY <2>1, <2>2
<1>6. ViewedInv'
  BY <1>4, <1>5 DEF ViewedInv
<1>7. AskInv'
  BY <1>2, RequestStays DEF AskInv
<1> QED
  BY <1>2, <1>6, <1>7

(* A request that ends, answered or not.                                   *)
LEMMA EndKeeps ==
    ASSUME Frozen, AskInv, NEW q \in Asks, NEW answer,
           \/ ask' = [ask EXCEPT ![q] = Ended("failed", answer)]
           \/ ask' = [ask EXCEPT ![q] = Ended("answered", answer)] /\ answer \in Entry
    PROVE  AskInv'
<1>1. CASE ask' = [ask EXCEPT ![q] = Ended("failed", answer)]
  <2>1. ASSUME ask'[q] = Ended("failed", answer) PROVE RequestInv(q)'
    BY <2>1 DEF RequestInv, Ended
  <2> QED
    BY <1>1, <2>1, RequestsStay
<1>2. CASE ask' = [ask EXCEPT ![q] = Ended("answered", answer)] /\ answer \in Entry
  <2>1. ASSUME ask'[q] = Ended("answered", answer) PROVE RequestInv(q)'
    BY <1>2, <2>1 DEF RequestInv, Ended
  <2> QED
    BY <1>2, <2>1, RequestsStay
<1> QED
  BY <1>1, <1>2

(* What is sent is what was read, or what the finding quotes.              *)
LEMMA SendKeeps ==
    ASSUME Frozen, AskInv, NEW q \in Asks, ask[q].step = "read", NEW sent, Send(q, sent),
           sent.kind \in {"nothing", "snippet", "window"},
           sent.kind = "snippet" => sent.of = analysis[ask[q].report].tree,
           sent.kind = "window" =>
              /\ Findings[ask[q].key[1]].line > 0
              /\ sent.of = analysis[ask[q].report].commit /\ sent.of # NoCommit
              /\ sent.described = Window(Findings[ask[q].key[1]], Length[sent.of])
    PROVE  AskInv'
<1>0. PICK r, key : r = ask[q].report /\ key = ask[q].key
  OBVIOUS
<1>1. /\ ask[q] = [step |-> "read", report |-> r, key |-> key, sent |-> Nothing]
      /\ r \in Made /\ key \in Targets /\ DOMAIN ask = Asks
  BY <1>0 DEF AskInv, RequestInv
<1>2. CASE sent.kind = "nothing" /\ key[2] \in NeedsSource
  <2>1. ask' = [ask EXCEPT ![q] = Ended("failed", Nothing)]
    BY <1>0, <1>1, <1>2 DEF Send
  <2> QED
    BY <2>1, EndKeeps
<1>3. CASE ~ (sent.kind = "nothing" /\ key[2] \in NeedsSource)
  <2> DEFINE a == [step |-> "complete", report |-> r, key |-> key, sent |-> sent]
  <2>1. ask' = [ask EXCEPT ![q] = [ask[q] EXCEPT !.sent = sent, !.step = "complete"]]
    BY <1>0, <1>1, <1>3 DEF Send
  <2>2. [ask[q] EXCEPT !.sent = sent, !.step = "complete"] = a
    <3> DEFINE before == [step |-> "read", report |-> r, key |-> key, sent |-> Nothing]
    <3>1. ask[q] = before
      BY <1>1
    <3>2. [before EXCEPT !.sent = sent, !.step = "complete"] = a
      <4> DEFINE with == [before EXCEPT !.sent = sent]
      <4>1. with = [step |-> "read", report |-> r, key |-> key, sent |-> sent]
        OBVIOUS
      <4>2. [with EXCEPT !.step = "complete"] = a
        <5> HIDE DEF with
        <5> QED
          BY <4>1
      <4>3. [before EXCEPT !.sent = sent, !.step = "complete"] = [with EXCEPT !.step = "complete"]
        OBVIOUS
      <4> QED
        BY <4>2, <4>3, Zenon
    <3> HIDE DEF before, a
    <3> QED
      BY <3>1, <3>2, Zenon
  <2>3. ask' = [ask EXCEPT ![q] = a]
    BY <2>1, <2>2
  <2>4. r \in Made' /\ analysis'[r] = analysis[r]
    BY <1>1 DEF Frozen
  <2>5. ASSUME ask'[q] = a PROVE RequestInv(q)'
    <3>1. /\ ask'[q].step = "complete" /\ ask'[q].report = r /\ ask'[q].key = key
          /\ ask'[q].sent = sent
      <4>1. a.step = "complete" /\ a.report = r /\ a.key = key /\ a.sent = sent
        BY Zenon
      <4> HIDE DEF a
      <4> QED
        BY <2>5, <4>1, Zenon
    <3> HIDE DEF a
    <3>2. /\ key[2] \in NeedsSource => sent.kind # "nothing"
          /\ sent.kind = "snippet" => sent.of = analysis'[r].tree
      BY <1>0, <1>3, <2>4
    <3>3. IsSent(sent, r, key)'
      BY <1>0, <2>4, <3>2 DEF IsSent
    <3> QED
      BY <1>1, <2>4, <3>1, <3>3 DEF RequestInv
  <2> HIDE DEF a
  <2> QED
    BY <2>3, <2>5, RequestsStay
<1> QED
  BY <1>2, <1>3

-----------------------------------------------------------------------------
(* The steps of a request.                                                 *)
LEMMA RequestKeeps ==
    ASSUME ActionsInv, NEW q \in Asks, AskStep(q)
    PROVE  ActionsInv'
<1>1. GitHubInv /\ ViewedInv /\ AskInv /\ CacheInv
  BY DEF ActionsInv
<1>2. UNCHANGED <<head, private, gone, analysis, moved, viewed>> /\ (Trouble \/ UNCHANGED troubles)
  <2>1. Ask(q) \/ Complete(q) => UNCHANGED <<githubVars, viewed>>
    BY Zenon DEF Ask, Complete
  <2>2. AskUnavailable(q) \/ ReadWider(q) \/ CompleteFails(q) =>
           /\ UNCHANGED <<head, private, gone, analysis, moved, viewed>>
           /\ (Trouble \/ UNCHANGED troubles)
    BY Zenon DEF AskUnavailable, ReadWider, CompleteFails
  <2> QED
    BY <2>1, <2>2 DEF AskStep, githubVars
<1>3. GitHubInv' /\ Frozen
  BY <1>1, <1>2, BranchStays
<1>4. ViewedInv'
  BY <1>1, <1>2, <1>3, ShownStays
<1>5. UNCHANGED <<cache, used>> => CacheInv'
  BY <1>1 DEF CacheInv, IsEnd, Distinct
<1>6. CASE Ask(q)
  <2>1. PICK r \in Made, key \in Targets :
          \/ /\ key[1] \in FindingsOf(r) /\ key \in Keys(cache)
             /\ ask' = [ask EXCEPT ![q] = Ended("answered", Cached(key))]
             /\ cache' = AfterHit(key)
             /\ used' = MoveToEnd(used, key)
          \/ /\ key[1] \in FindingsOf(r) /\ key \notin Keys(cache)
             /\ ask' = [ask EXCEPT ![q] = [step |-> "read", report |-> r, key |-> key, sent |-> Nothing]]
             /\ UNCHANGED <<cache, used>>
          \/ /\ key[1] \notin FindingsOf(r)
             /\ ask' = [ask EXCEPT ![q] = Ended("failed", Nothing)]
             /\ UNCHANGED <<cache, used>>
    BY <1>6, Zenon DEF Ask
  <2>2. CASE /\ key \in Keys(cache)
             /\ ask' = [ask EXCEPT ![q] = Ended("answered", Cached(key))]
             /\ cache' = AfterHit(key)
             /\ used' = MoveToEnd(used, key)
    <3>1. CacheInv' /\ Cached(key) \in Entry
      BY <1>1, <2>2, HitKeepsCache
    <3>2. PICK answer : answer = Cached(key)
      OBVIOUS
    <3>3. AskInv'
      BY <1>1, <1>3, <2>2, <3>1, <3>2, EndKeeps
    <3> QED
      BY <1>3, <1>4, <3>1, <3>3 DEF ActionsInv
  <2>3. CASE /\ ask' = [ask EXCEPT ![q] = [step |-> "read", report |-> r, key |-> key, sent |-> Nothing]]
             /\ UNCHANGED <<cache, used>>
    <3> DEFINE a == [step |-> "read", report |-> r, key |-> key, sent |-> Nothing]
    <3>1. a.step = "read" /\ a.report = r /\ a.key = key
      BY Zenon
    <3>2. a = [step |-> "read", report |-> a.report, key |-> a.key, sent |-> Nothing]
      BY <3>1, Zenon
    <3>3. ask' = [ask EXCEPT ![q] = a]
      BY <2>3
    <3> HIDE DEF a
    <3>4. r \in Made'
      BY <1>3 DEF Frozen
    <3>5. ASSUME ask'[q] = a PROVE RequestInv(q)'
      BY <3>1, <3>2, <3>4, <3>5 DEF RequestInv
    <3>6. AskInv'
      BY <1>1, <1>3, <3>3, <3>5, RequestsStay
    <3> QED
      BY <1>3, <1>4, <1>5, <2>3, <3>6 DEF ActionsInv
  <2>4. CASE /\ ask' = [ask EXCEPT ![q] = Ended("failed", Nothing)]
             /\ UNCHANGED <<cache, used>>
    <3>1. AskInv'
      BY <1>1, <1>3, <2>4, EndKeeps
    <3> QED
      BY <1>3, <1>4, <1>5, <2>4, <3>1 DEF ActionsInv
  <2> QED
    BY <2>1, <2>2, <2>3, <2>4, Zenon
<1>7. CASE AskUnavailable(q) \/ CompleteFails(q)
  <2>1. ask' = [ask EXCEPT ![q] = Ended("failed", Nothing)] /\ UNCHANGED <<cache, used>>
    BY <1>7, Zenon DEF AskUnavailable, CompleteFails
  <2>2. AskInv'
    BY <1>1, <1>3, <2>1, EndKeeps
  <2> QED
    BY <1>3, <1>4, <1>5, <2>1, <2>2 DEF ActionsInv
<1>8. CASE ReadWider(q)
  <2>1. /\ ask[q].step = "read" /\ UNCHANGED <<cache, used>>
        /\ (Readable(q) /\ Send(q, Wider(q))) \/ Send(q, Snippet(q))
    BY <1>8, Zenon DEF ReadWider
  <2>2. ASSUME NEW sent, sent = Wider(q), Readable(q), Send(q, sent) PROVE AskInv'
    <3>1. PICK commit : commit = ReadAt(ask[q].report, q \in SignedIn)
      OBVIOUS
    <3>2. commit # NoCommit /\ commit = analysis[ask[q].report].commit
      BY <2>2, <3>1, ReadIsRecorded DEF Readable
    <3>3. sent = [kind |-> "window", of |-> commit,
                  described |-> Window(Findings[ask[q].key[1]], Length[commit]),
                  lines |-> Clamp(Window(Findings[ask[q].key[1]], Length[commit]), Width[commit])]
      BY <2>2, <3>1, Zenon DEF Wider
    <3> HIDE DEF Window, Clamp
    <3>4. /\ sent.kind = "window" /\ sent.of = commit
          /\ sent.described = Window(Findings[ask[q].key[1]], Length[commit])
      BY <3>3
    <3>5. Findings[ask[q].key[1]].line > 0
      BY <2>2 DEF Readable
    <3> QED
      BY <1>1, <1>3, <2>1, <2>2, <3>2, <3>4, <3>5, SendKeeps
  <2>3. ASSUME NEW sent, sent = Snippet(q), Send(q, sent) PROVE AskInv'
    <3>1. \/ sent = Nothing
          \/ sent = [kind |-> "snippet", of |-> analysis[ask[q].report].tree]
      BY <2>3 DEF Snippet
    <3>2. /\ sent.kind \in {"nothing", "snippet"}
          /\ sent.kind = "snippet" => sent.of = analysis[ask[q].report].tree
      BY <3>1 DEF Nothing
    <3> QED
      BY <1>1, <1>3, <2>1, <2>3, <3>2, SendKeeps
  <2>4. AskInv'
    BY <2>1, <2>2, <2>3
  <2> QED
    BY <1>3, <1>4, <1>5, <2>1, <2>4 DEF ActionsInv
<1>9. CASE Complete(q)
  <2>1. PICK output \in Outputs : ask[q].step = "complete" /\ Answered(q, output)
    BY <1>9, Zenon DEF Complete
  <2>2. ask[q].key \in Targets /\ IsSent(ask[q].sent, ask[q].report, ask[q].key)
    BY <1>1, <2>1 DEF AskInv, RequestInv
  <2>3. CASE IsValid(ask[q].key[2], output)
    <3>1. PICK answer : answer = Answer(q, output)
      OBVIOUS
    <3>2. answer.kind = output /\ answer.key = ask[q].key /\ answer.of = ask[q].sent.kind
          /\ answer \in [kind : OutputKinds, key : Targets, of : {"nothing", "snippet", "window"}]
      BY <2>2, <3>1, TargetsAssumption DEF Answer, IsSent
    <3>3. answer \in Entry
      <4>1. ask[q].key[2] \in NeedsSource => ask[q].sent.kind # "nothing"
        BY <2>2 DEF IsSent
      <4> QED
        BY <2>3, <3>2, <4>1 DEF Entry
    <3>4. /\ cache' = AfterPut(answer) /\ used' = MoveToEnd(used, answer.key)
          /\ ask' = [ask EXCEPT ![q] = Ended("answered", answer)]
      BY <2>1, <2>3, <3>1, <3>2 DEF Answered
    <3>5. CacheInv'
      BY <1>1, <3>3, <3>4, PutKeepsCache
    <3>6. AskInv'
      BY <1>1, <1>3, <3>3, <3>4, EndKeeps
    <3> QED
      BY <1>3, <1>4, <3>5, <3>6 DEF ActionsInv
  <2>4. CASE ~ IsValid(ask[q].key[2], output)
    <3>1. ask' = [ask EXCEPT ![q] = Ended("failed", Nothing)] /\ UNCHANGED <<cache, used>>
      BY <2>1, <2>4 DEF Answered
    <3>2. AskInv'
      BY <1>1, <1>3, <3>1, EndKeeps
    <3> QED
      BY <1>3, <1>4, <1>5, <3>1, <3>2 DEF ActionsInv
  <2> QED
    BY <2>3, <2>4
<1> QED
  BY <1>6, <1>7, <1>8, <1>9 DEF AskStep

-----------------------------------------------------------------------------
(* The invariant that the properties of the runs follow from.              *)
LEMMA BranchBegins == GitHubInit => GitHubInv
<1> SUFFICES ASSUME GitHubInit PROVE GitHubInv
  OBVIOUS
<1>1. GitHubTypeOK
  BY CommitsAssumption DEF GitHubInit, GitHubTypeOK, Commits, Steps
<1>2. \A r \in Reports : ReportInv(r)
  BY DEF GitHubInit, ReportInv
<1> QED
  BY <1>1, <1>2 DEF GitHubInv

LEMMA InitActions == Init => ActionsInv
<1> SUFFICES ASSUME Init PROVE ActionsInv
  OBVIOUS
<1>1. GitHubInv
  BY BranchBegins DEF Init
<1>2. ViewedInv
  BY DEF Init, ViewerInit, Unviewed, ViewedInv, Shown
<1>3. AskInv
  BY DEF Init, Unasked, AskInv, RequestInv
<1>4. CacheInv
  <2>1. cache = <<>> /\ used = <<>>
    BY DEF Init
  <2>2. CacheCapacity \in Nat \ {0}
    BY ContextAssumption
  <2> QED
    BY <2>1, <2>2 DEF CacheInv, IsEnd, Distinct
<1> QED
  BY <1>1, <1>2, <1>3, <1>4 DEF ActionsInv

LEMMA NextActions == ActionsInv /\ [Next]_vars => ActionsInv'
<1> SUFFICES ASSUME ActionsInv, [Next]_vars PROVE ActionsInv'
  OBVIOUS
<1>1. GitHubInv /\ ViewedInv /\ AskInv /\ CacheInv
  BY DEF ActionsInv
<1>2. UNCHANGED <<cache, used>> => CacheInv'
  BY <1>1 DEF CacheInv, IsEnd, Distinct
<1>3. ASSUME Frozen, UNCHANGED ask PROVE AskInv'
  BY <1>1, <1>3, RequestStays DEF AskInv
<1>4. CASE GitHubStep /\ UNCHANGED <<viewed, ask, cache, used>>
  <2>1. GitHubInv' /\ Frozen
    BY <1>1, <1>4, BranchStep
  <2>2. ViewedInv'
    BY <1>1, <1>4, <2>1, ShownStays
  <2> QED
    BY <1>2, <1>3, <1>4, <2>1, <2>2 DEF ActionsInv
<1>5. ASSUME NEW v \in Viewings, View(v) /\ UNCHANGED <<ask, cache, used>>
      PROVE  ActionsInv'
  BY <1>1, <1>2, <1>5, ViewKeeps DEF ActionsInv
<1>6. ASSUME NEW q \in Asks, AskStep(q) PROVE ActionsInv'
  BY <1>6, RequestKeeps
<1>7. CASE UNCHANGED vars
  <2>1. UNCHANGED <<head, private, gone, troubles, analysis, moved, viewed, ask, cache, used>>
    BY <1>7 DEF vars, githubVars
  <2>2. GitHubInv' /\ Frozen
    BY <1>1, <2>1, BranchStays
  <2>3. ViewedInv'
    BY <1>1, <2>1, <2>2, ShownStays
  <2> QED
    BY <1>2, <1>3, <2>1, <2>2, <2>3 DEF ActionsInv
<1> QED
  BY <1>4, <1>5, <1>6, <1>7, Zenon DEF Next

THEOREM ActionsInvIsInvariant == Spec => []ActionsInv
  BY InitActions, NextActions, PTL DEF Spec

(* The cache is the end of the order of use, as much of it as fits.        *)
LEMMA EndIsLatest == ActionsInv => CacheKeepsLatest
<1> SUFFICES ASSUME ActionsInv PROVE CacheKeepsLatest
  OBVIOUS
<1> DEFINE c == Len(cache)
           u == Len(used)
           end == SubSeq(used, 1 + u - c, u)
<1>1. /\ cache \in Seq(Entry) /\ used \in Seq(Targets) /\ c \in Nat /\ u \in Nat /\ c <= u
      /\ \A k \in 1 .. c : cache[k].key = used[u - c + k]
      /\ c = (IF u < CacheCapacity THEN u ELSE CacheCapacity)
  BY DEF ActionsInv, CacheInv, IsEnd
<1>2. InOrder(cache) \in Seq(Targets) /\ Len(InOrder(cache)) = c
  <2>1. \A k \in DOMAIN cache : cache[k].key \in Targets
    BY <1>1 DEF Entry
  <2>2. DOMAIN cache = 1 .. c
    BY <1>1
  <2>3. InOrder(cache) \in [1 .. c -> Targets]
    BY <2>1, <2>2 DEF InOrder
  <2>4. c \in Nat
    BY <1>1
  <2> HIDE DEF c
  <2>5. ASSUME NEW s \in [1 .. c -> Targets] PROVE s \in Seq(Targets) /\ Len(s) = c
    <3>1. s \in Seq(Targets)
      BY <2>4, SeqDef, Zenon
    <3>2. DOMAIN s = 1 .. c
      OBVIOUS
    <3> QED
      BY <2>4, <3>1, <3>2, LenProperties
  <2> QED
    BY <2>3, <2>5
<1>3. /\ end \in Seq(Targets) /\ Len(end) = c
      /\ \A k \in 1 .. c : end[k] = used[u - c + k]
  <2>1. 1 + u - c \in 1 .. (u + 1)
    BY <1>1
  <2>2. ASSUME NEW m \in 1 .. (u + 1)
        PROVE  /\ SubSeq(used, m, u) \in Seq(Targets) /\ Len(SubSeq(used, m, u)) = u - m + 1
               /\ \A k \in 1 .. (u - m + 1) : SubSeq(used, m, u)[k] = used[m + k - 1]
    BY <1>1
  <2>3. /\ end \in Seq(Targets) /\ Len(end) = u - (1 + u - c) + 1
        /\ \A k \in 1 .. (u - (1 + u - c) + 1) : end[k] = used[(1 + u - c) + k - 1]
    BY <2>1, <2>2
  <2> HIDE DEF end, c, u
  <2>4. u - (1 + u - c) + 1 = c /\ \A k \in 1 .. c : (1 + u - c) + k - 1 = u - c + k
    BY <1>1
  <2> QED
    BY <2>3, <2>4
<1>4. \A k \in 1 .. c : InOrder(cache)[k] = end[k]
  BY <1>1, <1>3 DEF InOrder
<1>5. InOrder(cache) = end
  <2> HIDE DEF end, c
  <2> QED
    BY <1>2, <1>3, <1>4, SeqEqual
<1> QED
  BY <1>1, <1>5 DEF CacheKeepsLatest

(* However requests for the same finding and action overlap, the cache has *)
(* one answer for each of the keys that were used last, in the order of    *)
(* their last use, and as many as fit.                                     *)
THEOREM CacheIsLatest == Spec => []CacheKeepsLatest
  BY ActionsInvIsInvariant, EndIsLatest, PTL

LEMMA AnswersAreValid == ActionsInv => OnlyValidAnswers
<1> SUFFICES ASSUME ActionsInv,
                    NEW a \in ToSet(cache) \cup {ask[q].answer : q \in {q \in Asks : ask[q].step = "answered"}}
             PROVE  /\ a.kind # "nothing" /\ IsValid(a.key[2], a.kind)
                    /\ a.key[2] \in NeedsSource => a.of # "nothing"
  BY DEF OnlyValidAnswers
<1>1. a \in Entry
  <2>1. a \in ToSet(cache) => a \in Entry
    BY DEF ActionsInv, CacheInv, ToSet
  <2>2. \A q \in Asks : ask[q].step = "answered" => ask[q].answer \in Entry
    BY DEF ActionsInv, AskInv, RequestInv
  <2> QED
    BY <2>1, <2>2
<1> QED
  BY <1>1 DEF Entry, OutputKinds

(* An answer that is kept or shown has the form its action asks for, and   *)
(* an action that needs source had some.                                   *)
THEOREM AnswersGivenAreValid == Spec => []OnlyValidAnswers
  BY ActionsInvIsInvariant, AnswersAreValid, PTL

(* The window of a finding that is within a file of n lines, and of one    *)
(* that is not: never longer than it may be, never past the end, and with  *)
(* the line of the finding in it.                                          *)
LEMMA WindowHasFinding ==
    ASSUME NEW finding, finding.line \in Nat \ {0}, finding.end \in Nat, finding.line <= finding.end,
           NEW n \in Nat \ {0}
    PROVE  LET w == Window(finding, n)
           IN  /\ 1 <= w.first /\ w.first <= w.last /\ w.last <= n
               /\ w.last - w.first < MaxContextLines
               /\ finding.line <= n => finding.line \in w.first .. w.last
<1>1. MaxContextLines \in Nat \ {0}
  BY ContextAssumption
<1> DEFINE span == finding.end - finding.line + 1
           half == (MaxContextLines - span) \div 2
           padded == finding.line - half
           from == IF span >= MaxContextLines THEN finding.line
                   ELSE IF padded < 1 THEN 1 ELSE padded
           to == IF n < from + MaxContextLines - 1 THEN n ELSE from + MaxContextLines - 1
           first == IF to < 1 THEN 1 ELSE IF from < to THEN from ELSE to
<1>2. Window(finding, n) = [first |-> first, last |-> to]
  BY Zenon DEF Window
<1>3. span \in Nat \ {0}
  OBVIOUS
<1> HIDE DEF span
<1>4. span < MaxContextLines => half \in Nat /\ half < MaxContextLines
  BY <1>1, <1>3
<1> HIDE DEF half
<1>5. /\ from \in Nat \ {0} /\ from <= finding.line
      /\ finding.line <= from + MaxContextLines - 1
  BY <1>1, <1>3, <1>4
<1> HIDE DEF from
<1>6. /\ to \in Nat \ {0} /\ to <= n /\ to <= from + MaxContextLines - 1
      /\ finding.line <= n => finding.line <= to
  BY <1>1, <1>5
<1> HIDE DEF to
<1>7. /\ 1 <= first /\ first <= to /\ first <= from /\ first \in Nat
      /\ to - first < MaxContextLines
  BY <1>1, <1>5, <1>6
<1> HIDE DEF first
<1> QED
  BY <1>2, <1>5, <1>6, <1>7

LEMMA SentIsRecorded == ActionsInv => SentIsAnalysed
<1> SUFFICES ASSUME ActionsInv PROVE SentIsAnalysed
  OBVIOUS
<1>1. GitHubInv /\ ViewedInv /\ AskInv
  BY DEF ActionsInv
<1>2. ASSUME NEW r \in Made
      PROVE  /\ analysis[r].tree \in Commits /\ analysis[r].commit \in Commits \cup {NoCommit}
             /\ r \notin moved => analysis[r].commit \in {NoCommit, analysis[r].tree}
  BY <1>1 DEF GitHubInv, GitHubTypeOK, ReportInv, Made
<1>3. ASSUME NEW v \in Shown, viewed[v].report \notin moved
      PROVE  viewed[v].of = analysis[viewed[v].report].tree
  BY <1>1, <1>2, <1>3 DEF ViewedInv
<1>4. ASSUME NEW q \in Sent
      PROVE  LET sent == ask[q].sent
             IN  /\ ask[q].report \notin moved => sent.of = analysis[ask[q].report].tree
                 /\ sent.kind = "window" =>
                       /\ 1 <= sent.described.first /\ sent.described.last <= Length[sent.of]
                       /\ sent.described.last - sent.described.first < MaxContextLines
                       /\ sent.lines = sent.described /\ FindingOf(q).line <= Length[sent.of] =>
                             FindingOf(q).line \in sent.lines.first..sent.lines.last
  <2>1. /\ ask[q].report \in Made /\ ask[q].key \in Targets /\ ask[q].sent.kind # "nothing"
        /\ IsSent(ask[q].sent, ask[q].report, ask[q].key)
    BY <1>1 DEF AskInv, RequestInv, Sent
  <2>2. ask[q].report \notin moved => ask[q].sent.of = analysis[ask[q].report].tree
    BY <1>2, <2>1 DEF IsSent
  <2>3. ASSUME ask[q].sent.kind = "window"
        PROVE  /\ 1 <= ask[q].sent.described.first
               /\ ask[q].sent.described.last <= Length[ask[q].sent.of]
               /\ ask[q].sent.described.last - ask[q].sent.described.first < MaxContextLines
               /\ FindingOf(q).line <= Length[ask[q].sent.of] =>
                     FindingOf(q).line \in ask[q].sent.described.first .. ask[q].sent.described.last
    <3>1. /\ Findings[ask[q].key[1]].line > 0
          /\ ask[q].sent.of \in Commits
          /\ ask[q].sent.described = Window(Findings[ask[q].key[1]], Length[ask[q].sent.of])
      BY <1>2, <2>1, <2>3 DEF IsSent
    <3>2. Length[ask[q].sent.of] \in Nat \ {0}
      BY <3>1, ContextAssumption
    <3>3. ask[q].key[1] \in DOMAIN Findings
      BY <2>1, TargetsAssumption
    <3>4. /\ FindingOf(q).line \in Nat \ {0} /\ FindingOf(q).end \in Nat
          /\ FindingOf(q).line <= FindingOf(q).end
      BY <3>1, <3>3, FindingsAssumption DEF FindingOf
    <3> QED
      BY <3>1, <3>2, <3>4, WindowHasFinding DEF FindingOf
  <2> QED
    BY <2>2, <2>3
<1> QED
  BY <1>3, <1>4 DEF SentIsAnalysed

(* What the model is sent and a reader is shown is of the tree that was    *)
(* analysed unless the branch moved in between, in any history of pushes,  *)
(* refusals and lost commits; and the window that is described is within   *)
(* the file and its limit, with the finding in it.                         *)
THEOREM SentIsWhatWasAnalysed == Spec => []SentIsAnalysed
  BY ActionsInvIsInvariant, SentIsRecorded, PTL

-----------------------------------------------------------------------------
(* The comments of a pull request.  What a request knows: who is asking,   *)
(* unless GitHub did not say, and a comment to edit, or that there is none.*)
Utterances ==
    {PeoplesComment} \cup
        [author : Accounts, marked : {TRUE}, by : Requests, report : Reports \cup {NoCommit},
         names : Commits \cup {NoCommit}]

CommentsTyped ==
    /\ comments \in Seq(Utterances)
    /\ request \in [Requests -> [step : RequestSteps, report : Reports \cup {NoCommit},
                                 sha : Commits \cup {NoCommit},
                                 viewer : Accounts \cup {NoAccount}, existing : Nat]]
    /\ DOMAIN last = Accounts

RequestKnows(q) ==
    LET a == RequestedBy[q]
        e == request[q].existing
    IN  /\ request[q].viewer \in {NoAccount, a}
        /\ request[q].step \in {"idle", "pull", "viewer", "list"} => e = NoComment
        /\ request[q].step \in {"list", "write"} /\ a \notin excused => request[q].viewer = a
        /\ request[q].step = "write" /\ e # NoComment =>
              e \in Marked /\ (request[q].viewer = a => comments[e].author = a)
        /\ request[q].step = "write" /\ e = NoComment /\ a \notin excused => Of(a) = {}

(* A request may have failed and have written.                             *)
Through == {"done", "failed"}

(* Only excused accounts have two requests at a time.                      *)
Alone ==
    \A q, o \in Requests : Busy(q) /\ Busy(o) /\ RequestedBy[q] = RequestedBy[o] =>
                              q = o \/ RequestedBy[q] \in excused

(* Who wrote a comment is through, and was the last to if it is its own.   *)
WrittenBy(i) ==
    LET q == comments[i].by
        a == comments[i].author
    IN  /\ request[q].step \in Through
        /\ RequestedBy[q] = a \/ request[q].viewer = NoAccount
        /\ RequestedBy[q] = a /\ a \notin excused => q = last[a]

OnlyOne == \A a \in Accounts \ excused : \A i, j \in Of(a) : i = j

CommentsInv ==
    /\ CommentsTyped /\ Alone /\ OnlyOne
    /\ \A q \in Requests : RequestKnows(q)
    /\ \A i \in Marked : WrittenBy(i)

LEMMA UttererIs ==
    ASSUME CommentsTyped, NEW i \in Marked
    PROVE  /\ i \in DOMAIN comments /\ comments[i].marked = TRUE
           /\ comments[i].author \in Accounts /\ comments[i].by \in Requests
<1>1. comments[i] \in Utterances /\ i \in DOMAIN comments /\ comments[i].marked
  BY DEF CommentsTyped, Marked
<1>2. comments[i] # PeoplesComment
  BY <1>1 DEF PeoplesComment
<1> QED
  BY <1>1, <1>2 DEF Utterances

LEMMA PeopleAreUnmarked == ~ PeoplesComment.marked /\ PeoplesComment \in Utterances
  BY DEF PeoplesComment, Utterances

(* A step that leaves the comments as they are.                            *)
LEMMA RequestMoves ==
    ASSUME CommentsInv, NEW q \in Requests, request[q].step \notin Through,
           comments' = comments, last' = last, excused \subseteq excused',
           NEW knows \in [step : RequestSteps, report : Reports \cup {NoCommit},
                          sha : Commits \cup {NoCommit},
                          viewer : Accounts \cup {NoAccount}, existing : Nat],
           request' = [request EXCEPT ![q] = knows],
           RequestKnows(q)',
           Busy(q)' => \/ Busy(q) \/ ByOthers(q) = {} \/ RequestedBy[q] \in excused'
    PROVE  CommentsInv'
<1>1. /\ CommentsTyped' /\ DOMAIN request = Requests
      /\ \A o \in Requests : o # q => request'[o] = request[o]
  BY DEF CommentsInv, CommentsTyped, Commits
<1>2. Marked' = Marked /\ \A a : Of(a)' = Of(a)
  BY DEF Marked, Of
<1>3. OnlyOne'
  BY <1>2 DEF CommentsInv, OnlyOne
<1>4. ASSUME NEW o \in Requests PROVE RequestKnows(o)'
  <2>1. CASE o = q
    BY <2>1
  <2>2. CASE o # q
    <3>1. request'[o] = request[o] /\ RequestKnows(o)
      BY <1>1, <2>2 DEF CommentsInv
    <3> QED
      BY <1>2, <3>1 DEF RequestKnows
  <2> QED
    BY <2>1, <2>2
<1>5. ASSUME NEW i \in Marked' PROVE WrittenBy(i)'
  <2>1. i \in Marked /\ comments'[i] = comments[i] /\ comments[i].by \in Requests
    BY <1>2, UttererIs DEF CommentsInv
  <2>2. WrittenBy(i)
    BY <2>1 DEF CommentsInv
  <2>3. request'[comments[i].by] = request[comments[i].by]
    BY <1>1, <2>1, <2>2 DEF WrittenBy
  <2> QED
    BY <2>1, <2>2, <2>3 DEF WrittenBy
<1>6. Alone'
  <2>1. ASSUME NEW o \in Requests, NEW p \in Requests, o # p, Busy(o)', Busy(p)',
               RequestedBy[o] = RequestedBy[p], RequestedBy[o] \notin excused'
        PROVE  FALSE
    <3>1. CASE Busy(o) /\ Busy(p)
      BY <2>1, <3>1 DEF CommentsInv, Alone
    <3>2. CASE o = q /\ ~ Busy(o)
      <4>1. Busy(p) /\ p \in Requests \ {q}
        BY <1>1, <2>1, <3>2 DEF Busy
      <4> QED
        BY <2>1, <3>2, <4>1 DEF ByOthers
    <3>3. CASE p = q /\ ~ Busy(p)
      <4>1. Busy(o) /\ o \in Requests \ {q}
        BY <1>1, <2>1, <3>3 DEF Busy
      <4> QED
        BY <2>1, <3>3, <4>1 DEF ByOthers
    <3>4. \A r \in Requests : r # q => (Busy(r)' <=> Busy(r))
      BY <1>1 DEF Busy
    <3> QED
      BY <2>1, <3>1, <3>2, <3>3, <3>4
  <2> QED
    BY <2>1 DEF Alone
<1> QED
  BY <1>1, <1>3, <1>4, <1>5, <1>6 DEF CommentsInv

LEMMA FirstOf ==
    ASSUME NEW D, D \subseteq Nat, D # {}
    PROVE  \E d \in D : \A e \in D : d <= e
<1>1. PICK d \in D : \A e \in D : ~ (<<e, d>> \in OpToRel(<, Nat))
  BY WFMin, NatLessThanWellFounded
<1>2. \A e \in D : ~ (e < d)
  BY <1>1 DEF OpToRel
<1> QED
  BY <1>2

(* What a search for a comment to edit finds.                              *)
LEMMA ExistingIs ==
    ASSUME NEW page \in Seq(Utterances), NEW viewer
    PROVE  /\ Existing(page, viewer) \in Nat
           /\ Existing(page, viewer) # NoComment =>
                 /\ Existing(page, viewer) \in DOMAIN page
                 /\ page[Existing(page, viewer)].marked
                 /\ viewer = NoAccount \/ page[Existing(page, viewer)].author = viewer
           /\ Existing(page, viewer) = NoComment =>
                 \A i \in DOMAIN page : ~ (page[i].marked /\ page[i].author = viewer)
<1> DEFINE Fits(i) == page[i].marked /\ (viewer = NoAccount \/ page[i].author = viewer)
           I == {i \in 1..Len(page) : Fits(i)}
<1>1. Existing(page, viewer) = IF I # {} THEN Min(I) ELSE 0
  BY DEF Existing, SelectInSeq
<1>2. I # {} => Min(I) \in I
  <2>1. ASSUME NEW m \in I, \A j \in I : m <= j PROVE Min(I) \in I
    <3>1. \E x \in I : \A y \in I : x =< y
      BY <2>1
    <3> HIDE DEF I
    <3> QED
      BY <3>1, Zenon DEF Min
  <2>2. I # {} => \E m \in I : \A j \in I : m <= j
    <3>1. I \subseteq Nat
      OBVIOUS
    <3> HIDE DEF I
    <3> QED
      BY <3>1, FirstOf
  <2> QED
    BY <2>1, <2>2
<1>3. DOMAIN page = 1..Len(page) /\ Len(page) \in Nat
  OBVIOUS
<1>4. \A i \in I : i \in 1..Len(page) /\ Fits(i) /\ i \in Nat /\ i # 0
  OBVIOUS
<1>5. \A i \in 1..Len(page) : Fits(i) => i \in I
  OBVIOUS
<1> HIDE DEF I
<1> QED
  BY <1>1, <1>2, <1>3, <1>4, <1>5 DEF NoComment

(* Writing: of all comments only the e-th changes, and is then q's.        *)
LEMMA Written ==
    ASSUME CommentsInv, NEW q \in Requests, request[q].step = "write",
           NEW e \in DOMAIN comments', CommentsTyped', excused' = excused,
           \A o \in Requests : o # q => request'[o] = request[o],
           request'[q].step \in Through, request'[q].viewer = request[q].viewer,
           \A a \in Accounts : last'[a] = IF a = RequestedBy[q] THEN q ELSE last[a],
           DOMAIN comments \subseteq DOMAIN comments',
           \A i \in DOMAIN comments' : i # e => i \in DOMAIN comments /\ comments'[i] = comments[i],
           comments'[e].marked = TRUE, comments'[e].by = q,
           \/ /\ e \notin DOMAIN comments /\ comments'[e].author = RequestedBy[q]
              /\ RequestedBy[q] \notin excused => Of(RequestedBy[q]) = {}
           \/ /\ e \in Marked /\ comments'[e].author = comments[e].author
              /\ request[q].viewer = RequestedBy[q] => comments[e].author = RequestedBy[q]
    PROVE  CommentsInv'
<1> DEFINE a == RequestedBy[q]
<1>1. CommentsTyped /\ RequestKnows(q) /\ a \in Accounts
  BY AccountsAssumption DEF CommentsInv
<1>2. Marked \subseteq Marked' /\ \A i \in Marked' : i # e => i \in Marked /\ comments'[i] = comments[i]
  BY Zenon DEF Marked
<1>3. \A i \in Marked : comments'[i].author = comments[i].author
  <2>1. \A i \in Marked : i \in DOMAIN comments
    BY DEF Marked
  <2>2. \A i \in Marked : i # e => comments'[i] = comments[i]
    BY <2>1, Zenon DEF Marked
  <2> QED
    BY <2>1, <2>2
<1>4. \A b \in Accounts : \A i \in Of(b)' : i \in Of(b) \/ (i = e /\ e \notin DOMAIN comments /\ b = a)
  BY <1>2, <1>3 DEF Of
<1>5. \A b \in Accounts : Of(b) \subseteq Of(b)'
  BY <1>2, <1>3 DEF Of
<1>6. ASSUME a \notin excused, NEW i \in Of(a)' PROVE i = e
  <2>1. CASE e \notin DOMAIN comments
    <3>1. Of(a) = {}
      BY <1>6, <2>1 DEF Marked
    <3> QED
      BY <1>1, <1>4, <3>1
  <2>2. CASE e \in DOMAIN comments
    <3>1. e \in Marked /\ comments[e].author = a
      BY <1>1, <1>6, <2>2 DEF RequestKnows
    <3>2. e \in Of(a) /\ i \in Of(a)
      BY <1>1, <1>4, <1>6, <2>2, <3>1 DEF Of
    <3> QED
      BY <1>1, <1>6, <3>2 DEF CommentsInv, OnlyOne
  <2> QED
    BY <2>1, <2>2
<1>7. OnlyOne'
  <2>1. ASSUME NEW b \in Accounts \ excused, NEW i \in Of(b)', NEW j \in Of(b)' PROVE i = j
    <3>1. CASE b = a
      BY <1>6, <2>1, <3>1
    <3>2. CASE b # a
      BY <1>4, <2>1, <3>2 DEF CommentsInv, OnlyOne
    <3> QED
      BY <3>1, <3>2
  <2> QED
    BY <2>1 DEF OnlyOne
<1>8. Alone'
  <2>1. \A o \in Requests : Busy(o)' => Busy(o)
    BY DEF Busy
  <2> QED
    BY <2>1 DEF CommentsInv, Alone
<1>9. ASSUME NEW o \in Requests PROVE RequestKnows(o)'
  <2>1. CASE o = q
    BY <1>1, <2>1 DEF RequestKnows, Through
  <2>2. CASE o # q
    <3>1. request'[o] = request[o] /\ RequestKnows(o)
      BY <2>2 DEF CommentsInv
    <3>2. ASSUME request[o].step = "write", request[o].existing = NoComment,
                 RequestedBy[o] \notin excused
          PROVE  Of(RequestedBy[o])' = {}
      <4>1. Of(RequestedBy[o]) = {}
        BY <3>1, <3>2 DEF RequestKnows
      <4>2. RequestedBy[o] # a
        BY <2>2, <3>2 DEF CommentsInv, Alone, Busy
      <4> QED
        BY <1>4, <4>1, <4>2, AccountsAssumption
    <3>3. ASSUME request[o].step = "write", request[o].existing # NoComment
          PROVE  /\ request[o].existing \in Marked'
                 /\ request[o].viewer = RequestedBy[o] =>
                       comments'[request[o].existing].author = RequestedBy[o]
      BY <1>2, <1>3, <3>1, <3>3 DEF RequestKnows
    <3> QED
      BY <3>1, <3>2, <3>3 DEF RequestKnows
  <2> QED
    BY <2>1, <2>2
<1>10. ASSUME NEW i \in Marked' PROVE WrittenBy(i)'
  <2>1. CASE i = e
    <3>1. comments'[e].author = a \/ request'[q].viewer = NoAccount
      BY <1>1 DEF RequestKnows
    <3> QED
      BY <1>1, <2>1, <3>1 DEF WrittenBy
  <2>2. CASE i # e
    <3>1. i \in Marked /\ comments'[i] = comments[i] /\ comments[i].by \in Requests
          /\ comments[i].author \in Accounts
      BY <1>1, <1>2, <2>2, UttererIs
    <3>2. WrittenBy(i)
      BY <3>1 DEF CommentsInv
    <3>3. request'[comments[i].by] = request[comments[i].by]
      BY <3>1, <3>2 DEF WrittenBy, Through
    <3>4. ASSUME comments[i].author = a, a \notin excused PROVE FALSE
      <4>1. i \in Of(a)'
        BY <3>1, <3>4, <1>10 DEF Of
      <4> QED
        BY <1>6, <2>2, <3>4, <4>1
    <3> QED
      BY <3>1, <3>2, <3>3, <3>4 DEF WrittenBy
  <2> QED
    BY <2>1, <2>2
<1> QED
  BY <1>7, <1>8, <1>9, <1>10 DEF CommentsInv

LEMMA WriteKeeps ==
    ASSUME CommentsInv, NEW q \in Requests, WriteComment(q)
    PROVE  CommentsInv'
<1> DEFINE a == RequestedBy[q]
           e == request[q].existing
           n == Len(comments)
<1>1. /\ CommentsTyped /\ RequestKnows(q) /\ request[q].step = "write"
      /\ excused' = excused /\ last' = [last EXCEPT ![a] = q]
      /\ comments' = IF e = NoComment THEN Append(comments, Says(q))
                     ELSE [comments EXCEPT ![e] = [Says(q) EXCEPT !.author = comments[e].author]]
  BY DEF CommentsInv, WriteComment
<1>2. a \in Accounts /\ comments \in Seq(Utterances) /\ n \in Nat /\ DOMAIN comments = 1..n
  <2>1. a \in Accounts
    BY AccountsAssumption
  <2>2. comments \in Seq(Utterances)
    BY <1>1 DEF CommentsTyped
  <2> HIDE DEF a
  <2> QED
    BY <2>1, <2>2, LenProperties
<1>3. /\ Says(q) \in Utterances /\ Says(q).author = a
      /\ Says(q).marked = TRUE /\ Says(q).by = q
  BY <1>1, <1>2 DEF CommentsTyped, Says, Utterances
<1>4. /\ request' \in [Requests -> [step : RequestSteps, report : Reports \cup {NoCommit},
                                    sha : Commits \cup {NoCommit},
                                    viewer : Accounts \cup {NoAccount}, existing : Nat]]
      /\ \A o \in Requests : o # q => request'[o] = request[o]
      /\ request'[q].step \in Through /\ request'[q].viewer = request[q].viewer
  <2>1. PICK s \in Through : request' = [request EXCEPT ![q].step = s]
    BY DEF WriteComment, Through
  <2> QED
    BY <1>1, <2>1 DEF CommentsTyped, RequestSteps, Through
<1>5. /\ DOMAIN last' = Accounts
      /\ \A b \in Accounts : last'[b] = IF b = a THEN q ELSE last[b]
  BY <1>1, <1>2 DEF CommentsTyped
<1>6. CASE e = NoComment
  <2>1. comments' = Append(comments, Says(q))
    BY <1>1, <1>6
  <2>2. /\ comments' \in Seq(Utterances) /\ Len(comments') = n + 1
        /\ \A i \in 1..n : comments'[i] = comments[i]
        /\ comments'[n + 1] = Says(q)
    BY <1>2, <1>3, <2>1, AppendProperties
  <2>3. DOMAIN comments' = 1..(n + 1)
    BY <2>2
  <2>4. CommentsTyped'
    BY <1>4, <1>5, <2>2 DEF CommentsTyped, Utterances, Commits
  <2>5. a \notin excused => Of(a) = {}
    BY <1>1, <1>6 DEF RequestKnows
  <2> DEFINE k == n + 1
  <2>6. /\ k \in DOMAIN comments' /\ k \notin DOMAIN comments
        /\ DOMAIN comments \subseteq DOMAIN comments'
        /\ \A i \in DOMAIN comments' : i # k => i \in DOMAIN comments /\ comments'[i] = comments[i]
    BY <1>2, <2>2, <2>3
  <2>7. comments'[k].marked = TRUE /\ comments'[k].by = q /\ comments'[k].author = a
    BY <1>3, <2>2
  <2>8. \A b \in Accounts : last'[b] = IF b = RequestedBy[q] THEN q ELSE last[b]
    BY <1>5
  <2> HIDE DEF k
  <2>9. /\ request[q].step = "write" /\ excused' = excused
        /\ \A o \in Requests : o # q => request'[o] = request[o]
        /\ request'[q].step \in Through /\ request'[q].viewer = request[q].viewer
    BY <1>1, <1>4, Zenon
  <2>10. /\ k \notin DOMAIN comments /\ comments'[k].author = RequestedBy[q]
         /\ RequestedBy[q] \notin excused => Of(RequestedBy[q]) = {}
    BY <2>5, <2>6, <2>7, Zenon
  <2>11. k \in DOMAIN comments' /\ comments'[k].marked = TRUE /\ comments'[k].by = q
    BY <2>6, <2>7
  <2>12. PICK x : x = k
    OBVIOUS
  <2> QED
    BY <2>4, <2>6, <2>8, <2>9, <2>10, <2>11, <2>12, Written, Zenon
<1>7. CASE e # NoComment
  <2>1. /\ e \in Marked /\ (request[q].viewer = a => comments[e].author = a)
    BY <1>1, <1>7 DEF RequestKnows
  <2>2. e \in 1..n /\ comments[e].author \in Accounts
    BY <1>1, <1>2, <2>1, UttererIs
  <2> DEFINE new == [Says(q) EXCEPT !.author = comments[e].author]
  <2>3. /\ new \in Utterances /\ new.author = comments[e].author
        /\ new.marked = TRUE /\ new.by = q
    BY <1>1, <1>2, <2>2 DEF CommentsTyped, Says, Utterances
  <2>4. comments' = [comments EXCEPT ![e] = new]
    BY <1>1, <1>7
  <2> HIDE DEF new
  <2>5. /\ comments' \in Seq(Utterances) /\ Len(comments') = n
        /\ \A i \in 1..n : comments'[i] = IF i = e THEN new ELSE comments[i]
    BY <1>2, <2>2, <2>3, <2>4, ExceptSeq
  <2>6. CommentsTyped'
    BY <1>4, <1>5, <2>5 DEF CommentsTyped, Utterances, Commits
  <2>7. DOMAIN comments' = 1..n
    BY <2>5
  <2>8. /\ e \in DOMAIN comments' /\ DOMAIN comments \subseteq DOMAIN comments'
        /\ \A i \in DOMAIN comments' : i # e => i \in DOMAIN comments /\ comments'[i] = comments[i]
        /\ comments'[e].marked = TRUE /\ comments'[e].by = q
        /\ comments'[e].author = comments[e].author
    BY <1>2, <2>2, <2>3, <2>5, <2>7
  <2>9. \A b \in Accounts : last'[b] = IF b = RequestedBy[q] THEN q ELSE last[b]
    BY <1>5
  <2>10. /\ request[q].step = "write" /\ excused' = excused
         /\ \A o \in Requests : o # q => request'[o] = request[o]
         /\ request'[q].step \in Through /\ request'[q].viewer = request[q].viewer
    BY <1>1, <1>4, Zenon
  <2>11. /\ e \in Marked /\ comments'[e].author = comments[e].author
         /\ request[q].viewer = RequestedBy[q] => comments[e].author = RequestedBy[q]
    BY <2>1, <2>8
  <2> HIDE DEF e
  <2>12. PICK x : x = e
    OBVIOUS
  <2> QED
    BY <2>6, <2>8, <2>9, <2>10, <2>11, <2>12, Written, Zenon
<1> QED
  BY <1>6, <1>7

LEMMA OthersKeep ==
    ASSUME CommentsInv, request' = request, excused' = excused, last' = last,
           comments' = comments \/ comments' = Append(comments, PeoplesComment)
    PROVE  CommentsInv'
<1>1. CommentsTyped /\ comments \in Seq(Utterances)
  BY DEF CommentsInv, CommentsTyped
<1>2. /\ comments' \in Seq(Utterances) /\ DOMAIN comments \subseteq DOMAIN comments'
      /\ \A i \in DOMAIN comments : comments'[i] = comments[i]
      /\ \A i \in DOMAIN comments' : i \notin DOMAIN comments => comments'[i] = PeoplesComment
  <2>1. CASE comments' = comments
    BY <1>1, <2>1
  <2>2. CASE comments' = Append(comments, PeoplesComment)
    <3>1. /\ comments' \in Seq(Utterances) /\ Len(comments') = Len(comments) + 1
          /\ \A i \in 1..Len(comments) : comments'[i] = comments[i]
          /\ comments'[Len(comments) + 1] = PeoplesComment
      BY <1>1, <2>2, PeopleAreUnmarked, AppendProperties
    <3>2. DOMAIN comments = 1..Len(comments) /\ Len(comments) \in Nat
      BY <1>1
    <3>3. DOMAIN comments' = 1..(Len(comments) + 1)
      BY <3>1
    <3> QED
      BY <3>1, <3>2, <3>3
  <2> QED
    BY <2>1, <2>2
<1>3. CommentsTyped'
  BY <1>1, <1>2 DEF CommentsTyped, Utterances, Commits
<1>4. Marked' = Marked
  <2>1. \A i : i \in Marked' <=> i \in DOMAIN comments' /\ comments'[i].marked
    BY Zenon DEF Marked
  <2>2. \A i : i \in Marked <=> i \in DOMAIN comments /\ comments[i].marked
    BY Zenon DEF Marked
  <2> QED
    BY <1>2, <2>1, <2>2, PeopleAreUnmarked, Zenon
<1>5. \A i \in Marked : comments'[i] = comments[i]
  BY <1>2 DEF Marked
<1>6. \A b : Of(b)' = Of(b)
  BY <1>4, <1>5 DEF Of
<1>7. \A q \in Requests : RequestKnows(q)'
  BY <1>4, <1>5, <1>6 DEF CommentsInv, RequestKnows
<1>8. \A i \in Marked' : WrittenBy(i)'
  BY <1>4, <1>5 DEF CommentsInv, WrittenBy
<1>9. OnlyOne' /\ Alone'
  BY <1>6 DEF CommentsInv, OnlyOne, Alone, Busy
<1> QED
  BY <1>3, <1>7, <1>8, <1>9 DEF CommentsInv

LEMMA CommentsBegin ==
    ASSUME CommentsInit
    PROVE  CommentsInv
<1>1. PICK n \in {0, PageSize} : comments = [i \in 1..n |-> PeoplesComment]
  BY DEF CommentsInit
<1>2. request = [q \in Requests |-> NoRequest] /\ last = [a \in Accounts |-> NoComment]
  BY DEF CommentsInit
<1>3. n \in Nat
  BY AccountsAssumption
<1>4. comments \in Seq(Utterances)
  BY <1>1, <1>3, PeopleAreUnmarked, IsASeq
<1>5. /\ \A q \in Requests : request[q] = NoRequest
      /\ NoRequest.step = "idle" /\ NoRequest.viewer = NoAccount /\ NoRequest.existing = NoComment
  BY <1>2 DEF NoRequest
<1>6. CommentsTyped
  <2>1. NoRequest \in [step : RequestSteps, report : Reports \cup {NoCommit},
                       sha : Commits \cup {NoCommit},
                       viewer : Accounts \cup {NoAccount}, existing : Nat]
    BY DEF NoRequest, RequestSteps, NoComment
  <2> QED
    BY <1>2, <1>4, <2>1 DEF CommentsTyped
<1>7. Marked = {} /\ \A a : Of(a) = {}
  BY <1>1, PeopleAreUnmarked DEF Marked, Of
<1>8. Alone /\ OnlyOne /\ \A i \in Marked : WrittenBy(i)
  BY <1>5, <1>7 DEF Alone, Busy, OnlyOne
<1>9. \A q \in Requests : RequestKnows(q)
  BY <1>5 DEF RequestKnows
<1> QED
  BY <1>6, <1>8, <1>9 DEF CommentsInv

(* What the steps of a request before its last add to what it knows.       *)
LEMMA RequestLearns ==
    ASSUME CommentsInv, GitHubTypeOK, NEW q \in Requests,
           \/ BeginRequest(q) \/ FetchPullRequest(q) \/ AskViewer(q) \/ ListComments(q)
           \/ RequestFails(q)
    PROVE  CommentsInv'
<1> DEFINE a == RequestedBy[q]
           Knowledge == [step : RequestSteps, report : Reports \cup {NoCommit},
                         sha : Commits \cup {NoCommit},
                         viewer : Accounts \cup {NoAccount}, existing : Nat]
<1>1. /\ CommentsTyped /\ RequestKnows(q) /\ a \in Accounts /\ a # NoAccount
      /\ request \in [Requests -> Knowledge] /\ comments \in Seq(Utterances)
  BY AccountsAssumption DEF CommentsInv, CommentsTyped
<1>2. CASE BeginRequest(q)
  <2>1. PICK r \in Made : request' = [request EXCEPT ![q].step = "pull", ![q].report = r]
    BY <1>2 DEF BeginRequest
  <2> DEFINE knows == [request[q] EXCEPT !.step = "pull", !.report = r]
  <2>2. request' = [request EXCEPT ![q] = knows]
    BY <1>1, <2>1
  <2>3. /\ knows \in Knowledge /\ knows.step = "pull" /\ knows.viewer = request[q].viewer
        /\ knows.existing = request[q].existing
    BY <1>1 DEF Made, RequestSteps
  <2>4. PICK x : x = knows
    OBVIOUS
  <2> HIDE DEF knows
  <2>5. request'[q] = x
    BY <1>1, <2>2, <2>4
  <2>6. RequestKnows(q)'
    BY <1>1, <1>2, <2>3, <2>4, <2>5 DEF RequestKnows, BeginRequest
  <2>7. ByOthers(q) = {} \/ a \in excused'
    BY <1>2 DEF BeginRequest
  <2> QED
    BY <1>2, <2>2, <2>3, <2>4, <2>6, <2>7, RequestMoves DEF BeginRequest, Through
<1>3. CASE FetchPullRequest(q)
  <2> DEFINE knows == [request[q] EXCEPT !.step = "viewer", !.sha = head]
  <2>2. request' = [request EXCEPT ![q] = knows]
    BY <1>1, <1>3 DEF FetchPullRequest
  <2>3. /\ knows \in Knowledge /\ knows.step = "viewer" /\ knows.viewer = request[q].viewer
        /\ knows.existing = request[q].existing
    BY <1>1 DEF GitHubTypeOK, RequestSteps
  <2>4. PICK x : x = knows
    OBVIOUS
  <2> HIDE DEF knows
  <2>5. request'[q] = x
    BY <1>1, <2>2, <2>4
  <2>6. RequestKnows(q)'
    BY <1>1, <1>3, <2>3, <2>4, <2>5 DEF RequestKnows, FetchPullRequest
  <2>7. Busy(q)
    BY <1>3 DEF FetchPullRequest, Busy
  <2> QED
    BY <1>3, <2>2, <2>3, <2>4, <2>6, <2>7, RequestMoves DEF FetchPullRequest, Through
<1>4. CASE AskViewer(q)
  <2>1. PICK v \in {a, request[q].viewer} :
          /\ request' = [request EXCEPT ![q] = [request[q] EXCEPT !.step = "list", !.viewer = v]]
          /\ excused \subseteq excused' /\ (v = a \/ a \in excused')
    <3>1. CASE /\ request' = [request EXCEPT ![q].step = "list", ![q].viewer = a]
               /\ excused' = excused
      BY <1>1, <3>1
    <3>2. CASE /\ request' = [request EXCEPT ![q].step = "list"]
               /\ excused' = excused \cup {a}
      <4>1. [request[q] EXCEPT !.step = "list", !.viewer = request[q].viewer]
              = [request[q] EXCEPT !.step = "list"]
        BY <1>1
      <4> QED
        BY <1>1, <3>2, <4>1
    <3> QED
      BY <1>4, <3>1, <3>2 DEF AskViewer
  <2> DEFINE knows == [request[q] EXCEPT !.step = "list", !.viewer = v]
  <2>2. request' = [request EXCEPT ![q] = knows]
    BY <2>1
  <2>3. /\ knows \in Knowledge /\ knows.step = "list" /\ knows.viewer = v
        /\ knows.existing = request[q].existing
    BY <1>1, <2>1 DEF RequestSteps
  <2>4. PICK x : x = knows
    OBVIOUS
  <2> HIDE DEF knows
  <2>5. request'[q] = x
    BY <1>1, <2>2, <2>4
  <2>6. RequestKnows(q)'
    BY <1>1, <1>4, <2>1, <2>3, <2>4, <2>5 DEF RequestKnows, AskViewer
  <2>7. Busy(q) /\ request[q].step \notin Through /\ comments' = comments /\ last' = last
    BY <1>4 DEF AskViewer, Busy, Through
  <2> QED
    BY <2>1, <2>2, <2>3, <2>4, <2>6, <2>7, RequestMoves
<1>5. CASE ListComments(q)
  <2> DEFINE m == IF Len(comments) < PageSize THEN Len(comments) ELSE PageSize
             page == SubSeq(comments, 1, m)
             found == Existing(page, request[q].viewer)
  <2>1. PICK e \in {found, request[q].existing} :
          /\ request' = [request EXCEPT ![q] = [request[q] EXCEPT !.step = "write", !.existing = e]]
          /\ excused \subseteq excused'
          /\ \/ a \in excused' /\ e = request[q].existing
             \/ e = found /\ (Len(comments) > PageSize => a \in excused')
    <3>1. CASE /\ request' = [request EXCEPT ![q].step = "write", ![q].existing = found]
               /\ excused' = IF Len(comments) > PageSize THEN excused \cup {a} ELSE excused
      <4> HIDE DEF found
      <4> QED
        BY <1>1, <3>1
    <3>2. CASE /\ request' = [request EXCEPT ![q].step = "write"]
               /\ excused' = excused \cup {a}
      <4>1. [request[q] EXCEPT !.step = "write", !.existing = request[q].existing]
              = [request[q] EXCEPT !.step = "write"]
        BY <1>1
      <4> HIDE DEF found
      <4> QED
        BY <1>1, <3>2, <4>1
    <3> QED
      BY <1>5, <3>1, <3>2, Zenon DEF ListComments
  <2>2. m \in 0..Len(comments) /\ (Len(comments) <= PageSize => m = Len(comments))
    BY <1>1, LenProperties, AccountsAssumption
  <2>3. /\ page \in Seq(Utterances) /\ DOMAIN page = 1..m
        /\ \A i \in 1..m : page[i] = comments[i]
    BY <1>1, <2>2, SubSeqProperties
  <2>4. DOMAIN comments = 1..Len(comments) /\ Len(comments) \in Nat
    BY <1>1, LenProperties
  <2>5. /\ found \in Nat
        /\ found # NoComment => /\ found \in DOMAIN page /\ page[found].marked
                                /\ request[q].viewer = NoAccount \/ page[found].author = request[q].viewer
        /\ found = NoComment =>
              \A i \in DOMAIN page : ~ (page[i].marked /\ page[i].author = request[q].viewer)
    <3> HIDE DEF page
    <3>1. PICK p \in Seq(Utterances) : p = page
      BY <2>3
    <3>2. PICK v : v = request[q].viewer
      OBVIOUS
    <3>3. found = Existing(p, v)
      BY <3>1, <3>2
    <3> HIDE DEF found
    <3> QED
      BY <3>1, <3>2, <3>3, ExistingIs, Zenon
  <2> HIDE DEF m, page, found
  <2>6. found # NoComment => /\ found \in Marked
                             /\ request[q].viewer = a => comments[found].author = a
    <3>1. SUFFICES ASSUME found # NoComment
                   PROVE  found \in Marked /\ (request[q].viewer = a => comments[found].author = a)
      BY Zenon
    <3>2. found \in 1..m /\ page[found] = comments[found]
      BY <2>3, <2>5, <3>1
    <3>3. found \in DOMAIN comments
      <4>1. PICK k \in Nat : k = Len(comments) /\ m \in 0..k
        BY <2>2, <2>4, Zenon
      <4>2. 1..m \subseteq 1..k
        BY <4>1
      <4> QED
        BY <2>4, <3>2, <4>1, <4>2, Zenon
    <3>4. comments[found].marked /\ (request[q].viewer = NoAccount \/ comments[found].author = request[q].viewer)
      BY <2>5, <3>1, <3>2, Zenon
    <3> QED
      BY <1>1, <3>3, <3>4, Zenon DEF Marked
  <2>7. found = NoComment /\ request[q].viewer = a /\ Len(comments) <= PageSize => Of(a) = {}
    BY <2>2, <2>3, <2>4, <2>5 DEF Marked, Of
  <2>8. request[q].existing = NoComment /\ (a \notin excused => request[q].viewer = a)
    BY <1>1, <1>5 DEF RequestKnows, ListComments
  <2>9. Len(comments) <= PageSize \/ Len(comments) > PageSize
    BY <2>4, AccountsAssumption
  <2> DEFINE knows == [request[q] EXCEPT !.step = "write", !.existing = e]
  <2>10. request' = [request EXCEPT ![q] = knows]
    BY <2>1
  <2>11. /\ knows \in Knowledge /\ knows.step = "write" /\ knows.viewer = request[q].viewer
         /\ knows.existing = e
    BY <1>1, <2>1, <2>5 DEF RequestSteps
  <2>12. PICK x : x = knows
    OBVIOUS
  <2> HIDE DEF knows
  <2>13. request'[q] = x
    BY <1>1, <2>10, <2>12
  <2>14. Busy(q) /\ request[q].step \notin Through /\ comments' = comments /\ last' = last
    BY <1>5 DEF ListComments, Busy, Through
  <2>15. Marked' = Marked /\ Of(a)' = Of(a)
    BY <2>14 DEF Marked, Of
  <2>16. RequestKnows(q)'
    <3>1. e # NoComment => e \in Marked /\ (request[q].viewer = a => comments[e].author = a)
      BY <2>1, <2>6, <2>8
    <3>2. e = NoComment /\ a \notin excused' => Of(a) = {}
      BY <2>1, <2>7, <2>8, <2>9
    <3> QED
      BY <1>1, <2>1, <2>8, <2>11, <2>12, <2>13, <2>14, <2>15, <3>1, <3>2 DEF RequestKnows
  <2> QED
    BY <2>1, <2>10, <2>11, <2>12, <2>14, <2>16, RequestMoves
<1>6. CASE RequestFails(q)
  <2> DEFINE knows == [request[q] EXCEPT !.step = "failed"]
  <2>2. request' = [request EXCEPT ![q] = knows]
    BY <1>1, <1>6 DEF RequestFails
  <2>3. /\ knows \in Knowledge /\ knows.step = "failed" /\ knows.viewer = request[q].viewer
        /\ knows.existing = request[q].existing
    BY <1>1 DEF RequestSteps
  <2>4. PICK x : x = knows
    OBVIOUS
  <2> HIDE DEF knows
  <2>5. request'[q] = x
    BY <1>1, <2>2, <2>4
  <2>6. RequestKnows(q)'
    BY <1>1, <1>6, <2>3, <2>4, <2>5 DEF RequestKnows, RequestFails
  <2>7. Busy(q) /\ request[q].step \notin Through
    BY <1>6 DEF RequestFails, Busy, Through
  <2> QED
    BY <1>6, <2>2, <2>3, <2>4, <2>6, <2>7, RequestMoves DEF RequestFails
<1> QED
  BY <1>2, <1>3, <1>4, <1>5, <1>6

LEMMA CommentsStepKeeps ==
    ASSUME GitHubInv, CommentsInv, [CommentsStep]_commentVars
    PROVE  GitHubInv' /\ CommentsInv'
<1>1. CASE GitHubStep /\ UNCHANGED <<comments, request, excused, last>>
  BY <1>1, BranchStep, OthersKeep
<1>2. ASSUME NEW q \in Requests, Comment(q) PROVE GitHubInv' /\ CommentsInv'
  <2>1. UNCHANGED <<head, private, gone, analysis, moved>> /\ (Trouble \/ UNCHANGED troubles)
    <3>1. BeginRequest(q) \/ FetchPullRequest(q) => UNCHANGED githubVars
      BY Zenon DEF BeginRequest, FetchPullRequest
    <3>2. AskViewer(q) \/ ListComments(q) \/ WriteComment(q) \/ RequestFails(q) =>
             UNCHANGED <<head, private, gone, analysis, moved>> /\ (Trouble \/ UNCHANGED troubles)
      BY Zenon DEF AskViewer, ListComments, WriteComment, RequestFails
    <3> QED
      BY <1>2, <3>1, <3>2 DEF Comment, githubVars
  <2>2. GitHubInv'
    BY <2>1, BranchStays
  <2>3. CASE WriteComment(q)
    BY <2>2, <2>3, WriteKeeps
  <2>4. CASE ~ WriteComment(q)
    BY <1>2, <2>2, <2>4, RequestLearns DEF Comment, GitHubInv
  <2> QED
    BY <2>3, <2>4
<1>3. CASE SomebodyComments
  <2>1. UNCHANGED githubVars
    BY <1>3 DEF SomebodyComments
  <2>2. GitHubInv'
    BY <2>1, BranchStays DEF githubVars
  <2> QED
    BY <1>3, <2>2, OthersKeep DEF SomebodyComments
<1>4. CASE UNCHANGED commentVars
  <2>1. UNCHANGED githubVars /\ UNCHANGED <<comments, request, excused, last>>
    BY <1>4 DEF commentVars
  <2>2. GitHubInv'
    BY <2>1, BranchStays DEF githubVars
  <2> QED
    BY <2>1, <2>2, OthersKeep
<1> QED
  BY <1>1, <1>2, <1>3, <1>4 DEF CommentsStep

LEMMA CommentsAreOneEach == CommentsInv => OneCommentEach
<1> SUFFICES ASSUME CommentsInv, NEW a \in Accounts
             PROVE  /\ a \notin excused => Cardinality(Of(a)) <= 1
                    /\ \A i \in Of(a) :
                          LET q == comments[i].by
                          IN  /\ RequestedBy[q] = a \/ request[q].viewer = NoAccount
                              /\ RequestedBy[q] = a /\ a \notin excused => q = last[a]
  BY DEF OneCommentEach
<1>1. ASSUME a \notin excused PROVE Cardinality(Of(a)) <= 1
  <2>1. \A i, j \in Of(a) : i = j
    BY <1>1 DEF CommentsInv, OnlyOne
  <2>2. CASE Of(a) = {}
    BY <2>2, FS_EmptySet
  <2>3. CASE Of(a) # {}
    <3>1. PICK i : Of(a) = {i}
      BY <2>1, <2>3
    <3> QED
      BY <3>1, FS_Singleton
  <2> QED
    BY <2>2, <2>3
<1>2. ASSUME NEW i \in Of(a)
      PROVE  /\ RequestedBy[comments[i].by] = a \/ request[comments[i].by].viewer = NoAccount
             /\ RequestedBy[comments[i].by] = a /\ a \notin excused => comments[i].by = last[a]
  <2>1. i \in Marked /\ comments[i].author = a
    BY DEF Of
  <2> QED
    BY <2>1 DEF CommentsInv, WrittenBy
<1> QED
  BY <1>1, <1>2

(* However many accounts ask for comments and however their requests       *)
(* interleave, an account that asks one at a time and is answered who it   *)
(* is has at most one comment, the one its last request wrote: see         *)
(* OneCommentEach, upsert_comment.                                         *)
THEOREM OneCommentOfEach == CommentsSpec => []OneCommentEach
<1>1. CommentsInit => GitHubInv /\ CommentsInv
  BY CommentsBegin, BranchBegins DEF CommentsInit
<1>2. GitHubInv /\ CommentsInv /\ [CommentsStep]_commentVars => (GitHubInv /\ CommentsInv)'
  BY CommentsStepKeeps
<1> QED
  BY <1>1, <1>2, CommentsAreOneEach, PTL DEF CommentsSpec
=============================================================================
