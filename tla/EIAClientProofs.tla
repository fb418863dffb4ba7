--------------------------- MODULE EIAClientProofs ---------------------------
(***************************************************************************)
(* Theorems about module EIAClient, for any page size, number of retries,  *)
(* waits and changes of the archive.                                       *)
(***************************************************************************)
EXTENDS EIAClient, FiniteSetTheorems, TLAPS

-----------------------------------------------------------------------------
(* Ranks: a page is the keys whose ranks lie in an interval. *)

\* Rank among the keys of a set P.
RankIn(P, key) == Cardinality({j \in P : j < key})

LEMMA KeysFinite ==
  /\ Keys \subseteq Nat /\ IsFiniteSet(Keys) /\ Cardinality(Keys) = MaxKey
  /\ \A P \in SUBSET Keys : IsFiniteSet(P) /\ Cardinality(P) \in 0..MaxKey
<1>1. MaxKey \in Nat \ {0}
  BY EIAClientAssumption DEF EIAClientAssumption
<1>2. IsFiniteSet(Keys) /\ Cardinality(Keys) = MaxKey
  BY <1>1, FS_Interval DEF Keys
<1>3. ASSUME NEW P \in SUBSET Keys PROVE IsFiniteSet(P) /\ Cardinality(P) \in 0..MaxKey
  <2>1. IsFiniteSet(P) /\ Cardinality(P) <= MaxKey
    BY <1>2, FS_Subset
  <2>2. Cardinality(P) \in Nat
    BY <2>1, FS_CardinalityType
  <2> QED BY <1>1, <2>1, <2>2
<1> QED BY <1>1, <1>2, <1>3 DEF Keys

LEMMA RankType ==
  ASSUME NEW P \in SUBSET Keys, NEW key
  PROVE  RankIn(P, key) \in Nat /\ IsFiniteSet({j \in P : j < key})
<1>1. {j \in P : j < key} \in SUBSET Keys
  OBVIOUS
<1>2. IsFiniteSet({j \in P : j < key})
  BY <1>1, KeysFinite
<1> QED BY <1>2, FS_CardinalityType DEF RankIn

\* A member before another one has the lower rank.
LEMMA RankIncreases ==
  ASSUME NEW P \in SUBSET Keys, NEW i \in P, NEW j \in Keys, i < j
  PROVE  RankIn(P, i) < RankIn(P, j)
<1> DEFINE A == {x \in P : x < i}
           B == {x \in P : x < j}
<1>1. A \in SUBSET B /\ i \in B /\ i \notin A
  <2>1. i \in Nat /\ j \in Nat /\ \A x \in P : x \in Nat
    BY KeysFinite
  <2>2. \A x \in P : x < i => x < j
    BY <2>1
  <2>3. A \in SUBSET B
    BY <2>2
  <2>4. i \in B
    OBVIOUS
  <2>5. ~(i < i)
    BY <2>1
  <2> QED BY <2>3, <2>4, <2>5
<1>2. IsFiniteSet(A) /\ IsFiniteSet(B)
  BY RankType
<1>3. Cardinality(A) <= Cardinality(B) /\ Cardinality(A) # Cardinality(B)
  BY <1>1, <1>2, FS_Subset
<1>4. Cardinality(A) \in Nat /\ Cardinality(B) \in Nat
  BY <1>2, FS_CardinalityType
<1> QED BY <1>3, <1>4 DEF RankIn

LEMMA RankBelowTotal ==
  ASSUME NEW P \in SUBSET Keys, NEW key \in P
  PROVE  RankIn(P, key) < Cardinality(P)
<1> DEFINE A == {x \in P : x < key}
<1>1. A \in SUBSET P /\ key \notin A /\ IsFiniteSet(A) /\ IsFiniteSet(P)
  BY KeysFinite, RankType
<1>2. Cardinality(A) <= Cardinality(P) /\ Cardinality(A) # Cardinality(P)
  BY <1>1, FS_Subset
<1>3. Cardinality(A) \in Nat /\ Cardinality(P) \in Nat
  BY <1>1, FS_CardinalityType
<1> QED BY <1>2, <1>3 DEF RankIn

\* An insertion moves no row towards the front.
LEMMA RankAfterInsert ==
  ASSUME NEW P \in SUBSET Keys, NEW Q \in SUBSET Keys, P \subseteq Q, NEW key
  PROVE  RankIn(P, key) <= RankIn(Q, key)
<1>1. {x \in P : x < key} \in SUBSET {x \in Q : x < key}
  OBVIOUS
<1> QED BY <1>1, RankType, FS_Subset DEF RankIn

\* A deletion moves the rows behind it by one place.
LEMMA RankAfterDelete ==
  ASSUME NEW P \in SUBSET Keys, NEW gone \in P, NEW key \in Keys, key # gone
  PROVE  RankIn(P \ {gone}, key) = IF gone < key THEN RankIn(P, key) - 1 ELSE RankIn(P, key)
<1>1. {x \in P \ {gone} : x < key} = {x \in P : x < key} \ {gone}
  OBVIOUS
<1>2. gone \in {x \in P : x < key} <=> gone < key
  OBVIOUS
<1>3. IsFiniteSet({x \in P : x < key})
  BY RankType
<1>4. Cardinality({x \in P : x < key} \ {gone})
        = IF gone \in {x \in P : x < key} THEN Cardinality({x \in P : x < key}) - 1
          ELSE Cardinality({x \in P : x < key})
  BY <1>3, FS_RemoveElement
<1> QED BY <1>1, <1>2, <1>4 DEF RankIn

\* A page has no more rows than it has places.
LEMMA PageFits ==
  ASSUME NEW P \in SUBSET Keys, NEW a \in Nat, NEW b \in Nat, a <= b,
         NEW R \in SUBSET P, \A key \in R : a <= RankIn(P, key) /\ RankIn(P, key) < b
  PROVE  Cardinality(R) \in Nat /\ Cardinality(R) <= b - a
<1> DEFINE f == [key \in R |-> RankIn(P, key)]
           T == a..(b - 1)
<1>1. f \in [R -> T]
  <2>1. ASSUME NEW key \in R PROVE RankIn(P, key) \in T
    <3>1. a <= RankIn(P, key) /\ RankIn(P, key) < b
      OBVIOUS
    <3>2. RankIn(P, key) \in Nat
      BY RankType
    <3> QED BY <3>1, <3>2
  <2> QED BY <2>1
<1>2. \A x, y \in R : f[x] = f[y] => x = y
  <2> SUFFICES ASSUME NEW x \in R, NEW y \in R, x # y PROVE RankIn(P, x) # RankIn(P, y)
    OBVIOUS
  <2>1. x \in Nat /\ y \in Nat /\ x \in P /\ y \in P /\ x \in Keys /\ y \in Keys
    BY KeysFinite
  <2>2. RankIn(P, x) \in Nat /\ RankIn(P, y) \in Nat
    BY RankType
  <2>3. x < y => RankIn(P, x) < RankIn(P, y)
    BY <2>1, RankIncreases
  <2>4. y < x => RankIn(P, y) < RankIn(P, x)
    BY <2>1, RankIncreases
  <2> QED BY <2>1, <2>2, <2>3, <2>4
<1>3. f \in Injection(R, T)
  BY <1>1, <1>2 DEF Injection, IsInjective
<1>4. IsFiniteSet(T) /\ Cardinality(T) = b - a
  <2>1. a \in Int /\ b - 1 \in Int
    OBVIOUS
  <2>2. /\ IsFiniteSet(a..(b - 1))
        /\ Cardinality(a..(b - 1)) = IF a > b - 1 THEN 0 ELSE (b - 1) - a + 1
    BY <2>1, FS_Interval
  <2> QED BY <2>2
<1>5. Cardinality(R) <= Cardinality(T)
  BY <1>3, <1>4, FS_Injection
<1>6. R \in SUBSET Keys
  OBVIOUS
<1> QED BY <1>4, <1>5, <1>6, KeysFinite

-----------------------------------------------------------------------------
(* Types. *)

LEMMA ConstantsTyped ==
  /\ MaxKey \in Nat \ {0} /\ PageSize \in Nat \ {0} /\ MaxRetries \in Nat \ {0}
  /\ Backoff \in Nat /\ Cap \in Nat /\ Interval \in Nat /\ MaxChanges \in Nat
BY EIAClientAssumption DEF EIAClientAssumption

\* The rows of a page exist and are no more than were asked for or are left.
LEMMA RowsTyped ==
  ASSUME offset \in Nat, NEW n \in 0..PageSize, NEW rows, rows = RowsAt(offset, n)
  PROVE  /\ rows \subseteq Present /\ Present \subseteq Keys
         /\ Cardinality(rows) \in Nat /\ Cardinality(rows) <= n
         /\ rows # {} => offset + Cardinality(rows) <= Total
         /\ Total \in 0..MaxKey
<1>1. rows \in SUBSET Present /\ Present \in SUBSET Keys
  BY DEF RowsAt, Present
<1>2. \A key \in rows : offset <= RankIn(Present, key) /\ RankIn(Present, key) < offset + n
  BY DEF RowsAt, Rank, RankIn
<1>3. Total \in 0..MaxKey
  BY <1>1, KeysFinite DEF Total
<1>4. n \in Nat /\ offset + n \in Nat
  BY ConstantsTyped
<1>5. Cardinality(rows) \in Nat /\ Cardinality(rows) <= (offset + n) - offset
  BY <1>1, <1>2, <1>4, PageFits
<1>6. ASSUME rows # {} PROVE offset + Cardinality(rows) <= Total
  <2>1. \A key \in rows : RankIn(Present, key) < Total
    BY <1>1, RankBelowTotal DEF Total
  <2>2. PICK key \in rows : offset <= RankIn(Present, key) /\ RankIn(Present, key) < Total
    BY <1>2, <1>6, <2>1
  <2>3. RankIn(Present, key) \in Nat
    BY <1>1, RankType
  <2>4. offset <= Total /\ Total \in Nat
    BY <1>3, <2>2, <2>3
  <2>5. Cardinality(rows) <= Total - offset
    BY <1>1, <1>2, <2>1, <2>4, PageFits
  <2> QED BY <1>3, <1>5, <2>5
<1> QED BY <1>1, <1>3, <1>4, <1>5, <1>6

\* The longest wait before a retry.
Longest == Larger(Cap, Backoff * 2^MaxRetries)

LEMMA LongestTyped ==
  /\ Longest \in Nat /\ Cap <= Longest
  /\ \A n \in 0..MaxRetries : Backoff * 2^n \in Nat /\ Backoff * 2^n <= Longest
<1>1. \A n \in 0..MaxRetries : 2^n \in Nat /\ 2^n <= 2^MaxRetries
  BY PowersGrow, ConstantsTyped
<1>2. 2^MaxRetries \in Nat
  BY <1>1, ConstantsTyped
<1>3. Backoff * 2^MaxRetries \in Nat
  BY <1>2, ConstantsTyped
<1>4. ASSUME NEW a \in Nat, NEW b \in Nat, a <= b PROVE Backoff * a \in Nat /\ Backoff * a <= Backoff * b
  BY <1>4, ConstantsTyped
<1>5. \A n \in 0..MaxRetries : Backoff * 2^n \in Nat /\ Backoff * 2^n <= Backoff * 2^MaxRetries
  BY <1>1, <1>2, <1>4
<1> QED BY <1>3, <1>5, ConstantsTyped DEF Longest, Larger

\* A Retry-After that is obeyed is a wait of at least 0 and at most the cap.
LEMMA ObeyedTyped ==
  ASSUME NEW header \in Headers, ~TooLong(header), NEW wait \in RetryAfterSeconds(header)
  PROVE  wait \in 0..Longest
<1>1. header[2] \in Int /\ (header[1] = "seconds" => header[2] >= 0)
  BY EIAClientAssumption DEF EIAClientAssumption
<1>2. header[1] = "seconds" => RetryAfterSeconds(header) = {header[2]}
  BY Zenon DEF RetryAfterSeconds
<1>3. header[1] = "date" => RetryAfterSeconds(header) = {Larger(0, header[2])}
  <2> SUFFICES ASSUME header[1] = "date" PROVE RetryAfterSeconds(header) = {Larger(0, header[2])}
    OBVIOUS
  <2>1. header[1] # "seconds"
    OBVIOUS
  <2> QED BY <2>1, Zenon DEF RetryAfterSeconds
<1>4. header[1] \notin {"seconds", "date"} => RetryAfterSeconds(header) = {}
  <2> SUFFICES ASSUME header[1] # "seconds", header[1] # "date" PROVE RetryAfterSeconds(header) = {}
    OBVIOUS
  <2> QED BY Zenon DEF RetryAfterSeconds
<1>5. wait \in Int /\ wait >= 0
  BY <1>1, <1>2, <1>3, <1>4 DEF Larger
<1>6. wait <= Cap
  BY <1>5, ConstantsTyped DEF TooLong
<1> QED BY <1>5, <1>6, LongestTyped, ConstantsTyped

\* What was slept for a page is at most the longest wait for each retry so far.
SleptAfter(seconds, n) ==
  /\ seconds \in Nat /\ n \in 0..MaxRetries
  /\ seconds <= Smaller(n, MaxRetries - 1) * Longest

Slept == SleptAfter(slept, attempt)

\* What a request leaves behind: the client's stamp and the server's agree.
Sent ==
  /\ quiet' \in 0..Interval /\ sent' = quiet'
  /\ gap' = sent + Larger(0, Interval - quiet)

LEMMA RequestSends ==
  ASSUME NEW spent \in Nat, Request(spent)
  PROVE  Sent
<1>1. Smaller(spent, Interval) \in 0..Interval
  BY ConstantsTyped DEF Smaller
<1>2. PICK pause \in 0..Interval : Throttle(pause, spent) /\ Arrive(pause, spent)
  BY DEF Request
<1> QED BY <1>1, <1>2 DEF Throttle, Arrive, Sent

LEMMA RetrySleeps ==
  ASSUME Slept, attempt < MaxRetries, NEW wait \in 0..Longest, NEW took \in Nat,
         Retry(wait, took)
  PROVE  SleptAfter(slept', attempt') /\ Sent
<1>1. /\ attempt \in Nat /\ attempt' = attempt + 1 /\ attempt' \in 0..MaxRetries
      /\ slept \in Nat /\ Longest \in Nat /\ wait \in Nat /\ wait <= Longest
  BY ConstantsTyped, LongestTyped DEF Slept, SleptAfter, Retry
<1>2. Sleep(wait) \in Nat
  BY <1>1 DEF Sleep
<1>3. slept' \in Nat /\ slept' = slept + Sleep(wait)
  BY <1>1, <1>2 DEF Retry
<1>4. ASSUME attempt < MaxRetries - 1 PROVE SleptAfter(slept', attempt')
  <2>1. slept <= attempt * Longest /\ slept' = slept + wait
    BY <1>1, <1>3, <1>4, ConstantsTyped DEF Slept, SleptAfter, Smaller, Sleep
  <2>2. (attempt + 1) * Longest = attempt * Longest + Longest /\ attempt * Longest \in Nat
    BY <1>1
  <2>3. slept' <= (attempt + 1) * Longest
    BY <1>1, <2>1, <2>2
  <2>4. Smaller(attempt', MaxRetries - 1) = attempt + 1
    BY <1>1, <1>4, ConstantsTyped DEF Smaller
  <2>5. slept' <= Smaller(attempt', MaxRetries - 1) * Longest
    BY <2>3, <2>4
  <2> QED BY <1>1, <1>3, <2>5 DEF SleptAfter
<1>5. ASSUME attempt = MaxRetries - 1 PROVE SleptAfter(slept', attempt')
  <2>1. slept' = slept
    BY <1>1, <1>3, <1>5, ConstantsTyped DEF Sleep
  <2>2. Smaller(attempt', MaxRetries - 1) = Smaller(attempt, MaxRetries - 1)
    BY <1>1, <1>5, ConstantsTyped DEF Smaller
  <2>3. slept' <= Smaller(attempt', MaxRetries - 1) * Longest
    BY <2>1, <2>2 DEF Slept, SleptAfter
  <2> QED BY <1>1, <1>3, <2>3 DEF SleptAfter
<1>6. Sent
  <2>1. took + Sleep(wait) \in Nat /\ Request(took + Sleep(wait))
    BY <1>2 DEF Retry
  <2> QED BY <2>1, RequestSends
<1> QED BY <1>1, <1>4, <1>5, <1>6, ConstantsTyped

TypeInv == TypeOK /\ Slept

LEMMA TypeInit == Init => TypeInv
<1> SUFFICES ASSUME Init PROVE TypeInv
  OBVIOUS
<1> USE ConstantsTyped
<1>1. archive \in [Keys -> 0..(MaxChanges + 1)] /\ changes \in 0..MaxChanges /\ pc = "get"
  <2>1. {0, 1} \subseteq 0..(MaxChanges + 1)
    OBVIOUS
  <2> QED BY <2>1 DEF Init
<1>2. offset \in 0..MaxKey /\ attempt \in 0..MaxRetries /\ slept \in Nat
      /\ quiet \in 0..Interval /\ sent \in 0..Interval /\ gap \in Nat
  BY DEF Init
<1>3. got \in [Keys -> 0..(MaxChanges + 1)] /\ newest \in [Keys -> 0..(MaxChanges + 1)]
  BY DEF Init
<1>4. held \subseteq Present
  BY DEF Init
<1>5. shrunk \in BOOLEAN
  BY Zenon DEF Init
<1>6. Slept
  <2>1. slept = 0 /\ attempt = 0 /\ Smaller(0, MaxRetries - 1) = 0
    BY DEF Init, Smaller
  <2>2. 0 * Longest = 0
    BY LongestTyped
  <2> QED BY <2>1, <2>2 DEF Slept, SleptAfter
<1> QED BY <1>1, <1>2, <1>3, <1>4, <1>5, <1>6 DEF TypeInv, TypeOK

\* The parts of the state that only the server, or only the client, changes.
Server == <<archive, changes, held, shrunk>>
Walk   == <<pc, offset, attempt, slept, quiet, sent, gap, got, newest>>

LEMMA ServerTyped ==
  ASSUME TypeInv, NEW key \in Keys, Publish(key) \/ Delete(key)
  PROVE  /\ archive' \in [Keys -> 0..(MaxChanges + 1)] /\ changes' \in 0..MaxChanges
         /\ held' \subseteq Present' /\ shrunk' \in BOOLEAN /\ UNCHANGED Walk
         /\ changes' = changes + 1 /\ \A k \in Keys \ {key} : archive'[k] = archive[k]
<1> USE ConstantsTyped
<1>1. CASE Publish(key)
  <2>1. archive' \in [Keys -> 0..(MaxChanges + 1)] /\ changes' \in 0..MaxChanges /\ changes' = changes + 1
    BY <1>1 DEF Publish, TypeInv, TypeOK
  <2>2. archive'[key] = changes + 2 /\ \A k \in Keys \ {key} : archive'[k] = archive[k]
    BY <1>1 DEF Publish, TypeInv, TypeOK
  <2>3. held' \subseteq Present'
    BY <1>1, <2>2 DEF Publish, Present, TypeInv, TypeOK
  <2> QED BY <1>1, <2>1, <2>2, <2>3 DEF Publish, Walk, TypeInv, TypeOK
<1>2. CASE Delete(key)
  <2>1. archive' \in [Keys -> 0..(MaxChanges + 1)] /\ changes' \in 0..MaxChanges /\ changes' = changes + 1
    BY <1>2 DEF Delete, TypeInv, TypeOK
  <2>2. \A k \in Keys \ {key} : archive'[k] = archive[k]
    BY <1>2 DEF Delete, TypeInv, TypeOK
  <2>3. held' \subseteq Present'
    BY <1>2, <2>2 DEF Delete, Present, TypeInv, TypeOK
  <2>4. shrunk' \in BOOLEAN
    BY <1>2, Zenon DEF Delete
  <2> QED BY <1>2, <2>1, <2>2, <2>3, <2>4 DEF Delete, Walk
<1> QED BY <1>1, <1>2

\* What a page brings: its rows, in the version that the server has now.
PageTaken(rows, n) ==
  /\ rows = RowsAt(offset, n) /\ rows \subseteq Keys
  /\ got' = [key \in Keys |-> IF key \in rows THEN archive[key] ELSE got[key]]
  /\ newest' = [key \in Keys |->
       IF key \in rows THEN Larger(newest[key], archive[key]) ELSE newest[key]]
  /\ offset' = offset + Cardinality(rows)
  /\ pc' = IF offset' >= Total THEN "done" ELSE "get"

LEMMA AnswerCases ==
  ASSUME TypeInv, NEW n \in 0..PageSize, NEW took \in Nat, Answer(n, took)
  PROVE  /\ UNCHANGED Server /\ pc = "get"
         /\ attempt' = 0 /\ slept' = 0 /\ Sent
         /\ \/ /\ RowsAt(offset, n) = {} /\ UNCHANGED <<offset, got, newest>>
               /\ pc' = IF offset < Total THEN "error" ELSE "done"
            \/ RowsAt(offset, n) # {} /\ PageTaken(RowsAt(offset, n), n)
<1>1. RowsAt(offset, n) \subseteq Keys
  BY DEF RowsAt, Present
<1>2. Sent
  BY RequestSends DEF Answer
<1> QED BY <1>1, <1>2 DEF Answer, Server, Empty, KeepLast, Advance, PageTaken

LEMMA PageTyped ==
  ASSUME TypeInv, NEW n \in 0..PageSize, NEW rows, rows # {}, PageTaken(rows, n)
  PROVE  /\ got' \in [Keys -> 0..(MaxChanges + 1)] /\ newest' \in [Keys -> 0..(MaxChanges + 1)]
         /\ offset' \in 0..MaxKey /\ pc' \in {"get", "done"}
<1>1. offset \in Nat
  BY ConstantsTyped DEF TypeInv, TypeOK
<1>2. Cardinality(rows) \in Nat /\ offset + Cardinality(rows) <= Total /\ Total \in 0..MaxKey
  BY <1>1, RowsTyped DEF PageTaken
<1>3. got' \in [Keys -> 0..(MaxChanges + 1)]
  BY DEF PageTaken, TypeInv, TypeOK
<1>4. newest' \in [Keys -> 0..(MaxChanges + 1)]
  BY DEF PageTaken, TypeInv, TypeOK, Larger
<1> QED BY <1>1, <1>2, <1>3, <1>4, ConstantsTyped DEF PageTaken

\* An attempt that fails: the walk stays where it is, and the request was spaced.
Failed ==
  /\ UNCHANGED <<Server, offset, got, newest>>
  /\ SleptAfter(slept', attempt')
  /\ Sent \/ UNCHANGED <<quiet, sent, gap>>
  /\ pc' \in {"get", "throttled", "error"} /\ pc = "get"

LEMMA FailedCases ==
  ASSUME TypeInv, NEW took \in {0, Interval},
         \/ TransportError(took) \/ Refused(took) \/ Exhausted
         \/ \E header \in Headers : Unavailable(header, took)
  PROVE  Failed
<1>0. took \in Nat /\ Slept /\ pc \in {"get", "done", "throttled", "error"} /\ quiet \in 0..Interval
  BY ConstantsTyped DEF TypeInv, TypeOK
<1>1. CASE TransportError(took)
  <2>1. attempt \in 0..MaxRetries /\ attempt < MaxRetries /\ Retry(Backoff * 2^attempt, took)
    BY <1>0, <1>1 DEF TransportError, Slept, SleptAfter
  <2>2. PICK wait \in 0..Longest : wait = Backoff * 2^attempt
    BY <2>1, LongestTyped
  <2>3. SleptAfter(slept', attempt') /\ Sent
    BY <1>0, <2>1, <2>2, RetrySleeps
  <2> QED BY <1>1, <2>3 DEF TransportError, Failed, Server
<1>2. CASE Refused(took)
  <2>1. Sent
    BY <1>0, <1>2, RequestSends DEF Refused
  <2> QED BY <1>0, <1>2, <2>1 DEF Refused, Failed, Server, Slept
<1>3. ASSUME NEW header \in Headers, Unavailable(header, took) PROVE Failed
  <2>1. CASE TooLong(header) /\ Request(took) /\ pc' = "throttled" /\ UNCHANGED <<attempt, slept>>
    <3>1. Sent
      BY <1>0, <2>1, RequestSends
    <3> QED BY <1>0, <1>3, <2>1, <3>1 DEF Unavailable, Failed, Server, Slept
  <2>2. ASSUME ~TooLong(header), pc' = pc, NEW wait, Retry(wait, took),
               wait = Backoff * 2^attempt \/ wait \in RetryAfterSeconds(header)
        PROVE  Failed
    <3>1. attempt \in 0..MaxRetries /\ attempt < MaxRetries
      BY <1>0, <1>3 DEF Unavailable, Slept, SleptAfter
    <3>2. wait \in 0..Longest
      BY <2>2, <3>1, ObeyedTyped, LongestTyped
    <3>3. SleptAfter(slept', attempt') /\ Sent
      BY <1>0, <2>2, <3>1, <3>2, RetrySleeps
    <3> QED BY <1>3, <2>2, <3>3 DEF Unavailable, Failed, Server
  <2> QED BY <1>3, <2>1, <2>2 DEF Unavailable
<1>4. CASE Exhausted
  BY <1>0, <1>4 DEF Exhausted, Failed, Server, Slept
<1> QED BY <1>1, <1>2, <1>3, <1>4

LEMMA StepCases ==
  ASSUME TypeInv, [Next]_vars
  PROVE  \/ \E key \in Keys : Publish(key) \/ Delete(key)
         \/ \E n \in 0..PageSize, took \in Nat : Answer(n, took)
         \/ Failed
         \/ UNCHANGED vars
<1>1. {0, Interval} \subseteq Nat
  BY ConstantsTyped
<1>2. CASE Exhausted
  BY <1>2, FailedCases
<1>3. ASSUME NEW took \in {0, Interval},
             \/ TransportError(took) \/ Refused(took)
             \/ \E header \in Headers : Unavailable(header, took)
      PROVE  Failed
  BY <1>3, FailedCases
<1> QED BY <1>1, <1>2, <1>3 DEF Next, Client

LEMMA SentTyped ==
  ASSUME TypeInv, Sent
  PROVE  quiet' \in 0..Interval /\ sent' \in 0..Interval /\ gap' \in Nat
BY ConstantsTyped DEF Sent, Larger, TypeInv, TypeOK

LEMMA TypeStep == TypeInv /\ [Next]_vars => TypeInv'
<1> SUFFICES ASSUME TypeInv, [Next]_vars PROVE TypeInv'
  OBVIOUS
<1> USE ConstantsTyped
<1>1. ASSUME NEW key \in Keys, Publish(key) \/ Delete(key) PROVE TypeInv'
  BY <1>1, ServerTyped DEF Walk, TypeInv, TypeOK, Slept
<1>2. ASSUME NEW n \in 0..PageSize, NEW took \in Nat, Answer(n, took) PROVE TypeInv'
  <2>1. UNCHANGED Server /\ attempt' = 0 /\ slept' = 0 /\ Sent
    BY <1>2, AnswerCases
  <2>2. /\ got' \in [Keys -> 0..(MaxChanges + 1)] /\ newest' \in [Keys -> 0..(MaxChanges + 1)]
        /\ offset' \in 0..MaxKey /\ pc' \in {"get", "done", "error"}
    <3>1. CASE RowsAt(offset, n) # {} /\ PageTaken(RowsAt(offset, n), n)
      BY <3>1, PageTyped
    <3> QED BY <1>2, <3>1, AnswerCases DEF TypeInv, TypeOK
  <2>3. Slept'
    <3>1. Smaller(0, MaxRetries - 1) = 0 /\ 0 * Longest = 0
      BY LongestTyped DEF Smaller
    <3> QED BY <2>1, <3>1 DEF Slept, SleptAfter
  <2>4. quiet' \in 0..Interval /\ sent' \in 0..Interval /\ gap' \in Nat
    BY <2>1, SentTyped
  <2>5. Present' = Present
    BY <2>1 DEF Server, Present
  <2> QED BY <2>1, <2>2, <2>3, <2>4, <2>5 DEF Server, TypeInv, TypeOK
<1>3. CASE Failed
  <2>1. quiet' \in 0..Interval /\ sent' \in 0..Interval /\ gap' \in Nat
    BY <1>3, SentTyped DEF Failed, TypeInv, TypeOK
  <2>2. Present' = Present
    BY <1>3 DEF Failed, Server, Present
  <2>3. Slept' /\ attempt' \in 0..MaxRetries /\ slept' \in Nat
    BY <1>3 DEF Failed, Slept, SleptAfter
  <2> QED BY <1>3, <2>1, <2>2, <2>3 DEF Failed, Server, TypeInv, TypeOK
<1>4. CASE UNCHANGED vars
  BY <1>4 DEF vars, TypeInv, TypeOK, Slept, Present
<1> QED BY <1>1, <1>2, <1>3, <1>4, StepCases

\* The variables have their types: in particular the offset never passes the end
\* of a result that may have grown and shrunk.
THEOREM TypeCorrect == Spec => []TypeOK
<1>1. TypeInv => TypeOK
  BY DEF TypeInv
<1> QED BY <1>1, TypeInit, TypeStep, PTL DEF Spec

\* However a server spells its Retry-After and however many attempts fail, one
\* page never makes the client sleep longer than MaxRetries - 1 of the longest
\* waits it accepts.
THEOREM SleepsAreBounded == Spec => []SleepIsBounded
<1>1. TypeInv => SleepIsBounded
  <2> SUFFICES ASSUME TypeInv PROVE SleepIsBounded
    OBVIOUS
  <2> DEFINE n == Smaller(attempt, MaxRetries - 1)
  <2>1. n \in Nat /\ n <= MaxRetries - 1 /\ MaxRetries - 1 \in Nat
    BY ConstantsTyped DEF TypeInv, TypeOK, Smaller
  <2>2. slept \in Nat /\ slept <= n * Longest /\ Longest \in Nat
    BY LongestTyped DEF TypeInv, Slept, SleptAfter
  <2>3. n * Longest <= (MaxRetries - 1) * Longest
    <3> HIDE DEF n
    <3> QED BY <2>1, <2>2
  <2>4. n * Longest \in Int /\ (MaxRetries - 1) * Longest \in Int
    <3> HIDE DEF n
    <3> QED BY <2>1, <2>2
  <2>5. 0 <= slept /\ slept <= (MaxRetries - 1) * Longest
    <3> HIDE DEF n
    <3> QED BY <2>2, <2>3, <2>4
  <2> QED BY <2>5 DEF SleepIsBounded, Longest
<1> QED BY <1>1, TypeInit, TypeStep, PTL DEF Spec

\* The strengthening: by the client's stamp no more time has passed since the last
\* request than has passed for the server.
Stamped == quiet <= sent

LEMMA StampedStep ==
  Stamped /\ RequestsAreSpaced /\ TypeInv /\ [Next]_vars => Stamped' /\ RequestsAreSpaced'
<1> SUFFICES ASSUME Stamped, RequestsAreSpaced, TypeInv, [Next]_vars
             PROVE  Stamped' /\ RequestsAreSpaced'
  OBVIOUS
<1>t. quiet \in 0..Interval /\ sent \in 0..Interval /\ gap \in Nat /\ Interval \in Nat
  BY ConstantsTyped DEF TypeInv, TypeOK
<1>1. CASE Sent
  <2>1. gap' >= Interval
    BY <1>1, <1>t DEF Sent, Stamped, Larger
  <2>2. quiet' <= sent'
    BY <1>1, <1>t DEF Sent
  <2> QED BY <2>1, <2>2 DEF Stamped, RequestsAreSpaced
<1>2. CASE UNCHANGED <<quiet, sent, gap>>
  BY <1>2 DEF Stamped, RequestsAreSpaced
<1>3. Sent \/ UNCHANGED <<quiet, sent, gap>>
  BY StepCases, ServerTyped, AnswerCases DEF Walk, Failed, vars
<1> QED BY <1>1, <1>2, <1>3

\* Every request reaches the server at least the interval after the one before it,
\* be it the next page, a retry, or the first request of the next query: the
\* distance is measured at the server, and _throttle keeps it by its own clock.
THEOREM RequestsKeepTheirDistance == Spec => []RequestsAreSpaced
<1>1. Init => Stamped /\ RequestsAreSpaced
  BY ConstantsTyped DEF Init, Stamped, RequestsAreSpaced
<1> QED BY <1>1, StampedStep, TypeInit, TypeStep, PTL DEF Spec

-----------------------------------------------------------------------------
(* Which version is kept. *)

\* A row on the server is no older than any page showed it.
Ages ==
  \A key \in Keys :
    /\ archive[key] <= changes + 1 /\ newest[key] <= changes + 1
    /\ archive[key] = 0 \/ newest[key] <= archive[key]

LEMMA AgesInit == Init => Ages /\ NewestIsKept
BY ConstantsTyped DEF Init, Ages, NewestIsKept

LEMMA AgesStep == Ages /\ NewestIsKept /\ TypeInv /\ [Next]_vars => Ages' /\ NewestIsKept'
<1> SUFFICES ASSUME Ages, NewestIsKept, TypeInv, [Next]_vars PROVE Ages' /\ NewestIsKept'
  OBVIOUS
<1>t. /\ archive \in [Keys -> 0..(MaxChanges + 1)] /\ newest \in [Keys -> 0..(MaxChanges + 1)]
      /\ changes \in 0..MaxChanges
  BY DEF TypeInv, TypeOK
<1>1. ASSUME NEW key \in Keys, Publish(key) \/ Delete(key) PROVE Ages' /\ NewestIsKept'
  <2>1. archive'[key] \in {0, changes + 2}
    BY <1>1, <1>t DEF Publish, Delete
  <2>2. changes' = changes + 1 /\ newest' = newest /\ got' = got
        /\ \A k \in Keys \ {key} : archive'[k] = archive[k]
    BY <1>1, ServerTyped DEF Walk
  <2> QED BY <1>t, <2>1, <2>2, ConstantsTyped DEF Ages, NewestIsKept
<1>2. ASSUME NEW n \in 0..PageSize, NEW took \in Nat, Answer(n, took) PROVE Ages' /\ NewestIsKept'
  <2>1. archive' = archive /\ changes' = changes
    BY <1>2, AnswerCases DEF Server
  <2>2. CASE UNCHANGED <<offset, got, newest>>
    BY <2>1, <2>2 DEF Ages, NewestIsKept
  <2>3. CASE PageTaken(RowsAt(offset, n), n)
    <3>1. ASSUME NEW key \in RowsAt(offset, n)
          PROVE  key \in Keys /\ got'[key] = archive[key] /\ newest'[key] = archive[key]
      <4>1. key \in Keys /\ archive[key] # 0
        BY DEF RowsAt, Present
      <4>2. got'[key] = archive[key] /\ newest'[key] = Larger(newest[key], archive[key])
        BY <2>3, <4>1 DEF PageTaken
      <4>3. newest[key] <= archive[key] /\ newest[key] \in Int /\ archive[key] \in Int
        BY <1>t, <4>1, ConstantsTyped DEF Ages
      <4> QED BY <4>1, <4>2, <4>3 DEF Larger
    <3>2. ASSUME NEW key \in Keys \ RowsAt(offset, n)
          PROVE  got'[key] = got[key] /\ newest'[key] = newest[key]
      BY <2>3 DEF PageTaken
    <3> QED BY <2>1, <3>1, <3>2, <1>t, ConstantsTyped DEF Ages, NewestIsKept
  <2> QED BY <1>2, <2>2, <2>3, AnswerCases
<1>3. CASE Failed
  BY <1>3 DEF Failed, Server, Ages, NewestIsKept
<1>4. CASE UNCHANGED vars
  BY <1>4 DEF vars, Ages, NewestIsKept
<1> QED BY <1>1, <1>2, <1>3, <1>4, StepCases

\* Of the versions that the pages of one walk showed of a row, the last one is the
\* newest, so keep="last" keeps the newest.
THEOREM LastIsNewest == Spec => []NewestIsKept
BY AgesInit, AgesStep, TypeInit, TypeStep, PTL DEF Spec

-----------------------------------------------------------------------------
(* No row is lost. *)

\* What lies before the offset has been loaded, unless a row there was deleted.
Covered ==
  ~shrunk => \A key \in held : RankIn(Present, key) < offset => got[key] # 0

LEMMA CoveredInit == Init => Covered /\ CompleteWalk
<1> SUFFICES ASSUME Init PROVE Covered /\ CompleteWalk
  OBVIOUS
<1>1. \A key \in held : ~(RankIn(Present, key) < 0)
  <2>1. Present \in SUBSET Keys
    BY DEF Present
  <2>2. \A key \in held : RankIn(Present, key) \in Nat
    BY <2>1, RankType
  <2> QED BY <2>2
<1>2. offset = 0 /\ pc = "get"
  BY DEF Init
<1> QED BY <1>1, <1>2 DEF Covered, CompleteWalk

LEMMA CoveredByServer ==
  ASSUME Covered, CompleteWalk, TypeInv, NEW gone \in Keys, Publish(gone) \/ Delete(gone)
  PROVE  Covered' /\ CompleteWalk'
<1>1. UNCHANGED Walk /\ held' \subseteq held /\ (shrunk => shrunk') /\ held' \subseteq Present'
  BY ServerTyped DEF Publish, Delete
<1>2. Present \in SUBSET Keys /\ Present' \in SUBSET Keys /\ held \subseteq Present /\ offset \in Nat
  BY ConstantsTyped DEF Present, TypeInv, TypeOK
<1>3. ASSUME ~shrunk', NEW key \in held', RankIn(Present', key) < offset
      PROVE  RankIn(Present, key) < offset
  <2>1. CASE Publish(gone)
    <3>1. Present \subseteq Present'
      BY <2>1, ConstantsTyped DEF Publish, Present, TypeInv, TypeOK
    <3>2. RankIn(Present, key) <= RankIn(Present', key)
      BY <1>2, <3>1, RankAfterInsert
    <3>3. RankIn(Present, key) \in Nat /\ RankIn(Present', key) \in Nat
      BY <1>2, RankType
    <3> QED BY <1>2, <1>3, <3>2, <3>3
  <2>2. CASE Delete(gone)
    <3>1. /\ gone \in Present /\ Present' = Present \ {gone} /\ key # gone
          /\ ~(RankIn(Present, gone) < offset)
      BY <1>3, <2>2 DEF Delete, Present, Rank, RankIn, TypeInv, TypeOK
    <3>2. key \in Keys /\ key \in Present /\ key \in Nat /\ gone \in Nat
      BY <1>1, <1>2, <3>1, KeysFinite
    <3>3. RankIn(Present', key) =
            IF gone < key THEN RankIn(Present, key) - 1 ELSE RankIn(Present, key)
      BY <1>2, <3>1, <3>2, RankAfterDelete
    <3>4. gone < key => RankIn(Present, gone) < RankIn(Present, key)
      BY <1>2, <3>1, <3>2, RankIncreases
    <3>5. RankIn(Present, gone) \in Nat /\ RankIn(Present, key) \in Nat
      BY <1>2, RankType
    <3> QED BY <1>2, <1>3, <3>1, <3>3, <3>4, <3>5
  <2> QED BY <2>1, <2>2
<1>4. Covered'
  BY <1>1, <1>3 DEF Walk, Covered
<1>5. CompleteWalk'
  BY <1>1 DEF Walk, CompleteWalk
<1> QED BY <1>4, <1>5

LEMMA CoveredByAnswer ==
  ASSUME Covered, TypeInv, NEW n \in 0..PageSize, NEW took \in Nat, Answer(n, took)
  PROVE  Covered' /\ CompleteWalk'
<1>1. /\ UNCHANGED Server /\ pc = "get" /\ Present' = Present /\ held \subseteq Present
      /\ Present \in SUBSET Keys /\ offset \in Nat /\ Total \in Nat /\ Total' = Total
  <2>1. UNCHANGED Server /\ pc = "get"
    BY AnswerCases
  <2>2. offset \in Nat /\ held \subseteq Present /\ Present \in SUBSET Keys
    BY ConstantsTyped DEF TypeInv, TypeOK, Present
  <2>3. Total \in Nat
    BY <2>2, KeysFinite, FS_CardinalityType DEF Total
  <2> QED BY <2>1, <2>2, <2>3 DEF Server, Present, Total
\* At the end of the result everything has been loaded.
<1>2. ASSUME Covered', pc' = "done" => offset' >= Total, offset' \in Nat PROVE CompleteWalk'
  <2> SUFFICES ASSUME pc' = "done", ~shrunk', NEW key \in held' PROVE got'[key] # 0
    BY DEF CompleteWalk
  <2>1. key \in Present
    BY <1>1 DEF Server
  <2>2. RankIn(Present, key) < Total /\ RankIn(Present, key) \in Nat
    BY <1>1, <2>1, RankBelowTotal, RankType DEF Total
  <2>3. RankIn(Present', key) < offset'
    BY <1>1, <1>2, <2>2
  <2> QED BY <1>2, <2>3 DEF Covered
<1>3. CASE UNCHANGED <<offset, got, newest>> /\ pc' = IF offset < Total THEN "error" ELSE "done"
  <2>1. Covered'
    BY <1>1, <1>3 DEF Server, Covered
  <2> QED BY <1>1, <1>2, <1>3, <2>1
<1>4. CASE RowsAt(offset, n) # {} /\ PageTaken(RowsAt(offset, n), n)
  <2> DEFINE rows == RowsAt(offset, n)
  <2>1. /\ Cardinality(rows) \in Nat /\ Cardinality(rows) <= n /\ n \in Nat
        /\ offset' = offset + Cardinality(rows) /\ offset' \in Nat
    BY <1>1, <1>4, RowsTyped, ConstantsTyped DEF PageTaken
  <2>2. ASSUME ~shrunk, NEW key \in held, RankIn(Present, key) < offset' PROVE got'[key] # 0
    <3>1. key \in Keys /\ key \in Present /\ archive[key] # 0 /\ RankIn(Present, key) \in Nat
      BY <1>1, RankType DEF Present
    <3>2. CASE RankIn(Present, key) < offset
      <4>1. got[key] # 0
        BY <2>2, <3>2 DEF Covered
      <4> QED BY <1>4, <3>1, <4>1 DEF PageTaken
    <3>3. CASE offset <= RankIn(Present, key)
      <4>1. RankIn(Present, key) < offset + n
        BY <1>1, <2>1, <2>2, <3>1
      <4>2. key \in rows
        BY <3>1, <3>3, <4>1 DEF RowsAt, Rank, RankIn
      <4> QED BY <1>4, <3>1, <4>2 DEF PageTaken
    <3> QED BY <1>1, <3>1, <3>2, <3>3
  <2>3. Covered'
    BY <1>1, <2>2 DEF Server, Covered
  <2>4. pc' = "done" => offset' >= Total
    BY <1>4 DEF PageTaken
  <2> QED BY <1>2, <2>1, <2>3, <2>4
<1> QED BY <1>3, <1>4, AnswerCases

LEMMA CoveredStep == Covered /\ CompleteWalk /\ TypeInv /\ [Next]_vars => Covered' /\ CompleteWalk'
<1> SUFFICES ASSUME Covered, CompleteWalk, TypeInv, [Next]_vars PROVE Covered' /\ CompleteWalk'
  OBVIOUS
<1>1. CASE Failed
  <2>1. Present' = Present /\ pc' # "done"
    BY <1>1 DEF Failed, Server, Present
  <2> QED BY <1>1, <2>1 DEF Failed, Server, Covered, CompleteWalk
<1>2. CASE UNCHANGED vars
  <2>1. Present' = Present
    BY <1>2 DEF vars, Present
  <2> QED BY <1>2, <2>1 DEF vars, Covered, CompleteWalk
<1> QED BY <1>1, <1>2, CoveredByServer, CoveredByAnswer, StepCases

\* A walk that ends without an error has loaded every row that was there from its
\* first request to its last, wherever rows came in between and however short the
\* pages were, unless a row before the offset was deleted.
THEOREM WalksAreComplete == Spec => []CompleteWalk
BY CoveredInit, CoveredStep, TypeInit, TypeStep, PTL DEF Spec
=============================================================================
