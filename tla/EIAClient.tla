------------------------------ MODULE EIAClient -----------------------------
(***************************************************************************)
(* One query of src/grid_pipeline/client.py: iter_rows walks the offsets   *)
(* of a result whose rows change under it, _get retries each request, and  *)
(* db.upsert_rows keeps one row per key of what the walk returned.         *)
(*                                                                         *)
(* A key is a row's place in the requested sort order (period, then        *)
(* series); archive[k] is its version, 0 when the row does not exist.      *)
(***************************************************************************)
EXTENDS Integers, FiniteSets

CONSTANTS
  MaxKey,       \* bound: the keys of the query
  PageSize,     \* page_size
  MaxRetries,   \* max_retries
  Backoff,      \* backoff_base_seconds
  Cap,          \* max_retry_after_seconds
  Interval,     \* sleep_between_requests
  Headers,      \* the Retry-After headers a server may send: <<kind, seconds>>
  MaxChanges    \* bound: rows inserted, restated or deleted during the walk

Keys == 1..MaxKey

ASSUME EIAClientAssumption ==
  /\ MaxKey \in Nat \ {0} /\ PageSize \in Nat \ {0} /\ MaxRetries \in Nat \ {0}
  /\ Backoff \in Nat /\ Cap \in Nat /\ Interval \in Nat
  /\ Headers \subseteq {"none", "unreadable", "seconds", "date"} \X Int
  /\ \A header \in Headers : header[1] = "seconds" => header[2] >= 0
  /\ MaxChanges \in Nat

\* A fact of arithmetic that the provers' theories lack.
ASSUME PowersGrow ==
  \A i, j \in 0..MaxRetries : i <= j => 2^i \in Nat /\ 2^i <= 2^j

VARIABLES
  archive,   \* what the server holds
  changes,   \* how often it has changed
  pc,        \* "get", "done", "throttled" (exit 3) or "error" (exit 4)
  offset,    \* of the page asked for
  attempt,   \* attempts made at this page
  slept,     \* seconds slept for this page
  quiet,     \* age of _last_request_at by the client's clock, at most Interval
  sent,      \* history: seconds since a request reached the server, at most Interval
  gap,       \* history: what sent was when the last request arrived
  got,       \* got[k]: the version kept for key k, 0 if none came
  held,      \* history: the keys the archive has held since the walk began
  newest,    \* history: the newest version of each key that any page showed
  shrunk     \* history: has a row before the offset been deleted?

vars == <<archive, changes, pc, offset, attempt, slept, quiet, sent, gap, got, held, newest, shrunk>>

Present == {key \in Keys : archive[key] # 0}
Rank(key) == Cardinality({j \in Present : j < key})
Total == Cardinality(Present)

Larger(a, b)  == IF a >= b THEN a ELSE b
Smaller(a, b) == IF a <= b THEN a ELSE b

-----------------------------------------------------------------------------
(* The server. *)

\* A row is inserted or restated.
Publish(key) ==
  /\ changes < MaxChanges
  /\ archive' = [archive EXCEPT ![key] = changes + 2]
  /\ changes' = changes + 1
  /\ UNCHANGED <<pc, offset, attempt, slept, quiet, sent, gap, got, held, newest, shrunk>>

Delete(key) ==
  /\ changes < MaxChanges /\ archive[key] # 0
  /\ archive' = [archive EXCEPT ![key] = 0]
  /\ held' = held \ {key}
  /\ shrunk' = (shrunk \/ Rank(key) < offset)
  /\ changes' = changes + 1
  /\ UNCHANGED <<pc, offset, attempt, slept, quiet, sent, gap, got, newest>>

\* The first n rows from an offset on.
RowsAt(from, n) == {key \in Present : from <= Rank(key) /\ Rank(key) < from + n}

-----------------------------------------------------------------------------
(* The client. *)

\* Mistake: _throttle is called once for a page and not before its retries.
ThrottleOnce(pause, spent) ==
  IF attempt = 0 THEN pause = Larger(0, Interval - quiet) /\ quiet' = Smaller(spent, Interval)
  ELSE pause = 0 /\ quiet' = Smaller(quiet + spent, Interval)

\* _throttle sleeps out the interval since the request it stamped last, and
\* stamps this one, which takes the seconds spent together with the sleep that
\* follows it.
Throttle(pause, spent) ==
  /\ pause = Larger(0, Interval - quiet)
  /\ quiet' = Smaller(spent, Interval)

\* What the server sees of a request sent after a pause, by its own clock and
\* however the client came to pause.
Arrive(pause, spent) ==
  /\ gap' = sent + pause
  /\ sent' = Smaller(spent, Interval)

Request(spent) == \E pause \in 0..Interval : Throttle(pause, spent) /\ Arrive(pause, spent)

\* Mistake: of two rows with one key the first is kept.
KeepFirst(rows) ==
  got' = [key \in Keys |-> IF key \in rows /\ got[key] = 0 THEN archive[key] ELSE got[key]]

\* drop_duplicates(keep="last") over the rows of all pages.
KeepLast(rows) ==
  got' = [key \in Keys |-> IF key \in rows THEN archive[key] ELSE got[key]]

\* Mistake: the offset moves by a full page whatever came.
AdvanceByPageSize(rows) == offset' = offset + PageSize

\* offset += len(rows).
Advance(rows) == offset' = offset + Cardinality(rows)

\* Mistake: an empty page ends the walk.
EmptyEnds(total) == pc' = "done"

\* An empty page ends the walk only at the end of the result.
Empty(total) == pc' = IF offset < total THEN "error" ELSE "done"

\* A 200 with a "response": n rows of the page, perhaps fewer than asked for.
Answer(n, took) ==
  LET rows == RowsAt(offset, n) IN
  /\ pc = "get" /\ attempt < MaxRetries
  /\ Request(took)
  /\ \/ /\ rows = {}
        /\ Empty(Total)
        /\ UNCHANGED <<offset, got, newest>>
     \/ /\ rows # {}
        /\ KeepLast(rows)
        /\ newest' = [key \in Keys |->
             IF key \in rows THEN Larger(newest[key], archive[key]) ELSE newest[key]]
        /\ Advance(rows)
        /\ pc' = IF offset' >= Total THEN "done" ELSE "get"
  /\ attempt' = 0
  /\ slept' = 0
  /\ UNCHANGED <<archive, changes, held, shrunk>>

Sleep(wait) == IF attempt < MaxRetries - 1 THEN wait ELSE 0

\* Mistake: the attempts are not counted.
RetryForever(wait, took) ==
  /\ Request(took + wait)
  /\ slept' = wait
  /\ UNCHANGED attempt

\* Sleep before the next attempt; there is none after the last.
Retry(wait, took) ==
  /\ Request(took + Sleep(wait))
  /\ attempt' = attempt + 1
  /\ slept' = slept + Sleep(wait)

\* A timeout, a reset connection, a body that is not JSON.
TransportError(took) ==
  /\ pc = "get" /\ attempt < MaxRetries
  /\ Retry(Backoff * 2^attempt, took)
  /\ UNCHANGED <<archive, changes, pc, offset, got, held, newest, shrunk>>

\* Mistake: a date is subtracted and no more.
SignedRetryAfter(header) ==
  IF header[1] \in {"seconds", "date"} THEN {header[2]} ELSE {}

\* _retry_after_seconds: at most one number; a date that has passed is 0.
RetryAfterSeconds(header) ==
  CASE header[1] = "seconds" -> {header[2]}
    [] header[1] = "date"    -> {Larger(0, header[2])}
    [] OTHER                 -> {}

\* Mistake: the cap is not looked at.
NeverTooLong(header) == FALSE

\* ThrottledError: the server wants to wait longer than the cap.
TooLong(header) == \E wait \in RetryAfterSeconds(header) : wait > Cap

\* 429, 500, 502, 503 or 504: a Retry-After is obeyed up to the cap.
Unavailable(header, took) ==
  /\ pc = "get" /\ attempt < MaxRetries
  /\ \/ /\ TooLong(header)
        /\ Request(took)
        /\ pc' = "throttled"
        /\ UNCHANGED <<attempt, slept>>
     \/ /\ ~TooLong(header)
        /\ IF RetryAfterSeconds(header) = {}
             THEN Retry(Backoff * 2^attempt, took)
             ELSE \E wait \in RetryAfterSeconds(header) : Retry(wait, took)
        /\ UNCHANGED pc
  /\ UNCHANGED <<archive, changes, offset, got, held, newest, shrunk>>

\* Any other status, or a 200 whose body has no "response".
Refused(took) ==
  /\ pc = "get" /\ attempt < MaxRetries
  /\ Request(took)
  /\ pc' = "error"
  /\ UNCHANGED <<archive, changes, offset, attempt, slept, got, held, newest, shrunk>>

Exhausted ==
  /\ pc = "get" /\ attempt >= MaxRetries
  /\ pc' = "error"
  /\ UNCHANGED <<archive, changes, offset, attempt, slept, quiet, sent, gap, got, held, newest, shrunk>>

-----------------------------------------------------------------------------
\* The client is shared by all queries of a run: this one may follow another.
Init ==
  /\ archive \in [Keys -> {0, 1}]
  /\ changes = 0
  /\ pc = "get"
  /\ offset = 0
  /\ attempt = 0
  /\ slept = 0
  /\ quiet \in 0..Interval
  /\ sent = quiet
  /\ gap = Interval
  /\ got = [key \in Keys |-> 0]
  /\ held = Present
  /\ newest = [key \in Keys |-> 0]
  /\ shrunk = FALSE

Client ==
  \/ \E took \in {0, Interval} :
       \/ \E n \in 0..PageSize : Answer(n, took)
       \/ TransportError(took) \/ Refused(took)
       \/ \E header \in Headers : Unavailable(header, took)
  \/ Exhausted

Next ==
  \/ \E key \in Keys : Publish(key) \/ Delete(key)
  \/ Client

Spec == Init /\ [][Next]_vars

\* The program goes on as long as it can: every request ends in an answer or,
\* through its timeout, in an error.
LiveSpec == Spec /\ WF_vars(Client)

-----------------------------------------------------------------------------
TypeOK ==
  /\ archive \in [Keys -> 0..(MaxChanges + 1)]
  /\ changes \in 0..MaxChanges
  /\ pc \in {"get", "done", "throttled", "error"}
  /\ offset \in 0..MaxKey
  /\ attempt \in 0..MaxRetries
  /\ slept \in Nat /\ quiet \in 0..Interval /\ sent \in 0..Interval /\ gap \in Nat
  /\ got \in [Keys -> 0..(MaxChanges + 1)]
  /\ held \subseteq Present
  /\ newest \in [Keys -> 0..(MaxChanges + 1)]
  /\ shrunk \in BOOLEAN

\* A walk that ends without an error returns every row that existed from its
\* first request to its last, though pages come short or empty and rows are
\* inserted anywhere (client.py: "instead of silently accepting a truncated
\* result").  A row deleted before the offset is the exception: the next page
\* then begins one row too far.
CompleteWalk == pc = "done" /\ ~shrunk => \A key \in held : got[key] # 0

\* Of a row that several pages show, because an insertion moved it across a page
\* boundary, the newest version is loaded (db.upsert_rows, keep="last").
NewestIsKept == \A key \in Keys : got[key] = newest[key]

\* One page never makes the client sleep longer than its retries at the
\* longest wait it accepts ("come back later beats a 7-hour sleep"), nor less
\* than not at all, though a Retry-After may be a date in the past.
SleepIsBounded ==
  0 <= slept /\ slept <= (MaxRetries - 1) * Larger(Cap, Backoff * 2^MaxRetries)

\* Two requests reach the server at least the interval apart, whether the second
\* is the next page, a retry the server wants at once, or the first of the next query
\* (_throttle: "before EVERY request, across queries").
RequestsAreSpaced == gap >= Interval

\* Whatever the server answers, the walk ends.
Terminates == <>(pc # "get")
=============================================================================
