------------------------------ MODULE Replica -------------------------------
(***************************************************************************)
(* What ingestion promises about the raw tables, with no run, no window    *)
(* and no request in sight: the warehouse is a copy that only ever catches *)
(* up with the archive, one pair at a time, and whose resume mark points   *)
(* at hours the copy holds.                                                *)
(***************************************************************************)
EXTENDS Integers

CONSTANTS Pairs, Hours, None

VARIABLES
  source,   \* source[p][h]: the version the archive holds
  copy,     \* copy[p][h]: the version the warehouse holds
  mark      \* mark[p]: where the next run may resume, or None

vars == <<source, copy, mark>>

\* The archive publishes or restates one hour.
Change(p, h) ==
  /\ source' = [source EXCEPT ![p][h] = @ + 1]
  /\ UNCHANGED <<copy, mark>>

\* Some hours of one pair catch up; none falls back, none overtakes.
CatchUp(p) ==
  /\ copy' = [copy EXCEPT ![p] = copy'[p]]
  /\ \A h \in Hours : copy[p][h] <= copy'[p][h] /\ copy'[p][h] <= source[p][h]
  /\ UNCHANGED <<source, mark>>

\* The resume mark of one pair moves forward to an hour the copy holds.
Advance(p, h) ==
  /\ copy[p][h] # 0
  /\ mark[p] # None => h >= mark[p]
  /\ mark' = [mark EXCEPT ![p] = h]
  /\ UNCHANGED <<source, copy>>

Init ==
  /\ source \in [Pairs -> [Hours -> {0, 1}]]
  /\ copy = [p \in Pairs |-> [h \in Hours |-> 0]]
  /\ mark = [p \in Pairs |-> None]

Next ==
  \E p \in Pairs :
    \/ CatchUp(p)
    \/ \E h \in Hours : Change(p, h) \/ Advance(p, h)

Spec == Init /\ [][Next]_vars
=============================================================================
