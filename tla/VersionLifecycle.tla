-------------------------- MODULE VersionLifecycle --------------------------
(***************************************************************************)
(* What publication promises of Procedure Versions, without transactions,  *)
(* locks, gates or approvals: a version is published once with a snapshot  *)
(* that never changes, may be withdrawn once, and no two published         *)
(* versions of a Procedure are in force on the same day.                   *)
(***************************************************************************)
EXTENDS Integers

CONSTANTS
  Versions,     \* Procedure Versions
  ProcedureOf,  \* the Procedure a version belongs to
  Snapshots,    \* reviewed content [window, rows] a version may be published with
  None          \* no snapshot yet, and an unbounded end of a window

VARIABLES
  state,        \* [Versions -> {"draft", "published", "withdrawn"}]
  snapshot      \* [Versions -> Snapshots \cup {None}]

vars == <<state, snapshot>>

\* Windows are closed intervals; None leaves an end open.
Disjoint(a, b) == \/ a.to # None /\ b.from # None /\ a.to < b.from
                  \/ b.to # None /\ a.from # None /\ b.to < a.from

Init == /\ state = [v \in Versions |-> "draft"]
        /\ snapshot = [v \in Versions |-> None]

\* Some snapshot is published, of a window that no other public one overlaps.
Publish(v) ==
  /\ state[v] = "draft"
  /\ state' = [state EXCEPT ![v] = "published"]
  /\ snapshot'[v] \in Snapshots
  /\ \A w \in Versions \ {v} :
       /\ snapshot'[w] = snapshot[w]
       /\ state[w] = "published" /\ ProcedureOf[w] = ProcedureOf[v]
            => Disjoint(snapshot'[v].window, snapshot[w].window)

Withdraw(v) ==
  /\ state[v] = "published"
  /\ state' = [state EXCEPT ![v] = "withdrawn"]
  /\ UNCHANGED snapshot

Next == \E v \in Versions : Withdraw(v) \/ Publish(v)

Spec == Init /\ [][Next]_vars
=============================================================================
