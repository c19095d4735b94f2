--------------------------- MODULE SnapshotMirror ---------------------------
(***************************************************************************)
(* What the push channel of the shell promises, without any of its         *)
(* machinery: the core has a current revision of the station's snapshot,   *)
(* the latest one a new document can start from is published, and the      *)
(* document on the screen, if any, shows a published revision and never an *)
(* older one than it has shown.  StationPage is shown to implement it.     *)
(***************************************************************************)
EXTENDS Naturals

CONSTANT NoView     \* no document shows a snapshot; not a revision

VARIABLES
    truth,      \* revision of the core's snapshot
    published,  \* revision a document may start from
    view        \* revision on the screen

Init == truth = 0 /\ published = 0 /\ view = NoView

Change == truth' = truth + 1 /\ UNCHANGED <<published, view>>

\* A demo reset changes and publishes at once.
Publish == /\ truth' \in {truth, truth + 1}
           /\ published' = truth'
           /\ UNCHANGED view

Open == /\ view = NoView
        /\ view' \in 0 .. published
        /\ UNCHANGED <<truth, published>>

Show == /\ view # NoView
        /\ view' \in view .. published
        /\ UNCHANGED <<truth, published>>

Close == view' = NoView /\ UNCHANGED <<truth, published>>

Next == Change \/ Publish \/ Open \/ Show \/ Close

Spec == Init /\ [][Next]_<<truth, published, view>>
=============================================================================
