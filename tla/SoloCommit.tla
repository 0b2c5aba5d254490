----------------------------- MODULE SoloCommit -----------------------------
(***************************************************************************)
(* One request at a time on D1, any number of them, each of which may die  *)
(* between two statements.  Without interleaving, the statements of        *)
(* D1Commit implement Crosswalk's Commit, also from the tables a crash     *)
(* leaves.                                                                 *)
(***************************************************************************)
EXTENDS D1Commit

CONSTANT GiveUp   \* whether a request that died may be followed by another one
                  \* rather than repeated

VARIABLE before   \* the tables when the running request began, else the tables

Tables == [owner |-> owner, anchor |-> anchor, phoneEdge |-> phoneEdge,
           nameIndex |-> nameIndex, unique |-> unique]

Busy == \E p \in Requests : Running(p)

SoloInit == D1Init /\ before = Tables

SoloNext ==
  /\ \/ \E p \in Requests, r \in Records :
          /\ ~ Busy
          /\ req[p].pc = "crashed" => GiveUp \/ r = req[p].rec
          /\ Begin(p, r)
     \/ \E p \in Requests : Step(p) \/ Crash(p)
  /\ before' = IF Busy' THEN before ELSE Tables'

SoloSpec == SoloInit /\ [][SoloNext]_<<allVars, before>>

-----------------------------------------------------------------------------
Atomic == INSTANCE Crosswalk WITH
  owner <- before.owner, anchor <- before.anchor, phoneEdge <- before.phoneEdge,
  nameIndex <- before.nameIndex, unique <- before.unique

Interrupted == \E p \in Requests : req'[p].pc = "crashed"

\* Seen from its beginning and its end, a request that is answered is one Commit of
\* its record: the loops over owners with their cached membership, and the lookups
\* that stop or skip, add up to the sets of Crosswalk, whatever an earlier crash left.
ImplementsCommit ==
  Atomic!Init /\ [][Interrupted \/ Atomic!CommitStep]_before

\* Alone, a request never meets an entity that vanished nor a foreign key: only a
\* crash interrupts it, even from the tables an earlier crash left.
AloneNeverFails == \A p \in Requests : req[p].pc # "failed"

\* A repeated request makes up for those that died: once answered, its identity keys
\* are on the entity of the answer, each of its domains has an owner, and that
\* entity's anchor is current.
AnsweredIsWhole ==
  \A p \in Requests :
    req[p].pc = "done" =>
      /\ req[p].rec.ids \cap Identity \subseteq Members(req[p].target)
      /\ req[p].rec.ids \subseteq Known
      /\ IsEntityAnchor(anchor[req[p].target], Members(req[p].target))
=============================================================================
