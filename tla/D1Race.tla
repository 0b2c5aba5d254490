------------------------------- MODULE D1Race -------------------------------
(***************************************************************************)
(* Requests on D1 at the same time, over a graph in which some keys were   *)
(* resolved before, each on its own.  Each request is made once, and, when *)
(* all have ended, answered or not, repeated once, one after the other.    *)
(***************************************************************************)
EXTENDS D1Commit

VARIABLE repeated   \* the requests made a second time

\* Each key of K was resolved on its own (GET /resolve).
Resolved(K) ==
  /\ owner = [k \in StrongKeys |-> IF k \in K THEN CidOf(k) ELSE NoCid]
  /\ anchor \in [Cids -> K \cup {NoKey}]
  /\ \A c \in Cids : IF c \in {CidOf(k) : k \in K} THEN anchor[c] \in K /\ CidOf(anchor[c]) = c
                     ELSE anchor[c] = NoKey
  /\ asserted = {{k} : k \in K \cap Identity}

RaceInit ==
  /\ \E K \in SUBSET StrongKeys : Resolved(K)
  /\ phoneEdge = {} /\ nameIndex = {} /\ unique = [n \in Names |-> NoCid]
  /\ req = [p \in Requests |-> AtRest("idle", NoRecord, NoCid)]
  /\ repeated = {}

Ended == \A p \in Requests : req[p].pc \in {"done", "failed"}

First(p) ==
  /\ req[p].pc = "idle"
  /\ \E r \in Records : Begin(p, r)
  /\ UNCHANGED repeated

Repeat(p) ==
  /\ Ended /\ p \notin repeated
  /\ Begin(p, req[p].rec)
  /\ repeated' = repeated \cup {p}

RaceNext ==
  \E p \in Requests :
    \/ First(p)
    \/ Repeat(p)
    \/ Step(p) /\ UNCHANGED repeated

RaceSpec == RaceInit /\ [][RaceNext]_<<allVars, repeated>>

-----------------------------------------------------------------------------
\* Two requests with the same record that are both answered have the same answer, in
\* whatever order their statements run: deterministic ids and the INSERT OR IGNORE of
\* mint_entity make the second mint of one thing land on the first.
SameRecordSameAnswer ==
  \A j, k \in Requests :
    req[j].pc = "done" /\ req[k].pc = "done" /\ req[j].rec = req[k].rec
      => req[j].target = req[k].target

\* Requests that ran at the same time may take keys from each other and leave what a
\* record joins apart, or end in an error; repeating them, one after the other, mends
\* it: no evidence is missed, and each repeated request is answered.
RepeatsMend ==
  Ended /\ repeated = Requests =>
    /\ Partition!NoMissedMerge
    /\ \A p \in Requests : req[p].pc = "done"
=============================================================================
