------------------------------- MODULE Retry -------------------------------
(***************************************************************************)
(* A client that repeats a request.  After any history of commits and      *)
(* remembered names the client sends one record and repeats it: `last` is  *)
(* that record, `times` how often it has been committed.  While it         *)
(* repeats, nobody else writes.                                            *)
(***************************************************************************)
EXTENDS Crosswalk

CONSTANTS
  Sent,      \* the records the client may send
  NoRecord   \* it has sent none

ASSUME RetryAssumption ==
  /\ Sent \subseteq [ids : SUBSET StrongKeys, phones : SUBSET Phones]
  /\ NoRecord \notin Sent

VARIABLES last, times

retryVars == <<owner, anchor, phoneEdge, nameIndex, unique, last, times>>

RetryInit == Init /\ last = NoRecord /\ times = 0

Anyone ==
  /\ last = NoRecord
  /\ NameStep \/ \E r \in Records : Commit(r, FALSE)
  /\ UNCHANGED <<last, times>>

Send ==
  \E r \in Sent :
    /\ last \in {NoRecord, r}
    /\ Commit(r, FALSE)
    /\ last' = r
    /\ times' = IF times < 2 THEN times + 1 ELSE times

RetrySpec == RetryInit /\ [][Anyone \/ Send]_retryVars

-----------------------------------------------------------------------------
\* Resolving one identifier a second time writes nothing ("resolving the same
\* identifier twice yields the same canonical id and writes nothing the second
\* time", the comment of resolve in the Worker's handlers.rs).
LookupWritesNothing ==
  [][times > 0 /\ last' = last /\ last.phones = {} /\ (\E k \in StrongKeys : last.ids = {k})
       => UNCHANGED vars]_retryVars

\* A record of any shape is settled by its second commit: a third changes nothing,
\* whichever owner of a shared domain the first two adopted or absorbed.
SettlesByTheSecond ==
  [][last' = last /\ times = 2 => UNCHANGED vars]_retryVars

\* Two commits of a record with an identity key leave each of its domains with the
\* record's own entity or with one that has identity keys of its own: a domain held
\* by an identity-less row is left alone at first, "and the next request converges
\* the two into one cluster" (README.md, Resolving an organization).
DomainConverges ==
  times = 2 /\ last.ids \cap Identity # {} =>
    \A d \in last.ids \cap Affiliation, k \in last.ids \cap Identity :
      owner[d] = owner[k] \/ IdMembers(owner[d]) # {}
=============================================================================
