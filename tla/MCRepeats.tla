----------------------------- MODULE MCRepeats -----------------------------
(***************************************************************************)
(* Saying it again.  Two clients that share nothing: one repeats a record  *)
(* (Retry), the other sends back what an answer handed it (References).    *)
(* An execution is one client's; the other stays where it began.           *)
(***************************************************************************)
EXTENDS MCRetry, MCReferences

VARIABLE reading   \* the execution is the reader's

Recording == ~ reading /\ (Anyone \/ Send) /\ UNCHANGED <<refVars, reading>>
Reading == reading /\ ReferencesNext /\ UNCHANGED <<retryVars, reading>>

RepeatsInit ==
  /\ RetryInit
  /\ \/ reading = TRUE /\ ReferencesInit
     \/ reading = FALSE /\ text = NoText /\ key = Unread /\ home = Unread

RepeatsSpec == RepeatsInit /\ [][Recording \/ Reading]_<<retryVars, refVars, reading>>
=============================================================================
