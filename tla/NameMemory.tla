----------------------------- MODULE NameMemory -----------------------------
(***************************************************************************)
(* What the graph remembers of names: name_index and name_cardinality with *)
(* their qualifiers, and the lookup that answers from them alone           *)
(* (complete.rs, the name functions of store/).                            *)
(*                                                                         *)
(* Crosswalk's name tables are keyed by pairs <<title, Q>> here, so that   *)
(* merges and splits treat them as they do there.  A row of name_index has *)
(* one qualifier or none; a row of name_cardinality has a whole set.       *)
(***************************************************************************)
EXTENDS Crosswalk

CONSTANTS
  Titles,   \* normalized names
  Tokens,   \* normalized qualifiers: a city, a street, a year
  NoTitle   \* a request without a usable name

\* website_memo_key: a domain's row has a key no name can have.
MemoKey(d) == <<d, {}>>

NameKeys == (Titles \X SUBSET Tokens) \cup {MemoKey(d) : d \in Affiliation}

ASSUME NamesAssumption ==
  /\ Names = NameKeys
  /\ Titles \cap StrongKeys = {}
  /\ NoTitle \notin Titles \cup StrongKeys

VARIABLE plural   \* name_cardinality: the candidates [cid, anchor] of an "ambiguous"
                  \*   row as they were when it was written, or {}

memoryVars == <<vars, plural>>

MemoryInit == Init /\ plural = [n \in Names |-> {}]

-----------------------------------------------------------------------------
(***************************************************************************)
(* Writing.                                                                *)
(***************************************************************************)

\* Mutant: the qualifiers are not indexed.
IndexRowsBare(t, Q, c) == {<<<<t, {}>>, c>>}

\* index_name: the bare row, and one row for each qualifier.
IndexRows(t, Q, c) == {<<<<t, {}>>, c>>} \cup {<<<<t, {x}>>, c>> : x \in Q}

\* record_name_unique: an upsert; the table has no foreign key on the id.
RecordUnique(n, c) ==
  /\ unique' = [unique EXCEPT ![n] = c]
  /\ plural' = [plural EXCEPT ![n] = {}]

\* record_name_cardinality.
RecordPlural(n, candidates) ==
  /\ unique' = [unique EXCEPT ![n] = NoCid]
  /\ plural' = [plural EXCEPT ![n] = candidates]

\* Mutant: the first member, in the order of the keys.
CandidateByFirstKey(c) ==
  [cid |-> c, anchor |-> CHOOSE k \in Members(c) : \A j \in Members(c) : Pos[k] <= Pos[j]]

\* A candidate as the caller sees it; its anchor is the ref to echo.
Candidate(c) == [cid |-> c, anchor |-> anchor[c]]

\* search_candidates, place_candidates: the entity that holds the key, or the key alone.
CandidateOf(k) ==
  IF k \in Known THEN Candidate(owner[k]) ELSE [cid |-> NoCid, anchor |-> k]

-----------------------------------------------------------------------------
(***************************************************************************)
(* resolve_name_local.                                                     *)
(***************************************************************************)

\* Mutant: the row is believed without a look at the entity.
UnheardUnique(n) == unique[n]

\* name_cardinality: a "unique" row that names no entity is a miss.
LiveUnique(n) == IF unique[n] # NoCid /\ Live(unique[n]) THEN unique[n] ELSE NoCid

\* name_entities: who is indexed under a title, and under which qualifiers.
Indexed(t) == {row[2] : row \in {e \in nameIndex : e[1][1] = t}}
Establishing(t, c) ==
  UNION {row[1][2] : row \in {e \in nameIndex : e[1][1] = t /\ e[2] = c}}

\* The entities all of whose qualifiers the query names.
Covered(t, Q) == {c \in Indexed(t) : Establishing(t, c) \subseteq Q}

Touched(t, Q) == {c \in Indexed(t) : Establishing(t, c) \cap Q # {}}

Matched(t, Q) ==
  IF Q = {} THEN Indexed(t)
  ELSE IF Covered(t, Q) # {} THEN Covered(t, Q)
  ELSE IF Cardinality(Touched(t, Q)) >= 2 THEN Touched(t, Q) ELSE {}

\* load_entity of the one entity a lookup names.
One(c) == [is |-> IF Live(c) THEN "one" ELSE "error", cid |-> c, among |-> {}]
Many(candidates) == [is |-> "many", cid |-> NoCid, among |-> candidates]
Nothing == [is |-> "none", cid |-> NoCid, among |-> {}]

\* A remembered ambiguity is the answer; a remembered unique answer is the last resort.
Lookup(t, Q) ==
  LET matched == Matched(t, Q)
      fallback == LiveUnique(<<t, Q>>)
  IN  IF plural[<<t, Q>>] # {} THEN Many(plural[<<t, Q>>])
      ELSE IF Cardinality(matched) = 1 THEN One(CHOOSE c \in matched : TRUE)
      ELSE IF Cardinality(matched) > 1 THEN Many({Candidate(c) : c \in matched \cap LiveCids})
      ELSE IF fallback # NoCid THEN One(fallback) ELSE Nothing
=============================================================================
