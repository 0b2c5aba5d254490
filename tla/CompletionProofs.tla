-------------------------- MODULE CompletionProofs --------------------------
(***************************************************************************)
(* Completion, for any keys, hub answers, callers and attempt cap, and     *)
(* whatever other requests commit meanwhile.                               *)
(***************************************************************************)
EXTENDS Completion, CrosswalkProofs

\* The seeds, the answers of hubs and what others commit are records.
LEMMA AllRecords ==
  Records \cup Seeds \cup HubRecords \subseteq AnyRecord
BY RecordsAssumption, CompletionAssumption DEF AnyRecord

-----------------------------------------------------------------------------
(***************************************************************************)
(* What one commit does to the keys that are there.                        *)
(***************************************************************************)

\* An entity that is gone does not come back, while the keys it may be minted from are
\* known.
Settles(c) == \A k \in StrongKeys : CidOf(k) = c => k \in Known

\* Known keys stay known and together, and with their entity while it is there; what
\* is minted is none of the settled ids.
LEMMA CommitKeepsTogether ==
  ASSUME EntityInv, NEW r \in AnyRecord, NEW strict, Commit(r, strict)
  PROVE  /\ Known \subseteq Known'
         /\ \A j, k \in Known : owner[j] = owner[k] => owner'[j] = owner'[k]
         /\ \A k \in Known, c \in Cids : owner[k] = c /\ Live(c)' => owner'[k] = c
         /\ \A c \in Cids : Settles(c) /\ Live(c)' => Live(c)
<1>1. PICK w \in Cids, L \in SUBSET LiveCids :
        /\ w \notin L
        /\ \A k \in r.ids \cap Identity : owner[k] \in L \cup {w, NoCid}
        /\ w \in LiveCids \/ \E k \in r.ids : CidOf(k) = w /\ owner[k] = NoCid
        /\ CommitTo(r, w, L)
  BY CommitShape
<1>2. /\ owner \in [StrongKeys -> Cids \cup {NoCid}]
      /\ r.ids \subseteq StrongKeys /\ NoCid \notin Cids /\ LiveCids \subseteq Cids
  BY KeysAssumption DEF EntityInv, TypeOK, AnyRecord, LiveCids
<1> DEFINE merged == Repointed(owner, L, w)
<1>3. \A k \in StrongKeys : merged[k] = IF owner[k] \in L THEN w ELSE owner[k]
  BY <1>2 DEF Repointed
<1>4. \A k \in StrongKeys : owner'[k] = IF k \in Claims(r, merged) THEN w ELSE merged[k]
  BY <1>1 DEF CommitTo
<1>5. \A k \in Known : owner'[k] = IF owner[k] \in L \cup {w} THEN w ELSE owner[k]
  BY <1>1, <1>2, <1>3, <1>4 DEF Known, Claims, StrongKeys
<1>6. \A c \in Cids : c # w /\ Live(c)' => Live(c) /\ c \notin L
  BY <1>1 DEF CommitTo, MergedAnchors, Live
<1>7. Known \subseteq Known'
  BY <1>2, <1>5 DEF Known
<1>8. \A k \in Known, c \in Cids : owner[k] = c /\ Live(c)' => owner'[k] = c
  BY <1>5, <1>6
<1>9. ASSUME NEW c \in Cids, Settles(c), Live(c)'
      PROVE  Live(c)
  BY <1>1, <1>2, <1>6, <1>9 DEF Settles, Known, LiveCids
<1> QED BY <1>5, <1>7, <1>8, <1>9

\* A record with a known identity key mints nothing.
LEMMA KnownMintsNothing ==
  ASSUME EntityInv, NEW r \in AnyRecord, NEW strict, Commit(r, strict),
         NEW k \in r.ids \cap Identity, k \in Known
  PROVE  LiveCids' \subseteq LiveCids
<1>1. IdHits(r) # {}
  BY DEF IdHits, Hits
<1>2. PICK w \in Cids, L \in SUBSET LiveCids : w \in LiveCids /\ CommitTo(r, w, L)
  BY <1>1, CommitShape
<1>3. \A c \in Cids : c # w /\ Live(c)' => Live(c)
  BY <1>2 DEF CommitTo, MergedAnchors, Live
<1> QED BY <1>2, <1>3 DEF LiveCids

\* New keys of a record with a known identity key go where that key goes.
LEMMA NewKeysJoin ==
  ASSUME EntityInv, NEW r \in AnyRecord, NEW strict, Commit(r, strict),
         NEW k \in r.ids \cap Identity, NEW j \in r.ids \ Known
  PROVE  owner'[j] = owner'[k] /\ j \in Known'
<1>1. PICK w \in Cids, L \in SUBSET LiveCids : CommitTo(r, w, L)
  BY CommitShape
<1>2. /\ owner \in [StrongKeys -> Cids \cup {NoCid}]
      /\ r.ids \subseteq StrongKeys /\ NoCid \notin Cids /\ LiveCids \subseteq Cids
  BY KeysAssumption DEF EntityInv, TypeOK, AnyRecord, LiveCids
<1> DEFINE merged == Repointed(owner, L, w)
<1>3. \A i \in StrongKeys : merged[i] = IF owner[i] \in L THEN w ELSE owner[i]
  BY <1>2 DEF Repointed
<1>4. \A i \in StrongKeys : owner'[i] = IF i \in Claims(r, merged) THEN w ELSE merged[i]
  BY <1>1 DEF CommitTo
<1>5. {j, k} \subseteq Claims(r, merged)
  BY <1>2, <1>3 DEF Claims, Known
<1> QED BY <1>2, <1>4, <1>5 DEF Known

-----------------------------------------------------------------------------
(***************************************************************************)
(* The graph under a completion.                                           *)
(***************************************************************************)

\* A step of the completion leaves the graph alone or commits a record.
LEMMA GraphSteps ==
  ASSUME CompletionNext
  PROVE  UNCHANGED vars \/ \E r \in AnyRecord, strict \in BOOLEAN : Commit(r, strict)
<1>1. CASE Start
  BY <1>1, AllRecords, CompletionAssumption DEF Start
<1>2. CASE Completing
  BY <1>2, AllRecords DEF Completing, BeginHop, NextKey, EndHop, Visit, SendFails, SendAgain,
     Unusable, Harvest, Load
<1>3. CASE Meanwhile
  BY <1>3, AllRecords DEF Meanwhile
<1> QED BY <1>1, <1>2, <1>3 DEF CompletionNext

\* The graph's invariant holds under a completion, hash collisions included.
LEMMA GraphStays ==
  ASSUME EntityInv, [CompletionNext]_jobVars
  PROVE  EntityInv'
<1>1. CASE UNCHANGED vars
  BY <1>1 DEF vars, EntityInv, TypeOK, RowsLive, AnchorIsCurrent, MintedKeyIsKnown,
     Live, LiveCids, Known, Members
<1>2. CASE \E r \in AnyRecord, strict \in BOOLEAN : Commit(r, strict)
  BY <1>2, CommitInv
<1> QED BY <1>1, <1>2, GraphSteps DEF jobVars

\* ... and of the empty graph.
LEMMA GraphInitially == Init => EntityInv
BY KeysAssumption DEF Init, EntityInv, TypeOK, RowsLive, AnchorIsCurrent,
   MintedKeyIsKnown, Live, LiveCids, CidOf, Cids

-----------------------------------------------------------------------------
(***************************************************************************)
(* The locals of a completion, action by action.                           *)
(***************************************************************************)
JobFields ==
  {"at", "caller", "seed", "cid", "hop", "kinds", "todo", "key", "hubs", "visited",
   "worked", "requests", "attempts", "added", "sent"}
HasFields == JobFields \subseteq DOMAIN job

\* Fields a step leaves alone.
Same(fields) == \A f \in fields : job'[f] = job[f]

\* A new call.
LEMMA StartDoes ==
  ASSUME Start
  PROVE  /\ HasFields'
         /\ job'.at \in {"done", "hop"} /\ job'.added = {} /\ job'.todo = {} /\ job'.hubs = <<>>
         /\ job'.caller.hops \in Nat
         /\ \E r \in Seeds, strict \in BOOLEAN :
              /\ Commit(r, strict) /\ Target(r, job'.cid)
              /\ job'.seed = r.ids /\ job'.cid \in Cids
<1>1. PICK r \in Seeds, caller \in Callers, c \in Cids :
        /\ Commit(r, caller.strict)
        /\ Target(r, c)
        /\ job' = [Rest EXCEPT
             !.at = IF caller.strict /\ ~ NewEdges(r) THEN "done" ELSE "hop",
             !.caller = caller, !.seed = r.ids, !.cid = c]
  BY DEF Start
<1> DEFINE at == IF caller.strict /\ ~ NewEdges(r) THEN "done" ELSE "hop"
<1>2. at \in {"done", "hop"}
  OBVIOUS
<1>3. job' = [Rest EXCEPT !.at = at, !.caller = caller, !.seed = r.ids, !.cid = c]
  BY <1>1
<1> HIDE DEF at
<1>4. /\ HasFields'
      /\ job'.at = at /\ job'.added = {} /\ job'.todo = {} /\ job'.hubs = <<>>
      /\ job'.seed = r.ids /\ job'.cid = c /\ job'.caller = caller
  BY <1>3 DEF Rest, HasFields, JobFields
<1>5. caller.strict \in BOOLEAN /\ caller.hops \in Nat
  BY CompletionAssumption
<1> QED BY <1>1, <1>2, <1>4, <1>5

\* The walk, without the hubs' answers.
LEMMA BeginHopDoes ==
  ASSUME HasFields, BeginHop
  PROVE  /\ HasFields' /\ UNCHANGED vars /\ job.at = "hop"
         /\ Same({"caller", "seed", "cid", "hop", "key", "hubs", "visited", "added"})
         /\ \/ job'.at = "load" /\ job.hop = job.caller.hops /\ Same({"todo"})
            \/ job'.at = "walk" /\ job'.todo = Members(job.cid) /\ job'.worked = FALSE
BY DEF BeginHop, HasFields, JobFields, Same

\* The next member, with all its hubs.
LEMMA NextKeyDoes ==
  ASSUME HasFields, NextKey
  PROVE  /\ HasFields' /\ UNCHANGED vars /\ job.at = "walk" /\ job.hubs = <<>>
         /\ Same({"at", "caller", "seed", "cid", "hop", "visited", "worked", "added"})
         /\ job'.key \in job.todo /\ job'.hubs = HubsFor(job'.key)
         /\ job'.todo = job.todo \ {job'.key}
BY DEF NextKey, HasFields, JobFields, Same

\* Another hop if a hub added something, else the end of the walk.
LEMMA EndHopDoes ==
  ASSUME HasFields, EndHop
  PROVE  /\ HasFields' /\ UNCHANGED vars
         /\ job.at = "walk" /\ job.hubs = <<>> /\ job.todo = {}
         /\ Same({"caller", "seed", "cid", "key", "hubs", "visited", "added", "todo"})
         /\ \/ job'.at = "hop" /\ job.worked
            \/ job'.at = "load" /\ ~ job.worked /\ Same({"hop"})
BY DEF EndHop, HasFields, JobFields, Same

\* A pair is visited whether the hub is asked or passed over.
LEMMA VisitDoes ==
  ASSUME HasFields, Visit
  PROVE  /\ HasFields' /\ UNCHANGED vars /\ job.at = "walk" /\ job.hubs # <<>>
         /\ Same({"caller", "seed", "cid", "hop", "key", "worked", "added", "todo"})
         /\ job'.visited = job.visited \cup {<<Head(job.hubs), job.key>>}
         /\ \/ job'.at = "walk" /\ job'.hubs = Tail(job.hubs)
            \/ /\ job'.at = "asking" /\ job'.hubs = job.hubs
               /\ job'.attempts = 0 /\ job'.sent = 0
               /\ job'.requests = RequestsOf(Head(job.hubs), job.key)
BY DEF Visit, HasFields, JobFields, Same

\* What NextHub and the sends leave.
LEMMA NextHubDoes ==
  ASSUME HasFields, job' = NextHub
  PROVE  /\ HasFields' /\ job'.at = "walk" /\ job'.hubs = Tail(job.hubs)
         /\ Same({"caller", "seed", "cid", "hop", "key", "visited", "worked", "added", "todo"})
BY DEF NextHub, HasFields, JobFields, Same

\* A failed send: the next hub, or one more attempt below the cap.
LEMMA SendFailsDoes ==
  ASSUME HasFields, SendFails
  PROVE  /\ UNCHANGED vars /\ job.at = "asking" /\ job.requests > 0
         /\ \/ job' = NextHub
            \/ /\ HasFields' /\ job.attempts + 1 < MaxAttempts
               /\ Same({"at", "caller", "seed", "cid", "hop", "key", "hubs", "visited",
                        "worked", "requests", "added", "todo"})
               /\ job'.attempts = job.attempts + 1
               /\ job'.sent = (job.sent + 1) % (2 * MaxAttempts + 1)
<1>1. PICK transient \in BOOLEAN :
        job' = IF transient /\ Retried(Counted(job.attempts))
                 THEN [SentOnce EXCEPT !.attempts = Counted(@)] ELSE NextHub
  BY DEF SendFails
<1>2. UNCHANGED vars /\ job.at = "asking" /\ job.requests > 0
  BY DEF SendFails
<1>3. CASE Retried(Counted(job.attempts)) /\ job' = [SentOnce EXCEPT !.attempts = Counted(@)]
  BY <1>2, <1>3 DEF SentOnce, Counted, Retried, HasFields, JobFields, Same
<1> QED BY <1>1, <1>2, <1>3

\* The second request of a dispatch, with attempts of its own.
LEMMA SendAgainDoes ==
  ASSUME HasFields, SendAgain
  PROVE  /\ UNCHANGED vars /\ job.at = "asking" /\ job.requests = 2
         /\ HasFields'
         /\ Same({"at", "caller", "seed", "cid", "hop", "key", "hubs", "visited", "worked",
                  "added", "todo"})
         /\ job'.requests = 1 /\ job'.attempts = 0
         /\ job'.sent = (job.sent + 1) % (2 * MaxAttempts + 1)
BY DEF SendAgain, SentOnce, HasFields, JobFields, Same

\* A hub's record, with the key it was asked for, is committed.
LEMMA HarvestDoes ==
  ASSUME HasFields, Harvest
  PROVE  /\ job.at = "asking" /\ job'.at = "walk" /\ job'.hubs = Tail(job.hubs)
         /\ HasFields'
         /\ Same({"caller", "seed", "cid", "hop", "key", "visited", "todo"})
         /\ \E r \in HubRecords :
              /\ Commit(r, FALSE) /\ job.key \in r.ids
              /\ job'.worked = (job.worked \/ NewEdges(r))
              /\ job'.added = job.added \cup (r.ids \ Known)
<1>1. PICK r \in HubRecords :
        /\ job.key \in r.ids /\ Commit(r, FALSE)
        /\ job' = [NextHub EXCEPT !.worked = Worked(@, NewEdges(r)),
                                  !.added = @ \cup (r.ids \ Known)]
  BY DEF Harvest, MayAnswer
<1> DEFINE edges == NewEdges(r)
           more == r.ids \ Known
<1>2. job' = [NextHub EXCEPT !.worked = Worked(@, edges), !.added = @ \cup more]
  BY <1>1
<1> HIDE DEF edges, more
<1>3. /\ job'.at = "walk" /\ job'.hubs = Tail(job.hubs) /\ HasFields'
      /\ Same({"caller", "seed", "cid", "hop", "key", "visited", "todo"})
      /\ job'.worked = Worked(job.worked, edges) /\ job'.added = job.added \cup more
  BY <1>2 DEF NextHub, HasFields, JobFields, Same
<1>4. job.at = "asking"
  BY DEF Harvest
<1> QED BY <1>1, <1>3, <1>4 DEF Worked, edges, more

\* The call returns.
LEMMA LoadDoes ==
  ASSUME HasFields, Load
  PROVE  /\ HasFields' /\ UNCHANGED vars /\ job.at = "load" /\ job'.at \in {"done", "failed"}
         /\ Same({"seed", "cid"}) /\ job'.added = {} /\ job'.todo = {} /\ job'.hubs = <<>>
         /\ job'.caller.hops \in Nat
BY DEF Load, Return, Rest, HasFields, JobFields, Same

-----------------------------------------------------------------------------
(***************************************************************************)
(* Where a completion is, and what it asks about.                          *)
(***************************************************************************)
Asking == job.at = "asking" \/ (job.at = "walk" /\ job.hubs # <<>>)

WalkInv ==
  /\ HasFields
  /\ job.at \in {"idle", "hop", "walk", "asking", "load", "done", "failed"}
  /\ job.at # "idle" => job.cid \in Cids
  /\ job.at = "hop" => job.hubs = <<>>
  /\ job.todo \subseteq Known
  /\ Asking => job.key \in Known \cap Identity

\* Only identity keys have hubs.
LEMMA HubsAreForIdentity ==
  ASSUME NEW k \in StrongKeys, HubsFor(k) # <<>>
  PROVE  k \in Identity
BY CompletionAssumption DEF HubsFor, StrongKeys

\* No step forgets a key: there are no splits during a completion.
LEMMA KnownGrows ==
  ASSUME EntityInv, [CompletionNext]_jobVars
  PROVE  Known \subseteq Known'
<1>1. CASE UNCHANGED vars
  BY <1>1 DEF vars, Known
<1> QED BY <1>1, GraphSteps, CommitKeepsTogether DEF jobVars

\* The members of an entity are known keys.
LEMMA MembersKnown ==
  ASSUME NEW c \in Cids
  PROVE  Members(c) \subseteq Known
BY KeysAssumption DEF Members, Known

\* Each step keeps WalkInv.
LEMMA WalkStays ==
  ASSUME EntityInv, WalkInv, [CompletionNext]_jobVars
  PROVE  WalkInv'
<1>1. HasFields /\ Known \subseteq Known' /\ Known \subseteq StrongKeys
  BY KnownGrows DEF WalkInv, Known
<1>2. CASE Start
  BY <1>1, <1>2, StartDoes DEF WalkInv, Asking
<1>3. CASE BeginHop
  BY <1>1, <1>3, BeginHopDoes, MembersKnown DEF WalkInv, Asking, Same
<1>4. CASE NextKey
  BY <1>1, <1>4, NextKeyDoes, HubsAreForIdentity DEF WalkInv, Asking, Same
<1>5. CASE EndHop
  BY <1>1, <1>5, EndHopDoes DEF WalkInv, Asking, Same
<1>6. CASE Visit
  BY <1>1, <1>6, VisitDoes DEF WalkInv, Asking, Same
<1>7. CASE HasFields' /\ job' = NextHub /\ job.at = "asking"
  BY <1>1, <1>7, NextHubDoes DEF WalkInv, Asking, Same
<1>8. CASE SendFails
  BY <1>1, <1>7, <1>8, SendFailsDoes, NextHubDoes DEF WalkInv, Asking, Same
<1>9. CASE SendAgain
  BY <1>1, <1>9, SendAgainDoes DEF WalkInv, Asking, Same
<1>10. CASE Unusable
  BY <1>1, <1>7, <1>10, NextHubDoes DEF Unusable
<1>11. CASE Harvest
  BY <1>1, <1>11, HarvestDoes DEF WalkInv, Asking, Same
<1>12. CASE Load
  BY <1>1, <1>12, LoadDoes DEF WalkInv, Asking, Same
<1>13. CASE UNCHANGED job
  BY <1>1, <1>13 DEF WalkInv, Asking, HasFields
<1> QED BY <1>2, <1>3, <1>4, <1>5, <1>6, <1>8, <1>9, <1>10, <1>11, <1>12, <1>13
        DEF CompletionNext, Completing, Meanwhile, jobVars

\* The answer of a hub mints no entity, since it echoes the known identity key it was
\* asked for; hash collisions included.
THEOREM NothingIsMinted == CompletionSpec => HubsMintNothing
<1>1. CompletionInit => EntityInv /\ WalkInv
  BY GraphInitially DEF CompletionInit, WalkInv, Asking, HasFields, JobFields, Rest
<1>2. EntityInv /\ WalkInv /\ [CompletionNext]_jobVars => EntityInv' /\ WalkInv'
  BY GraphStays, WalkStays
<1>3. EntityInv /\ WalkInv /\ [CompletionNext]_jobVars =>
        [job.at = "asking" /\ job' # job => LiveCids' \subseteq LiveCids]_jobVars
  <2> SUFFICES ASSUME EntityInv, WalkInv, CompletionNext, job.at = "asking", job' # job
               PROVE  LiveCids' \subseteq LiveCids
    BY DEF jobVars
  <2>1. CASE UNCHANGED vars
    BY <2>1 DEF vars, LiveCids, Live
  <2>2. CASE Harvest
    BY <2>2, HarvestDoes, AllRecords, KnownMintsNothing DEF WalkInv, Asking
  <2> QED BY <2>1, <2>2 DEF CompletionNext, Completing, Start, BeginHop, NextKey, EndHop,
             Visit, SendFails, SendAgain, Unusable, Load, Meanwhile
<1> QED BY <1>1, <1>2, <1>3, PTL DEF CompletionSpec, HubsMintNothing

-----------------------------------------------------------------------------
(***************************************************************************)
(* Retries.                                                                *)
(***************************************************************************)

\* The attempts of the request under way are below the cap; the sends of a dispatch are
\* these and, under the second of two requests, at most the cap before.
SendInv ==
  job.at = "asking" /\ job.requests > 0 =>
    /\ job.attempts \in 0 .. MaxAttempts - 1
    /\ job.sent \in Nat
    /\ \/ job.requests = RequestsOf(Head(job.hubs), job.key) /\ job.sent <= job.attempts
       \/ /\ job.requests = 1 /\ RequestsOf(Head(job.hubs), job.key) = 2
          /\ job.sent <= job.attempts + MaxAttempts

\* Below the modulus, the counter counts.
LEMMA CountsBelow ==
  ASSUME NEW n \in Nat, n + 1 <= 2 * MaxAttempts
  PROVE  (n + 1) % (2 * MaxAttempts + 1) = n + 1
<1>1. n + 1 \in Nat /\ 2 * MaxAttempts + 1 \in Nat /\ n + 1 < 2 * MaxAttempts + 1
  BY CompletionAssumption
<1>2. \A i, m \in Nat : i < m => i % m = i
  OBVIOUS
<1> QED BY <1>1, <1>2

\* A dispatch makes no, one or two requests.
LEMMA RequestsAtMostTwo ==
  ASSUME NEW hub, NEW k
  PROVE  RequestsOf(hub, k) \in 0 .. 2
BY DEF RequestsOf

\* Each step keeps SendInv.
LEMMA SendStays ==
  ASSUME HasFields, SendInv, [CompletionNext]_jobVars
  PROVE  SendInv'
<1> DEFINE all == RequestsOf(Head(job.hubs), job.key)
<1>1. all \in 0 .. 2 /\ MaxAttempts \in Nat /\ MaxAttempts >= 1
  BY RequestsAtMostTwo, CompletionAssumption
<1>2. ASSUME job'.at # "asking"
      PROVE  SendInv'
  BY <1>2 DEF SendInv
<1>3. CASE Visit
  <2>1. CASE job'.at = "asking"
    <3>1. job'.requests = all /\ RequestsOf(Head(job'.hubs), job'.key) = all
      BY <1>3, <2>1, VisitDoes DEF Same
    <3>2. job'.attempts = 0 /\ job'.sent = 0
      BY <1>3, <2>1, VisitDoes
    <3> QED BY <1>1, <3>1, <3>2 DEF SendInv
  <2> QED BY <1>2, <2>1
<1>4. CASE SendFails /\ job' # NextHub
  <2>1. /\ job.requests > 0 /\ job.at = "asking" /\ job'.requests = job.requests
        /\ job'.hubs = job.hubs /\ job'.key = job.key
        /\ job.attempts + 1 < MaxAttempts /\ job'.attempts = job.attempts + 1
        /\ job'.sent = (job.sent + 1) % (2 * MaxAttempts + 1)
    BY <1>4, SendFailsDoes DEF Same
  <2>2. /\ job.attempts \in 0 .. MaxAttempts - 1 /\ job.sent \in Nat
        /\ \/ job.requests = all /\ job.sent <= job.attempts
           \/ job.requests = 1 /\ all = 2 /\ job.sent <= job.attempts + MaxAttempts
    BY <2>1 DEF SendInv
  <2> HIDE DEF all
  <2>3. job.sent + 1 <= 2 * MaxAttempts
    BY <1>1, <2>1, <2>2
  <2>4. job'.sent = job.sent + 1
    BY <2>1, <2>2, <2>3, CountsBelow
  <2>5. RequestsOf(Head(job'.hubs), job'.key) = all
    BY <2>1 DEF all
  <2> QED BY <1>1, <2>1, <2>2, <2>4, <2>5 DEF SendInv
<1>5. CASE SendAgain
  <2>1. /\ job.requests = 2 /\ job.at = "asking" /\ job'.requests = 1
        /\ job'.hubs = job.hubs /\ job'.key = job.key /\ job'.attempts = 0
        /\ job'.sent = (job.sent + 1) % (2 * MaxAttempts + 1)
    BY <1>5, SendAgainDoes DEF Same
  <2>2. /\ job.attempts \in 0 .. MaxAttempts - 1 /\ job.sent \in Nat
        /\ all = 2 /\ job.sent <= job.attempts
    BY <2>1 DEF SendInv
  <2> HIDE DEF all
  <2>3. job.sent + 1 <= MaxAttempts
    BY <1>1, <2>2
  <2>4. job'.sent = job.sent + 1
    BY <1>1, <2>1, <2>2, <2>3, CountsBelow
  <2>5. RequestsOf(Head(job'.hubs), job'.key) = all
    BY <2>1 DEF all
  <2> QED BY <1>1, <2>1, <2>2, <2>3, <2>4, <2>5 DEF SendInv
<1>6. CASE UNCHANGED job
  BY <1>6 DEF SendInv
<1>7. CASE job' = NextHub
  BY <1>2, <1>7, NextHubDoes
<1>8. CASE Start \/ BeginHop \/ NextKey \/ EndHop \/ Harvest \/ Load
  BY <1>2, <1>8, StartDoes, BeginHopDoes, NextKeyDoes, EndHopDoes, HarvestDoes, LoadDoes DEF Same
<1> QED BY <1>3, <1>4, <1>5, <1>6, <1>7, <1>8
        DEF CompletionNext, Completing, Unusable, Meanwhile, jobVars

\* However its requests fail and succeed in turn, a dispatch sends at most the cap times
\* for each.
THEOREM SendsAreBounded == CompletionSpec => []SubrequestsBounded
<1>1. CompletionInit => EntityInv /\ WalkInv /\ SendInv
  BY GraphInitially DEF CompletionInit, WalkInv, Asking, HasFields, JobFields, Rest, SendInv
<1>2. EntityInv /\ WalkInv /\ SendInv /\ [CompletionNext]_jobVars =>
        EntityInv' /\ WalkInv' /\ SendInv'
  BY GraphStays, WalkStays, SendStays DEF WalkInv
<1>3. SendInv => SubrequestsBounded
  <2> SUFFICES ASSUME SendInv, job.at = "asking", job.requests > 0
               PROVE  job.sent < MaxAttempts * RequestsOf(Head(job.hubs), job.key)
    BY DEF SubrequestsBounded
  <2> DEFINE all == RequestsOf(Head(job.hubs), job.key)
  <2>1. /\ job.attempts \in 0 .. MaxAttempts - 1 /\ job.sent \in Nat
        /\ \/ job.requests = all /\ job.sent <= job.attempts
           \/ job.requests = 1 /\ all = 2 /\ job.sent <= job.attempts + MaxAttempts
    BY DEF SendInv
  <2>2. all \in 0 .. 2 /\ MaxAttempts \in Nat
    BY RequestsAtMostTwo, CompletionAssumption
  <2> HIDE DEF all
  <2>3. all \in {1, 2}
    BY <2>1, <2>2
  <2>4. all = 1 => job.sent < MaxAttempts * all
    BY <2>1, <2>2
  <2>5. all = 2 => job.sent < MaxAttempts * all
    BY <2>1, <2>2
  <2>6. job.sent < MaxAttempts * all
    BY <2>3, <2>4, <2>5
  <2> QED BY <2>6 DEF all
<1> QED BY <1>1, <1>2, <1>3, PTL DEF CompletionSpec

-----------------------------------------------------------------------------
(***************************************************************************)
(* The seed.                                                               *)
(***************************************************************************)

\* The seed's identity keys are together, and on the answered entity while that is
\* there; once gone, it does not come back.
Together(K, c) ==
  /\ K \subseteq Known
  /\ \A j, k \in K : owner[j] = owner[k]
  /\ Live(c) => \A k \in K : owner[k] = c

SeedInv ==
  job.at # "idle" => Settles(job.cid) /\ Together(job.seed \cap Identity, job.cid)

\* Commits keep keys together, on the entity c while it is there.
LEMMA CommitKeepsSettled ==
  ASSUME EntityInv, NEW c \in Cids, Settles(c), NEW K, Together(K, c),
         UNCHANGED vars \/ \E r \in AnyRecord, strict \in BOOLEAN : Commit(r, strict)
  PROVE  Settles(c)' /\ Together(K, c)'
<1>1. CASE UNCHANGED vars
  BY <1>1 DEF vars, Settles, Together, Known, Live
<1>2. CASE \E r \in AnyRecord, strict \in BOOLEAN : Commit(r, strict)
  <2>1. /\ Known \subseteq Known'
        /\ \A j, k \in Known : owner[j] = owner[k] => owner'[j] = owner'[k]
        /\ \A k \in Known : owner[k] = c /\ Live(c)' => owner'[k] = c
        /\ Live(c)' => Live(c)
    BY <1>2, CommitKeepsTogether
  <2> QED BY <2>1 DEF Settles, Together
<1> QED BY <1>1, <1>2

\* A commit brings its record's identity keys together.
LEMMA CommitUnites ==
  ASSUME EntityInv, NEW r \in AnyRecord, NEW strict, Commit(r, strict)
  PROVE  \A j, k \in r.ids \cap Identity : owner'[j] = owner'[k]
<1>1. PICK w \in Cids, L \in SUBSET LiveCids : CommitTo(r, w, L)
  BY CommitShape
<1>2. \A k \in r.ids \cap Identity : owner'[k] = w
  BY <1>1 DEF CommitTo, Claims, AnyRecord
<1> QED BY <1>2

\* The entity a commit answers is settled, and the seed is on it.
LEMMA SeedStarts ==
  ASSUME HashInjective, EntityInv, Start
  PROVE  SeedInv'
<1>1. PICK r \in Seeds, strict \in BOOLEAN :
        Commit(r, strict) /\ Target(r, job'.cid) /\ job'.seed = r.ids /\ job'.cid \in Cids
  BY StartDoes
<1>2. r \in AnyRecord /\ r.ids \subseteq StrongKeys
  BY AllRecords DEF AnyRecord
<1>3. EntityInv'
  BY <1>1, <1>2, CommitInv
<1>4. PICK k \in r.ids : owner'[k] = job'.cid /\ (k \in Identity \/ r.ids = {k})
  BY <1>1 DEF Target
<1>5. \A j \in r.ids \cap Identity : owner'[j] = job'.cid
  BY <1>1, <1>2, <1>4, CommitUnites
<1>6. NoCid \notin Cids
  BY KeysAssumption
<1>7. Live(job.cid)'
  BY <1>1, <1>2, <1>3, <1>4, <1>6 DEF EntityInv, RowsLive
<1>8. Settles(job.cid)'
  <2>1. ASSUME NEW j \in StrongKeys, CidOf(j) = job'.cid
        PROVE  j \in Known'
    BY <1>3, <1>7, <2>1 DEF EntityInv, MintedKeyIsKnown, HashInjective, Known, Live
  <2> QED BY <2>1 DEF Settles
<1>9. Together(job.seed \cap Identity, job.cid)'
  BY <1>1, <1>2, <1>5, <1>6 DEF Together, Known
<1> QED BY <1>8, <1>9 DEF SeedInv

\* Each step keeps SeedInv: the answered entity and the seed of a call do not change.
LEMMA SeedStays ==
  ASSUME HashInjective, EntityInv, WalkInv, SeedInv, [CompletionNext]_jobVars
  PROVE  SeedInv'
<1>1. CASE Start
  BY <1>1, SeedStarts
<1>2. CASE job.at = "idle" /\ ~ Start
  <2>1. job' = job
    BY <1>2 DEF CompletionNext, Completing, BeginHop, NextKey, EndHop, Visit, SendFails,
       SendAgain, Unusable, Harvest, Load, Meanwhile, jobVars
  <2> QED BY <1>2, <2>1 DEF SeedInv
<1>3. CASE job.at # "idle" /\ ~ Start
  <2>1. job'.seed = job.seed /\ job'.cid = job.cid
    <3>1. HasFields
      BY DEF WalkInv
    <3>2. CASE SendFails
      BY <3>1, <3>2, SendFailsDoes, NextHubDoes DEF Same
    <3>3. CASE Unusable
      BY <3>1, <3>3, NextHubDoes DEF Unusable, Same
    <3>4. CASE Completing /\ ~ SendFails /\ ~ Unusable
      BY <3>1, <3>4, BeginHopDoes, NextKeyDoes, EndHopDoes, VisitDoes, SendAgainDoes,
         HarvestDoes, LoadDoes DEF Completing, Same
    <3> QED BY <1>3, <3>2, <3>3, <3>4 DEF CompletionNext, Meanwhile, jobVars
  <2>2. job.cid \in Cids /\ Settles(job.cid) /\ Together(job.seed \cap Identity, job.cid)
    BY <1>3 DEF WalkInv, SeedInv
  <2>3. UNCHANGED vars \/ \E r \in AnyRecord, strict \in BOOLEAN : Commit(r, strict)
    BY GraphSteps DEF jobVars
  <2> DEFINE K == job.seed \cap Identity
             c == job.cid
  <2>4. K' = K /\ c' = c
    BY <2>1
  <2>5. \A d \in Cids : \A J : d = c /\ J = K => Settles(d)' /\ Together(J, d)'
    BY <2>2, <2>3, CommitKeepsSettled
  <2>6. Settles(c)' /\ Together(K, c)'
    BY <2>2, <2>4, <2>5
  <2> QED BY <2>6 DEF SeedInv
<1> QED BY <1>1, <1>2, <1>3

\* When a completion ends, what it was asked about is one thing, and the answered one
\* while that is there, whatever the hubs and other requests did.
THEOREM SeedIsKept == HashInjective => (CompletionSpec => []SeedStaysTogether)
<1> SUFFICES ASSUME HashInjective PROVE CompletionSpec => []SeedStaysTogether
  OBVIOUS
<1>1. CompletionInit => EntityInv /\ WalkInv /\ SeedInv
  BY GraphInitially DEF CompletionInit, WalkInv, Asking, HasFields, JobFields, Rest, SeedInv
<1>2. EntityInv /\ WalkInv /\ SeedInv /\ [CompletionNext]_jobVars =>
        EntityInv' /\ WalkInv' /\ SeedInv'
  BY GraphStays, WalkStays, SeedStays
<1>3. SeedInv => SeedStaysTogether
  BY DEF SeedInv, SeedStaysTogether, Ended, Together, Known
<1> QED BY <1>1, <1>2, <1>3, PTL DEF CompletionSpec

-----------------------------------------------------------------------------
(***************************************************************************)
(* The visits.                                                             *)
(***************************************************************************)

\* The keys a completion has in hand: what it has added, and what it walks over.
InHand == job.added \cup job.todo \cup {k \in {job.key} : Asking}

\* They are on the answered entity while that is there.
OnEntity(K, c) == K \subseteq Known /\ (Live(c) => K \subseteq Members(c))

HandInv == job.at # "idle" => OnEntity(InHand, job.cid)

\* A commit leaves them there.
LEMMA CommitKeepsOn ==
  ASSUME EntityInv, NEW c \in Cids, Settles(c), NEW K, OnEntity(K, c),
         UNCHANGED vars \/ \E r \in AnyRecord, strict \in BOOLEAN : Commit(r, strict)
  PROVE  OnEntity(K, c)'
<1>1. CASE UNCHANGED vars
  BY <1>1 DEF vars, OnEntity, Known, Live, Members
<1>2. CASE \E r \in AnyRecord, strict \in BOOLEAN : Commit(r, strict)
  <2>1. /\ Known \subseteq Known'
        /\ \A k \in Known : owner[k] = c /\ Live(c)' => owner'[k] = c
        /\ Live(c)' => Live(c)
    BY <1>2, CommitKeepsTogether
  <2> QED BY <2>1 DEF OnEntity, Members
<1> QED BY <1>1, <1>2

\* A step takes in hand nothing but the members of the entity and what a hub adds.
LEMMA HandGrows ==
  ASSUME WalkInv, [CompletionNext]_jobVars, ~ Start
  PROVE  /\ job'.cid = job.cid
         /\ \/ job'.at = "idle" /\ job.at = "idle"
            \/ InHand' \subseteq InHand
            \/ UNCHANGED vars /\ InHand' \subseteq InHand \cup Members(job.cid)
            \/ \E r \in HubRecords :
                 /\ Commit(r, FALSE) /\ Asking /\ job.key \in r.ids
                 /\ InHand' \subseteq InHand \cup (r.ids \ Known)
<1>1. HasFields
  BY DEF WalkInv
<1>2. CASE BeginHop
  BY <1>1, <1>2, BeginHopDoes DEF WalkInv, InHand, Asking, Same
<1>3. CASE NextKey
  BY <1>1, <1>3, NextKeyDoes DEF InHand, Asking, Same
<1>4. CASE EndHop
  BY <1>1, <1>4, EndHopDoes DEF InHand, Asking, Same
<1>5. CASE Visit
  BY <1>1, <1>5, VisitDoes DEF InHand, Asking, Same
<1>6. CASE job' = NextHub /\ job.at = "asking"
  BY <1>1, <1>6, NextHubDoes DEF InHand, Asking, Same
<1>7. CASE SendFails
  BY <1>1, <1>6, <1>7, SendFailsDoes DEF InHand, Asking, Same
<1>8. CASE SendAgain
  BY <1>1, <1>8, SendAgainDoes DEF InHand, Asking, Same
<1>9. CASE Unusable
  BY <1>6, <1>9 DEF Unusable
<1>10. CASE Harvest
  BY <1>1, <1>10, HarvestDoes DEF InHand, Asking, Same
<1>11. CASE Load
  BY <1>1, <1>11, LoadDoes DEF InHand, Asking, Same
<1>12. CASE UNCHANGED job
  BY <1>12 DEF InHand, Asking
<1> QED BY <1>2, <1>3, <1>4, <1>5, <1>7, <1>8, <1>9, <1>10, <1>11, <1>12
        DEF CompletionNext, Completing, Meanwhile, jobVars

\* Each step keeps HandInv: what a hub adds goes where the key it was asked for is.
LEMMA HandStays ==
  ASSUME EntityInv, WalkInv, SeedInv, HandInv, [CompletionNext]_jobVars
  PROVE  HandInv'
<1>1. CASE Start
  <2>1. HasFields' /\ InHand' = {}
    BY <1>1, StartDoes DEF InHand, Asking
  <2> QED BY <2>1 DEF HandInv, OnEntity
<1>2. CASE ~ Start /\ job.at = "idle"
  <2>1. job' = job
    BY <1>2 DEF CompletionNext, Completing, BeginHop, NextKey, EndHop, Visit, SendFails,
       SendAgain, Unusable, Harvest, Load, Meanwhile, jobVars
  <2> QED BY <1>2, <2>1 DEF HandInv
<1>3. CASE ~ Start /\ job.at # "idle"
  <2>1. job.cid \in Cids /\ Settles(job.cid) /\ OnEntity(InHand, job.cid)
    BY <1>3 DEF WalkInv, SeedInv, HandInv
  <2>2. UNCHANGED vars \/ \E r \in AnyRecord, strict \in BOOLEAN : Commit(r, strict)
    BY GraphSteps DEF jobVars
  <2>3. \A c \in Cids : \A K : c = job.cid /\ OnEntity(K, job.cid) => OnEntity(K, c)'
    BY <2>1, <2>2, CommitKeepsOn
  <2>4. job'.cid = job.cid
    BY <1>3, HandGrows
  <2>5. \A K : OnEntity(K, job.cid) /\ InHand' \subseteq K => OnEntity(InHand, job.cid)'
    BY <2>1, <2>3, <2>4 DEF OnEntity
  <2>6. CASE InHand' \subseteq InHand
    BY <2>1, <2>5, <2>6 DEF HandInv
  <2>7. CASE InHand' \subseteq InHand \cup Members(job.cid)
    <3>1. OnEntity(InHand \cup Members(job.cid), job.cid)
      BY <2>1, MembersKnown DEF OnEntity
    <3> QED BY <2>5, <2>7, <3>1 DEF HandInv
  <2>8. ASSUME NEW r \in HubRecords, Commit(r, FALSE), Asking, job.key \in r.ids,
               InHand' \subseteq InHand \cup (r.ids \ Known)
        PROVE  HandInv'
    <3>1. job.key \in InHand /\ job.key \in r.ids \cap Identity /\ r \in AnyRecord
      BY <2>8, AllRecords DEF InHand, WalkInv
    <3>2. \A j \in r.ids \ Known : owner'[j] = owner'[job.key] /\ j \in Known'
      BY <2>8, <3>1, NewKeysJoin
    <3>3. PICK hand : hand = InHand
      OBVIOUS
    <3>4. PICK c \in Cids : c = job.cid
      BY <2>1
    <3>5. OnEntity(hand, c)'
      BY <2>1, <2>3, <3>3, <3>4
    <3>6. InHand' \subseteq hand \cup (r.ids \ Known) /\ job.key \in hand
      BY <2>8, <3>1, <3>3
    <3>7. Live(c)' => \A j \in r.ids \ Known : j \in Members(c)'
      BY <3>2, <3>5, <3>6 DEF OnEntity, Members, Known
    <3>8. OnEntity(InHand, c)'
      BY <3>2, <3>5, <3>6, <3>7 DEF OnEntity
    <3> QED BY <2>4, <3>4, <3>8 DEF HandInv, OnEntity
  <2> QED BY <1>3, <2>6, <2>7, <2>8, HandGrows
<1> QED BY <1>1, <1>2, <1>3

\* The hubs of a key, and those still to be tried.
HubsIn(hubs) == {hubs[i] : i \in DOMAIN hubs}
HubLists == {<<"wikidata", "tmdb">>, <<"tmdb">>, <<"place_details">>, <<>>}

\* Every hub of a key the completion has added was visited for it, or will be.
Due(k, hub) ==
  \/ <<hub, k>> \in job.visited
  \/ k \in job.todo
  \/ k = job.key /\ hub \in HubsIn(job.hubs)

VisitInv ==
  /\ job.caller.hops \in Nat
  /\ job.hubs \in HubLists
  /\ job.at = "asking" => job.hubs # <<>> /\ <<Head(job.hubs), job.key>> \in job.visited
  /\ job.at \in {"walk", "asking"} /\ Live(job.cid) /\ ~ job.worked =>
       \A k \in job.added : \A hub \in HubsIn(HubsFor(k)) : Due(k, hub)
  /\ job.at = "load" /\ Live(job.cid) =>
       \/ job.hop = job.caller.hops
       \/ \A k \in job.added : \A hub \in HubsIn(HubsFor(k)) : <<hub, k>> \in job.visited

\* hubs_for returns one of these lists.
LEMMA HubsForType ==
  ASSUME NEW k
  PROVE  HubsFor(k) \in HubLists
BY DEF HubsFor, HubLists

\* The hubs still to be tried are the first one and the rest.
LEMMA FirstAndRest ==
  ASSUME NEW hubs \in HubLists, hubs # <<>>
  PROVE  /\ Tail(hubs) \in HubLists
         /\ HubsIn(hubs) \subseteq {Head(hubs)} \cup HubsIn(Tail(hubs))
<1>1. CASE hubs = <<"wikidata", "tmdb">>
  <2>1. Head(hubs) = "wikidata" /\ Tail(hubs) = <<"tmdb">>
    BY <1>1
  <2>2. HubsIn(hubs) = {"wikidata", "tmdb"} /\ HubsIn(<<"tmdb">>) = {"tmdb"}
    BY <1>1 DEF HubsIn
  <2> QED BY <2>1, <2>2 DEF HubLists
<1>2. ASSUME NEW hub, hubs = <<hub>>
      PROVE  Tail(hubs) \in HubLists /\ HubsIn(hubs) \subseteq {Head(hubs)}
  <2>1. Head(hubs) = hub /\ Tail(hubs) = <<>>
    BY <1>2
  <2>2. HubsIn(hubs) = {hub}
    BY <1>2 DEF HubsIn
  <2> QED BY <2>1, <2>2 DEF HubLists
<1> QED BY <1>1, <1>2 DEF HubLists

\* After its first hub was visited, what is due of the key stays due.
LEMMA DueAfterHead ==
  ASSUME job.hubs \in HubLists, job.hubs # <<>>,
         job'.hubs = Tail(job.hubs), job'.key = job.key, job'.todo = job.todo,
         job.visited \cup {<<Head(job.hubs), job.key>>} \subseteq job'.visited,
         NEW k, NEW hub, Due(k, hub)
  PROVE  Due(k, hub)'
<1>1. HubsIn(job.hubs) \subseteq {Head(job.hubs)} \cup HubsIn(Tail(job.hubs))
  BY FirstAndRest
<1> QED BY <1>1 DEF Due

\* The entity does not come back.
LEMMA StaysGone ==
  ASSUME EntityInv, WalkInv, SeedInv, [CompletionNext]_jobVars, job.at # "idle",
         job'.cid = job.cid, Live(job.cid)'
  PROVE  Live(job.cid)
<1>1. job.cid \in Cids /\ Settles(job.cid)
  BY DEF WalkInv, SeedInv
<1>2. CASE UNCHANGED vars
  BY <1>2 DEF vars, Live
<1>3. CASE \E r \in AnyRecord, strict \in BOOLEAN : Commit(r, strict)
  <2>1. \A c \in Cids : Settles(c) /\ Live(c)' => Live(c)
    BY <1>3, CommitKeepsTogether
  <2> QED BY <1>1, <2>1 DEF Live
<1> QED BY <1>2, <1>3, GraphSteps DEF jobVars

\* Each step keeps VisitInv.
LEMMA VisitStays ==
  ASSUME EntityInv, WalkInv, SeedInv, HandInv, VisitInv, [CompletionNext]_jobVars
  PROVE  VisitInv'
<1>1. HasFields
  BY DEF WalkInv
<1>2. CASE Start \/ Load
  <2>1. /\ job'.at \notin {"walk", "asking", "load"}
        /\ job'.hubs = <<>> /\ job'.caller.hops \in Nat
    BY <1>1, <1>2, StartDoes, LoadDoes
  <2>2. <<>> \in HubLists
    BY DEF HubLists
  <2> QED BY <2>1, <2>2 DEF VisitInv
<1>3. CASE BeginHop
  <2>1. /\ job.at = "hop" /\ job'.hubs = job.hubs /\ job'.caller = job.caller
        /\ job'.cid = job.cid /\ job'.added = job.added /\ job'.hop = job.hop
        /\ \/ job'.at = "load" /\ job.hop = job.caller.hops
           \/ job'.at = "walk" /\ job'.todo = Members(job.cid)
        /\ UNCHANGED vars
    BY <1>1, <1>3, BeginHopDoes DEF Same
  <2>2. Live(job.cid) => job.added \subseteq Members(job.cid)
    BY <2>1 DEF HandInv, OnEntity, InHand
  <2>3. Live(job.cid)' => Live(job.cid)
    BY <2>1 DEF vars, Live
  <2> QED BY <2>1, <2>2, <2>3 DEF VisitInv, Due
<1>4. CASE NextKey
  <2>1. /\ job.at = "walk" /\ job.hubs = <<>>
        /\ job'.at = job.at /\ job'.caller = job.caller /\ job'.cid = job.cid
        /\ job'.added = job.added /\ job'.visited = job.visited /\ job'.worked = job.worked
        /\ job'.hubs = HubsFor(job'.key) /\ job'.todo = job.todo \ {job'.key}
        /\ UNCHANGED vars
    BY <1>1, <1>4, NextKeyDoes DEF Same
  <2>2. HubsIn(<<>>) = {}
    BY DEF HubsIn
  <2>3. \A k : \A hub \in HubsIn(HubsFor(k)) : Due(k, hub) => Due(k, hub)'
    BY <2>1, <2>2 DEF Due
  <2>4. Live(job.cid)' => Live(job.cid)
    BY <2>1 DEF vars, Live
  <2> QED BY <2>1, <2>3, <2>4, HubsForType DEF VisitInv
<1>5. CASE EndHop
  <2>1. /\ job.at = "walk" /\ job.hubs = <<>> /\ job.todo = {}
        /\ job'.hubs = job.hubs /\ job'.caller = job.caller /\ job'.cid = job.cid
        /\ job'.added = job.added /\ job'.visited = job.visited
        /\ job'.at = "hop" \/ (job'.at = "load" /\ ~ job.worked)
        /\ UNCHANGED vars
    <3>1. job'.at = "hop" \/ (job'.at = "load" /\ ~ job.worked)
      BY <1>1, <1>5, EndHopDoes, Zenon
    <3> QED BY <1>1, <1>5, <3>1, EndHopDoes DEF Same
  <2>2. HubsIn(<<>>) = {}
    BY DEF HubsIn
  <2>3. Live(job.cid)' => Live(job.cid)
    BY <2>1 DEF vars, Live
  <2>4. ~ job.worked /\ Live(job.cid) =>
          \A k \in job.added : \A hub \in HubsIn(HubsFor(k)) : <<hub, k>> \in job.visited
    BY <2>1, <2>2 DEF VisitInv, Due
  <2> QED BY <2>1, <2>3, <2>4 DEF VisitInv
<1>6. CASE Visit
  <2>1. /\ job.at = "walk" /\ job.hubs # <<>>
        /\ job'.caller = job.caller /\ job'.cid = job.cid /\ job'.key = job.key
        /\ job'.added = job.added /\ job'.worked = job.worked /\ job'.todo = job.todo
        /\ job'.visited = job.visited \cup {<<Head(job.hubs), job.key>>}
        /\ \/ job'.at = "walk" /\ job'.hubs = Tail(job.hubs)
           \/ job'.at = "asking" /\ job'.hubs = job.hubs
        /\ UNCHANGED vars
    BY <1>1, <1>6, VisitDoes DEF Same
  <2>2. Live(job.cid)' => Live(job.cid)
    BY <2>1 DEF vars, Live
  <2>3. job.hubs \in HubLists /\ Tail(job.hubs) \in HubLists
    BY <2>1, FirstAndRest DEF VisitInv
  <2>4. ASSUME NEW k, NEW hub, Due(k, hub)
        PROVE  Due(k, hub)'
    <3>1. CASE job'.hubs = Tail(job.hubs)
      BY <2>1, <2>3, <2>4, <3>1, DueAfterHead
    <3>2. CASE job'.hubs = job.hubs
      BY <2>1, <2>4, <3>2 DEF Due
    <3> QED BY <2>1, <3>1, <3>2
  <2> QED BY <2>1, <2>2, <2>3, <2>4 DEF VisitInv
<1>7. CASE job.at = "asking" /\ job' = NextHub /\ UNCHANGED vars
  <2>1. /\ job'.at = "walk" /\ job'.hubs = Tail(job.hubs)
        /\ job'.caller = job.caller /\ job'.cid = job.cid /\ job'.key = job.key
        /\ job'.added = job.added /\ job'.worked = job.worked /\ job'.todo = job.todo
        /\ job'.visited = job.visited
    BY <1>1, <1>7, NextHubDoes DEF Same
  <2>2. Live(job.cid)' => Live(job.cid)
    BY <1>7, <2>1 DEF vars, Live
  <2>3. /\ job.hubs \in HubLists /\ job.hubs # <<>> /\ Tail(job.hubs) \in HubLists
        /\ <<Head(job.hubs), job.key>> \in job.visited
    BY <1>7, FirstAndRest DEF VisitInv
  <2>4. \A k, hub : Due(k, hub) => Due(k, hub)'
    BY <2>1, <2>3, DueAfterHead
  <2> QED BY <1>7, <2>1, <2>2, <2>3, <2>4 DEF VisitInv
<1>8. CASE SendFails
  <2>1. CASE job' = NextHub
    BY <1>1, <1>7, <1>8, <2>1, SendFailsDoes
  <2>2. CASE job' # NextHub
    <3>1. /\ job'.at = job.at /\ job'.hubs = job.hubs
          /\ job'.caller = job.caller /\ job'.cid = job.cid /\ job'.key = job.key
          /\ job'.added = job.added /\ job'.worked = job.worked /\ job'.todo = job.todo
          /\ job'.visited = job.visited /\ job.at = "asking" /\ UNCHANGED vars
      BY <1>1, <1>8, <2>2, SendFailsDoes DEF Same
    <3> QED BY <3>1 DEF VisitInv, Due, vars, Live
  <2> QED BY <2>1, <2>2
<1>9. CASE SendAgain
  <2>1. /\ job'.at = job.at /\ job'.hubs = job.hubs
        /\ job'.caller = job.caller /\ job'.cid = job.cid /\ job'.key = job.key
        /\ job'.added = job.added /\ job'.worked = job.worked /\ job'.todo = job.todo
        /\ job'.visited = job.visited /\ job.at = "asking" /\ UNCHANGED vars
    BY <1>1, <1>9, SendAgainDoes DEF Same
  <2> QED BY <2>1 DEF VisitInv, Due, vars, Live
<1>10. CASE Unusable
  BY <1>7, <1>10 DEF Unusable
<1>11. CASE Harvest
  <2>1. /\ job.at = "asking" /\ job'.at = "walk" /\ job'.hubs = Tail(job.hubs)
        /\ job'.caller = job.caller /\ job'.cid = job.cid /\ job'.key = job.key
        /\ job'.visited = job.visited /\ job'.todo = job.todo
    BY <1>1, <1>11, HarvestDoes DEF Same
  <2>2. Live(job.cid)' => Live(job.cid)
    BY <2>1, StaysGone
  <2>3. /\ job.hubs \in HubLists /\ job.hubs # <<>> /\ Tail(job.hubs) \in HubLists
        /\ <<Head(job.hubs), job.key>> \in job.visited
    BY <2>1, FirstAndRest DEF VisitInv
  <2>4. \A k, hub : Due(k, hub) => Due(k, hub)'
    BY <2>1, <2>3, DueAfterHead
  <2>5. ~ job'.worked => ~ job.worked /\ job'.added = job.added
    <3>1. PICK r \in HubRecords : /\ job'.worked = (job.worked \/ NewEdges(r))
                                  /\ job'.added = job.added \cup (r.ids \ Known)
      BY <1>1, <1>11, HarvestDoes
    <3>2. ~ NewEdges(r) => r.ids \ Known = {}
      BY DEF NewEdges
    <3> QED BY <3>1, <3>2
  <2> QED BY <2>1, <2>2, <2>3, <2>4, <2>5 DEF VisitInv
<1>12. CASE UNCHANGED job
  <2>1. job.at # "idle" /\ Live(job.cid)' => Live(job.cid)
    BY <1>12, StaysGone
  <2> QED BY <1>12, <2>1 DEF VisitInv, Due
<1> QED BY <1>2, <1>3, <1>4, <1>5, <1>6, <1>8, <1>9, <1>10, <1>11, <1>12
        DEF CompletionNext, Completing, Meanwhile, jobVars

\* A walk that stops early has visited every hub of every key it brought into the
\* cluster, though others merge entities into it and away meanwhile.
THEOREM WalkIsComplete == HashInjective => (CompletionSpec => []NewKeysAreVisited)
<1> SUFFICES ASSUME HashInjective PROVE CompletionSpec => []NewKeysAreVisited
  OBVIOUS
<1> DEFINE Inv == EntityInv /\ WalkInv /\ SeedInv /\ HandInv /\ VisitInv
<1>1. CompletionInit => Inv
  <2>1. <<>> \in HubLists
    BY DEF HubLists
  <2> QED BY <2>1, GraphInitially DEF CompletionInit, WalkInv, Asking, HasFields, JobFields,
             Rest, SeedInv, HandInv, VisitInv
<1>2. Inv /\ [CompletionNext]_jobVars => Inv'
  BY GraphStays, WalkStays, SeedStays, HandStays, VisitStays
<1>3. Inv => NewKeysAreVisited
  <2> SUFFICES ASSUME Inv, job.at = "load", job.hop < job.caller.hops,
                      NEW k \in job.added \cap Members(job.cid),
                      NEW i \in 1 .. 2, i \in DOMAIN HubsFor(k)
               PROVE  <<HubsFor(k)[i], k>> \in job.visited
    BY DEF NewKeysAreVisited
  <2>1. Live(job.cid)
    <3>1. owner[k] = job.cid /\ k \in StrongKeys /\ job.cid \in Cids
      BY DEF Members, WalkInv
    <3> QED BY <3>1, KeysAssumption DEF EntityInv, RowsLive
  <2>2. job.hop # job.caller.hops
    <3>1. job.caller.hops \in Nat
      BY DEF VisitInv
    <3>2. \A n \in Nat : ~ (n < n)
      OBVIOUS
    <3>3. ASSUME job.hop = job.caller.hops
          PROVE  FALSE
      <4>1. job.caller.hops < job.caller.hops
        BY <3>3
      <4> QED BY <3>1, <3>2, <4>1
    <3> QED BY <3>3
  <2>3. HubsFor(k)[i] \in HubsIn(HubsFor(k))
    BY DEF HubsIn
  <2> QED BY <2>1, <2>2, <2>3 DEF VisitInv
<1> QED BY <1>1, <1>2, <1>3, PTL DEF CompletionSpec
=============================================================================
