----------------------------- MODULE Completion -----------------------------
(***************************************************************************)
(* Completion of a committed cluster from external hubs (complete.rs): a   *)
(* bounded walk over the keys of the entity that asks the forward hubs     *)
(* (hubs/) through a retrying transport (transport.rs) and commits what    *)
(* they answer, while other requests commit to the same graph.             *)
(*                                                                         *)
(* One completion runs at a time: its locals are the record `job`.  A hub  *)
(* answers any record its adapter can build, or fails; nothing is assumed  *)
(* of a hub but that each send comes back, if only as a timeout.           *)
(***************************************************************************)
EXTENDS Crosswalk, Sequences

CONSTANTS
  Seeds,        \* the records completions start from
  HubRecords,   \* the records hubs may answer
  Callers,      \* [hops, free, strict]: max_hops, ~allow_billable_hubs, the grain rule
  MaxAttempts   \* max_attempts of the transport

ASSUME CompletionAssumption ==
  /\ Seeds \cup HubRecords \subseteq [ids : SUBSET StrongKeys, phones : SUBSET Phones]
  /\ Callers \subseteq [hops : Nat, free : BOOLEAN, strict : BOOLEAN]
  /\ MaxAttempts \in Nat \ {0}
  /\ \A k \in Affiliation : Kind[k] = "domain"   \* the only one, kind.rs

VARIABLE job    \* the locals of complete_committed

jobVars == <<vars, job>>

-----------------------------------------------------------------------------
(***************************************************************************)
(* Which hubs are asked.                                                   *)
(***************************************************************************)

\* hubs_for: the forward hubs of a key, in the order they are tried.
HubsFor(k) ==
  CASE Kind[k] = "imdb"            -> <<"wikidata", "tmdb">>
    [] Kind[k] = "wikidata"        -> <<"wikidata", "tmdb">>
    [] Kind[k] = "tmdb"            -> <<"tmdb">>
    [] Kind[k] = "google_place_id" -> <<"place_details">>
    [] OTHER                       -> <<>>

Billable(hub) == hub = "place_details"

\* skip_if_present, over the kinds of the members read when the hop began.
SkipIfPresent(hub, kinds) ==
  CASE hub = "wikidata"      -> "tmdb" \in kinds
    [] hub = "tmdb"          -> "wikidata" \in kinds
    [] hub = "place_details" -> {"domain", "phone"} \cap kinds # {}

\* The kinds members() returns for an entity: its keys', and its phone edges'.
MemberKinds(c) ==
  {Kind[k] : k \in Members(c)} \cup {"phone" : row \in {e \in phoneEdge : e[2] = c}}

\* The requests one dispatch makes: by an IMDb id, TMDb is asked twice
\* (/find, then /external_ids).  Its wikidata: arm fails before it sends.
RequestsOf(hub, k) ==
  CASE hub = "tmdb" /\ Kind[k] = "imdb"     -> 2
    [] hub = "tmdb" /\ Kind[k] = "wikidata" -> 0
    [] OTHER                                -> 1

AtMostOne(r, kind) == Cardinality({k \in r.ids : Kind[k] = kind}) <= 1

\* Mutant: the adapter forgets to echo the key it was asked for.
MayAnswerUnechoed(hub, k, r) == r.ids # {}

\* What each adapter can build of a record about key k.  Wikidata may return several
\* items, the others name one thing.
OfWikidata(r) == \A j \in r.ids : Kind[j] \in {"wikidata", "imdb", "tmdb", "domain"}

OfTmdb(r) ==
  /\ r.phones = {}
  /\ \A j \in r.ids : Kind[j] \in {"wikidata", "imdb", "tmdb"}
  /\ \A kind \in {"wikidata", "tmdb"} : AtMostOne(r, kind)

OfPlaceDetails(k, r) ==
  /\ \A j \in r.ids \ {k} : Kind[j] = "domain"
  /\ AtMostOne(r, "domain")

\* The records a hub may answer when asked for key k: each adapter echoes k.
MayAnswer(hub, k, r) ==
  /\ k \in r.ids
  /\ CASE hub = "wikidata"      -> OfWikidata(r)
       [] hub = "tmdb"          -> OfTmdb(r)
       [] hub = "place_details" -> OfPlaceDetails(k, r)

-----------------------------------------------------------------------------
(***************************************************************************)
(* Starting, and walking the cluster hop by hop.                           *)
(***************************************************************************)
Rest ==
  [at |-> "idle", caller |-> [hops |-> 0, free |-> FALSE, strict |-> FALSE],
   seed |-> {}, cid |-> NoCid, hop |-> 0, kinds |-> {}, todo |-> {}, key |-> NoKey,
   hubs |-> <<>>, visited |-> {}, worked |-> FALSE, requests |-> 0, attempts |-> 0,
   added |-> {}, sent |-> 0]

CompletionInit == Init /\ job = Rest

\* The seed is committed; the Worker (strict) completes it only if that added edges.
Start ==
  /\ job.at \in {"idle", "done", "failed"}
  /\ \E r \in Seeds, caller \in Callers, c \in Cids :
       /\ Commit(r, caller.strict)
       /\ Target(r, c)
       /\ job' = [Rest EXCEPT
            !.at = IF caller.strict /\ ~ NewEdges(r) THEN "done" ELSE "hop",
            !.caller = caller, !.seed = r.ids, !.cid = c]

\* The top of the hop loop: the members are read.
BeginHop ==
  /\ job.at = "hop"
  /\ job' = IF job.hop = job.caller.hops
              THEN [job EXCEPT !.at = "load"]
              ELSE [job EXCEPT !.at = "walk", !.kinds = MemberKinds(job.cid),
                               !.todo = Members(job.cid), !.worked = FALSE]
  /\ UNCHANGED vars

\* The next member, in the order the table returns them.
NextKey ==
  /\ job.at = "walk" /\ job.hubs = <<>>
  /\ \E k \in job.todo :
       job' = [job EXCEPT !.key = k, !.hubs = HubsFor(k), !.todo = @ \ {k}]
  /\ UNCHANGED vars

EndHop ==
  /\ job.at = "walk" /\ job.hubs = <<>> /\ job.todo = {}
  /\ job' = IF job.worked
              THEN [job EXCEPT !.at = "hop", !.hop = @ + 1]
              ELSE [job EXCEPT !.at = "load"]
  /\ UNCHANGED vars

\* The next hub of the member: passed over, or dispatched.  The pair is visited
\* in either case.
Gated(hub) ==
  \/ <<hub, job.key>> \in job.visited
  \/ SkipIfPresent(hub, job.kinds)
  \/ job.caller.free /\ Billable(hub)

Visit ==
  /\ job.at = "walk" /\ job.hubs # <<>>
  /\ LET hub == Head(job.hubs)
         visited == job.visited \cup {<<hub, job.key>>}
     IN  job' = IF Gated(hub)
                  THEN [job EXCEPT !.visited = visited, !.hubs = Tail(@)]
                  ELSE [job EXCEPT !.visited = visited, !.at = "asking", !.attempts = 0,
                                   !.sent = 0, !.requests = RequestsOf(hub, job.key)]
  /\ UNCHANGED vars

-----------------------------------------------------------------------------
(***************************************************************************)
(* Asking a hub: send_with_retry, run_hub and the commit of the answer.    *)
(***************************************************************************)
NextHub == [job EXCEPT !.at = "walk", !.hubs = Tail(@), !.sent = 0, !.attempts = 0]

\* Mutant: the attempt is not counted.
Uncounted(attempts) == attempts

\* attempt += 1
Counted(attempts) == attempts + 1

\* Mutant: the attempt is compared with the wrong bound.
RetriedPastCap(attempt) == attempt <= MaxAttempts

\* A transient failure (429, 5xx, a send error) is retried below the cap.
Retried(attempt) == attempt < MaxAttempts

\* One more send of the current dispatch, counted modulo a number none should reach.
SentOnce == [job EXCEPT !.sent = (@ + 1) % (2 * MaxAttempts + 1)]

\* A send that comes back with a failure.  Past the cap, or if it is no transient
\* one, the hub yields nothing.
SendFails ==
  /\ job.at = "asking" /\ job.requests > 0
  /\ \E transient \in BOOLEAN :
       job' = IF transient /\ Retried(Counted(job.attempts))
                THEN [SentOnce EXCEPT !.attempts = Counted(@)]
                ELSE NextHub
  /\ UNCHANGED vars

\* The first of two requests succeeds; the second starts its own attempts.
SendAgain ==
  /\ job.at = "asking" /\ job.requests = 2
  /\ job' = [SentOnce EXCEPT !.requests = 1, !.attempts = 0]
  /\ UNCHANGED vars

\* The adapter refuses the kind of its input, or the body does not parse.
Unusable ==
  /\ job.at = "asking" /\ job.requests <= 1
  /\ job' = NextHub
  /\ UNCHANGED vars

\* Mutant: did_work is overwritten by each hub.
WorkedLast(before, now) == now

\* did_work
Worked(before, now) == before \/ now

\* The last send succeeds and the record is committed, permissively.  (No TMDb match
\* for an IMDb id ends after the first request with the echo alone.)
Harvest ==
  /\ job.at = "asking"
  /\ \E r \in HubRecords :
       /\ MayAnswer(Head(job.hubs), job.key, r)
       /\ job.requests = 1 \/ (job.requests = 2 /\ r.ids = {job.key})
       /\ Commit(r, FALSE)
       /\ job' = [NextHub EXCEPT !.worked = Worked(@, NewEdges(r)),
                                 !.added = @ \cup (r.ids \ Known)]

\* The call returns, and its locals go.
Return(at) == [Rest EXCEPT !.at = at, !.seed = job.seed, !.cid = job.cid]

\* load_entity: an error if the row is gone.
Load ==
  /\ job.at = "load"
  /\ job' = Return(IF Live(job.cid) THEN "done" ELSE "failed")
  /\ UNCHANGED vars

Completing ==
  BeginHop \/ NextKey \/ EndHop \/ Visit \/ SendFails \/ SendAgain \/ Unusable
    \/ Harvest \/ Load

\* Another request commits meanwhile.
Meanwhile ==
  /\ job.at \notin {"idle", "done", "failed"}
  /\ \E r \in Records : Commit(r, FALSE)
  /\ UNCHANGED job

CompletionNext == Start \/ Completing \/ Meanwhile

\* A completion is a loop in one request: it goes on while its sends come back, which
\* the client's timeouts ensure.  Nobody has to start one.
CompletionSpec ==
  CompletionInit /\ [][CompletionNext]_jobVars /\ WF_jobVars(Completing)

-----------------------------------------------------------------------------
(***************************************************************************)
(* Properties.                                                             *)
(***************************************************************************)
Ended == job.at \in {"done", "failed"}

\* A completion ends, whatever the hubs do and whoever else grows the cluster:
\* attempts, hubs and hops are all bounded.
CompletionEnds == (job.at = "hop") ~> Ended

\* Every answer of a hub joins the entity that was asked about and never mints one of
\* its own ("every adapter echoes its query id", hubs/mod.rs), also after others
\* have merged that entity away.
HubsMintNothing ==
  [][job.at = "asking" /\ job' # job => LiveCids' \subseteq LiveCids]_jobVars

\* What the completion was asked about stays one thing, whatever the hubs answer:
\* when it ends, even in an error, the seed's identity keys are on one entity, and
\* it is the answered one while that is there.
SeedStaysTogether ==
  Ended => \A k \in job.seed \cap Identity :
             /\ owner[k] # NoCid
             /\ \A j \in job.seed \cap Identity : owner[j] = owner[k]
             /\ Live(job.cid) => owner[k] = job.cid

\* A walk that stops before its hop cap leaves no key unvisited that it brought into
\* the cluster itself: "repeats until no new edges appear" (complete.rs).
NewKeysAreVisited ==
  job.at = "load" /\ job.hop < job.caller.hops =>
    \A k \in job.added \cap Members(job.cid), i \in 1 .. 2 :
      i \in DOMAIN HubsFor(k) => <<HubsFor(k)[i], k>> \in job.visited

\* A dispatch sends at most MaxAttempts times for each request it makes, however its
\* requests fail and succeed in turn: each send counts "against the Worker's
\* per-request subrequest limit" (transport.rs).
SubrequestsBounded ==
  job.at = "asking" /\ job.requests > 0 =>
    job.sent < MaxAttempts * RequestsOf(Head(job.hubs), job.key)

\* "Best-effort (a hub that is unavailable yields no completion, never an error)"
\* (README.md): a completion never fails.
BestEffort == job.at # "failed"
=============================================================================
