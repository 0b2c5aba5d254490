----------------------------- MODULE NameRequest -----------------------------
(***************************************************************************)
(* POST /resolve/name (handlers.rs): a request's identifiers first, then   *)
(* the graph's own memory of the name, then, on a budget, a hub search     *)
(* whose answer is bound, completed and remembered (complete.rs); and the  *)
(* command line's use of the same functions (main.rs).                     *)
(*                                                                         *)
(* The Worker's requests run concurrently over one database, and nobody    *)
(* corrects it; the command line runs one command at a time, corrections   *)
(* among them, and has no budget.  An action is what a request does        *)
(* between two awaits that others can slip in between; only the reads of   *)
(* Look, the reads and the write of Plural and the inserts of Index are    *)
(* several awaits in one.  Hubs answer anything their adapters let through.*)
(* Completion is reduced to at most one commit of a hub's record (module   *)
(* Completion has the walk).                                               *)
(***************************************************************************)
EXTENDS NameMemory

CONSTANTS
  Fronts,      \* the front-ends to look at: "worker", "cli"
  Clients,     \* who may have a request under way
  Bucket,      \* Bucket[p]: the quota bucket p names
  Asks,        \* the requests: [ids, title, quals, type, street]
  Limits,      \* values of HUB_DAILY_BUDGET
  MaxDay,      \* bound: how many times the UTC day turns
  MaxLearned,  \* bound: what the command line may learn from hubs before it asks no more
  Configured,  \* the hubs whose secret is set
  Describes,   \* Describes[k]: the tokens a search hub's own description of k matches
  HubRecords   \* what completion may commit

VARIABLES
  front,    \* the front-end of this database
  req,      \* req[p]: the locals of p's handler
  calls,    \* hub_budget: calls[b][d], 0 when there is no row
  day,      \* the UTC day
  limit,    \* HUB_DAILY_BUDGET
  proved,   \* history: <<title, Q, k>>, a hub's only answer to a request for them was k
  settled   \* history: the name keys whose last hub verdict the graph should remember

reqVars == <<memoryVars, front, req, calls, day, limit, proved, settled>>

Types == {"place", "film", "org", "thing"}
Buckets == {Bucket[p] : p \in Clients}

\* A request body as parse leaves it; `street`: there is an address.
Requests == [ids : SUBSET StrongKeys, title : Titles \cup {NoTitle},
             quals : SUBSET Tokens, type : Types, street : BOOLEAN]

ASSUME RequestAssumption ==
  /\ Fronts \subseteq {"worker", "cli"}
  /\ Asks \subseteq Requests
  /\ Limits \subseteq Nat
  /\ MaxDay \in Nat /\ MaxLearned \in Nat
  /\ HubRecords \subseteq [ids : SUBSET StrongKeys, phones : SUBSET Phones]

\* The registry (kind.rs): domain is its only strong kind of affiliation grain.
ASSUME GrainAssumption ==
  \A k \in StrongKeys : k \in Affiliation <=> Kind[k] = "domain"

-----------------------------------------------------------------------------
(***************************************************************************)
(* Reading a request.                                                      *)
(***************************************************************************)

\* name_hub_for.
NameHubFor(type) == CASE type = "place" -> "places" [] type = "film" -> "tmdb" [] OTHER -> "wikidata"

OrgShaped(type) == type = "org"

KeysOfKinds(kinds) == {k \in StrongKeys : Kind[k] \in kinds}

\* What the search adapters key their results by: a series has no tmdb: key.
Places == KeysOfKinds({"google_place_id"})
Films == KeysOfKinds({"tmdb", "url"})
Items == KeysOfKinds({"wikidata"})
\* ... the website's, and Placekey's.
Publishers == KeysOfKinds({"wikidata"})
Placekeys == KeysOfKinds({"placekey"})

\* The one registrable domain the website crosswalk may spend a lookup on: the first of
\* the request's, which lists its keys in their order here.
Website(ask) ==
  LET domains == {k \in ask.ids : Kind[k] = "domain"}
  IN  IF OrgShaped(ask.type)
        THEN {k \in domains : \A j \in domains : Pos[k] <= Pos[j]} ELSE {}

\* NameRequest::parse: there is a name or an identifier.
Usable(ask) == ask.ids # {} \/ ask.title # NoTitle

\* missing_for: the hub's secret is not set.
Missing(hub) == hub \notin Configured

\* parse_identifier_ref of the text of a key.  A url: key is stored without its
\* scheme, and a URL without one does not parse: such a reference is ignored.
RefIds(k) == IF Kind[k] = "url" THEN {} ELSE {k}

Rest ==
  [at |-> "idle", ask |-> CHOOSE ask \in Asks : TRUE, cid |-> NoCid, among |-> {},
   found |-> {}, sole |-> FALSE, day |-> 0, used |-> 0, echo |-> FALSE]

RequestInit ==
  /\ MemoryInit
  /\ front \in Fronts
  /\ req = [p \in Clients |-> Rest]
  /\ calls = [b \in Buckets |-> [d \in 0 .. MaxDay |-> 0]]
  /\ day = 0
  /\ limit \in Limits
  /\ proved = {}
  /\ settled = {}

Ends == {"idle", "resolved", "ambiguous", "refused"}
Resting(p) == req[p].at \in Ends

\* p's locals become s; an answer keeps only what the caller sees of it.
Goes(p, s) ==
  req' = [req EXCEPT ![p] =
    CASE s.at = "ambiguous" -> [Rest EXCEPT !.at = s.at, !.ask = s.ask, !.among = s.among,
                                            !.echo = s.echo]
      [] s.at \in Ends \ {"ambiguous"} -> [Rest EXCEPT !.at = s.at, !.echo = s.echo]
      [] OTHER -> s]
Moves(p, at) == Goes(p, [req[p] EXCEPT !.at = at])
AnswersMany(p, candidates) ==
  Goes(p, [req[p] EXCEPT !.at = "ambiguous", !.among = candidates])
Keeps == UNCHANGED <<front, calls, day, limit, proved, settled>>

Begins(p, ask, echo) ==
  Goes(p, [Rest EXCEPT
    !.ask = ask, !.echo = echo,
    !.at = CASE ~ Usable(ask)  -> "refused"
             [] ask.ids # {}  -> "ids"
             [] OTHER         -> "look"])

Ask(p) ==
  /\ front = "worker"
  /\ Resting(p)
  /\ \E ask \in Asks : Begins(p, ask, FALSE)
  /\ Keeps /\ UNCHANGED memoryVars

\* The caller picks a candidate of the answer and asks again with its ref.
AskAgain(p) ==
  /\ front = "worker"
  /\ req[p].at = "ambiguous"
  /\ \E pick \in req[p].among :
       Begins(p, [req[p].ask EXCEPT !.ids = RefIds(pick.anchor)], TRUE)
  /\ Keeps /\ UNCHANGED memoryVars

LookupOf(ask) == IF ask.title = NoTitle THEN Nothing ELSE Lookup(ask.title, ask.quals)

\* Who runs commands, and how much they have learned.
Operator == CHOOSE p \in Clients : TRUE
Learned == Cardinality(proved) + Cardinality({n \in Names : plural[n] # {}})

\* `resolve --name`, with --complete or without, and `resolve --domain --complete` for
\* an organization (do_resolve); a name that normalizes to nothing is left out.
RunCommand(p) ==
  /\ front = "cli"
  /\ p = Operator /\ Resting(p)
  /\ \E ask \in Asks, complete \in BOOLEAN :
       LET s == [Rest EXCEPT !.ask = ask]
           found == LookupOf(ask)
       IN  /\ Usable(ask)
           /\ complete => Learned < MaxLearned
           /\ \/ /\ ask.ids # {} /\ complete
                 /\ Website(ask) = ask.ids /\ ask.title = NoTitle
                 /\ Goes(p, [s EXCEPT !.at = "site"])
              \/ /\ ask.ids = {} /\ complete
                 /\ Goes(p, [s EXCEPT !.at = "search"])
              \/ /\ ask.ids = {} /\ ~ complete
                 /\ Goes(p, [s EXCEPT
                      !.at = CASE found.is = "one"  -> "resolved"
                               [] found.is = "many" -> "ambiguous"
                               [] OTHER             -> "refused",
                      !.among = found.among])
  /\ Keeps /\ UNCHANGED memoryVars

-----------------------------------------------------------------------------
(***************************************************************************)
(* Step 1: the identifiers, under the strict grain rule.                   *)
(***************************************************************************)
AskedRecord(p) == [ids |-> req[p].ask.ids, phones |-> {}]

\* An organization whose cluster just grew is completed, free hubs only.
CommitIds(p) ==
  /\ req[p].at = "ids"
  /\ Commit(AskedRecord(p), TRUE)
  /\ \E c \in Cids :
       /\ Target(AskedRecord(p), c)
       /\ Goes(p, [req[p] EXCEPT
            !.cid = c,
            !.at = IF NewEdges(AskedRecord(p)) /\ OrgShaped(req[p].ask.type)
                     THEN "completing" ELSE "resolved"])
  /\ Keeps /\ UNCHANGED plural

\* Only domains: their identity-bearing owners are the candidates.  With none, on
\* to the name.
RefuseIds(p) ==
  /\ req[p].at = "ids"
  /\ Refused(AskedRecord(p), TRUE)
  /\ LET bearing == {c \in Hits(req[p].ask.ids) : IdMembers(c) # {}}
     IN  IF bearing # {}
           THEN AnswersMany(p, {Candidate(c) : c \in bearing})
           ELSE Moves(p, IF req[p].ask.title = NoTitle /\ Website(req[p].ask) = {}
                           THEN "refused" ELSE "look")
  /\ Keeps /\ UNCHANGED memoryVars

-----------------------------------------------------------------------------
(***************************************************************************)
(* Step 2: the graph's memory, and the reservation of a hub call.          *)
(***************************************************************************)

\* Answer from a lookup that found something.
Answers(p, found) ==
  CASE found.is = "one"   -> Goes(p, [req[p] EXCEPT !.at = "resolved", !.cid = found.cid])
    [] found.is = "many"  -> AnswersMany(p, found.among)
    [] found.is = "error" -> Moves(p, "refused")

\* Mutant: the website is looked up only when a hub call is at hand.
SiteForgotten(ask) == {}

\* resolve_by_website_local: only a remembered refusal is an answer.
RememberedSite(ask) == UNION {plural[MemoKey(d)] : d \in Website(ask)}

\* A name hit beats a remembered website; a miss needs the hub's secret, and reads
\* the clock.
Look(p) ==
  /\ req[p].at = "look"
  /\ LET found == LookupOf(req[p].ask)
         site == RememberedSite(req[p].ask)
     IN  IF found.is # "none" THEN Answers(p, found)
         ELSE IF site # {} THEN AnswersMany(p, site)
         ELSE IF Missing(NameHubFor(req[p].ask.type)) THEN Moves(p, "refused")
         ELSE Goes(p, [req[p] EXCEPT !.at = "reserve", !.day = day])
  /\ Keeps /\ UNCHANGED memoryVars

\* Mutant: the insert branch of the upsert has no guard.
GrantedUnguarded(row) == row = 0 \/ row < limit

\* reserve: the guard on zero, then one upsert that checks and counts.
Granted(row) == limit # 0 /\ row < limit

Reserve(p) ==
  /\ req[p].at = "reserve"
  /\ LET bucket == Bucket[p]
         row == calls[bucket][req[p].day]
     IN  IF Granted(row)
           THEN /\ calls' = [calls EXCEPT ![bucket][req[p].day] = row + 1]
                /\ Goes(p, [req[p] EXCEPT
                     !.used = row + 1,
                     !.at = IF Website(req[p].ask) # {} THEN "site" ELSE "search"])
           ELSE Moves(p, "refused") /\ UNCHANGED calls
  /\ UNCHANGED <<memoryVars, front, day, limit, proved, settled>>

\* The budget cannot be read: no call is made.
ReserveFails(p) ==
  /\ req[p].at = "reserve"
  /\ Moves(p, "refused")
  /\ Keeps /\ UNCHANGED memoryVars

-----------------------------------------------------------------------------
(***************************************************************************)
(* Step 2d: the website crosswalk.                                         *)
(***************************************************************************)

\* Mutant: the website is asked again until it answers.
AfterSiteAgain(ask) == "site"

\* No answer here: on to the name search, if there is a name.
\* The command line commits and completes the domain as it is.
AfterSite(ask) ==
  IF front = "cli" THEN "domain"
  ELSE IF ask.title = NoTitle THEN "refused" ELSE "search"

\* An identity-bearing owner keeps its domain; a remembered refusal is the answer.
GuardSite(p) ==
  /\ req[p].at = "site"
  /\ \E d \in Website(req[p].ask) :
       IF d \in Known /\ IdMembers(owner[d]) # {}
         THEN Moves(p, AfterSite(req[p].ask))
         ELSE IF plural[MemoKey(d)] # {}
           THEN AnswersMany(p, plural[MemoKey(d)])
           ELSE Moves(p, "asking_site")
  /\ Keeps /\ UNCHANGED memoryVars

SiteFails(p) ==
  /\ req[p].at = "asking_site"
  /\ Moves(p, AfterSite(req[p].ask))
  /\ Keeps /\ UNCHANGED memoryVars

CommitDomain(p) ==
  LET r == [ids |-> Website(req[p].ask), phones |-> {}]
  IN  /\ req[p].at = "domain"
      /\ Commit(r, FALSE)
      /\ \E c \in Cids :
           /\ Target(r, c)
           /\ Goes(p, [req[p] EXCEPT !.at = "completing", !.cid = c])
      /\ Keeps /\ UNCHANGED plural

Plural(p, n, F) ==
  LET candidates == {CandidateOf(k) : k \in F}
  IN  /\ RecordPlural(n, candidates)
      /\ AnswersMany(p, candidates)
      /\ settled' = settled \cup {n}
      /\ UNCHANGED <<owner, anchor, phoneEdge, nameIndex, front, calls, day, limit, proved>>

\* Several items publish the site: remembered under the domain, never the name.
SiteIsShared(p) ==
  /\ req[p].at = "asking_site"
  /\ \E d \in Website(req[p].ask), F \in SUBSET Publishers :
       /\ Cardinality(F) > 1
       /\ Plural(p, MemoKey(d), F)

\* One item: it is bound together with the domain.
SiteIsFound(p) ==
  /\ req[p].at = "asking_site"
  /\ \E d \in Website(req[p].ask), k \in Publishers :
       Goes(p, [req[p] EXCEPT !.at = "bind", !.found = {k, d}, !.sole = TRUE])
  /\ Keeps /\ UNCHANGED memoryVars

-----------------------------------------------------------------------------
(***************************************************************************)
(* Step 2e: the name search.                                               *)
(***************************************************************************)

\* resolve_name looks in the graph again.
SearchLocally(p) ==
  /\ req[p].at = "search"
  /\ LET found == LookupOf(req[p].ask)
     IN  IF found.is = "none" THEN Moves(p, "asking") ELSE Answers(p, found)
  /\ Keeps /\ UNCHANGED memoryVars

\* matches_all: those whose own description has every token.
SelfDescribed(Q, F) == {k \in F : Q \subseteq Describes[k]}

\* narrow_by_qualifiers: what describes itself with every token, unless nothing does.
NarrowedBy(Q, F) == IF SelfDescribed(Q, F) = {} THEN F ELSE SelfDescribed(Q, F)

\* What Wikidata may type as something other than an organization: any of them; a hub
\* that fails types nothing.
TypedOtherwise(F) == SUBSET F

\* narrow_to_organizations: what is not typed as something else, unless nothing is.
NarrowedTo(others, F) ==
  IF Cardinality(F) < 2 \/ F \subseteq others THEN F ELSE F \ others

\* narrow_by_qualifiers, then the organizations' type gate.
ItemResults(ask) ==
  LET narrowed == {NarrowedBy(ask.quals, F) : F \in SUBSET Items}
  IN  IF OrgShaped(ask.type)
        THEN UNION {{NarrowedTo(others, F) : others \in TypedOtherwise(F)} : F \in narrowed}
        ELSE narrowed

\* What a search by name may leave: Google narrows by itself, the others' results
\* are narrowed here.  A failure leaves nothing.
SearchResults(ask) ==
  LET hub == NameHubFor(ask.type)
  IN  CASE hub = "places" -> SUBSET Places
        [] hub = "tmdb"   -> {NarrowedBy(ask.quals, F) : F \in SUBSET Films}
        [] OTHER          -> ItemResults(ask)

SearchIsPlural(p) ==
  /\ req[p].at = "asking"
  /\ \E F \in SearchResults(req[p].ask) :
       /\ Cardinality(F) > 1
       /\ Plural(p, <<req[p].ask.title, req[p].ask.quals>>, F)

\* One result or none: bound if there is a key to bind.  For a place with a street,
\* Placekey is asked for one more.
SearchIsSingular(p) ==
  /\ req[p].at = "asking"
  /\ \E F \in SearchResults(req[p].ask),
        P \in SUBSET Placekeys :
       /\ Cardinality(F) <= 1 /\ Cardinality(P) <= 1
       /\ P # {} => req[p].ask.type = "place" /\ req[p].ask.street
       /\ Goes(p, [req[p] EXCEPT
            !.at = IF F \cup P = {} THEN "refused" ELSE "bind",
            !.found = F \cup P, !.sole = (F # {})])
  /\ Keeps /\ UNCHANGED memoryVars

-----------------------------------------------------------------------------
(***************************************************************************)
(* Binding, completing and remembering the answer of a hub.                *)
(***************************************************************************)
FoundRecord(p) == [ids |-> req[p].found, phones |-> {}]

Bind(p) ==
  /\ req[p].at = "bind"
  /\ Commit(FoundRecord(p), FALSE)
  /\ \E c \in Cids :
       /\ Target(FoundRecord(p), c)
       /\ Goes(p, [req[p] EXCEPT !.at = "enrich", !.cid = c])
  /\ Keeps /\ UNCHANGED plural

\* Completion: at most one hub record about the entity is committed.  After an
\* identifier its failure is ignored; after a search the answer is loaded next.
Completed(p) == Moves(p, IF req[p].at = "completing" THEN "resolved" ELSE "index")

Enrich(p) ==
  /\ req[p].at \in {"completing", "enrich"}
  /\ \/ UNCHANGED vars
     \/ \E r \in HubRecords :
          /\ r.ids \cap IdMembers(req[p].cid) # {}
          /\ Commit(r, FALSE)
  /\ Completed(p)
  /\ Keeps /\ UNCHANGED plural

\* load_entity, or index_name's foreign key: the entity is gone.
IndexFails(p) ==
  /\ req[p].at = "index"
  /\ ~ Live(req[p].cid)
  /\ Moves(p, "refused")
  /\ Keeps /\ UNCHANGED memoryVars

\* index_resolved_name: under the query's name and the entity's display name.
Index(p) ==
  LET ask == req[p].ask
  IN  /\ req[p].at = "index"
      /\ Live(req[p].cid)
      /\ \E display \in Titles :
           LET titles == {display} \cup ({ask.title} \ {NoTitle})
           IN  /\ nameIndex' = nameIndex \cup
                     UNION {IndexRows(t, ask.quals, req[p].cid) : t \in titles}
               /\ proved' = proved \cup (titles \X {ask.quals} \X req[p].found)
      /\ Moves(p, IF req[p].sole /\ ask.title # NoTitle THEN "remember" ELSE "resolved")
      /\ UNCHANGED <<owner, anchor, phoneEdge, unique, plural, front, calls, day, limit, settled>>

\* ... and, when it was the hub's only answer, in the cardinality memory.
Remember(p) ==
  LET key == <<req[p].ask.title, req[p].ask.quals>>
  IN  /\ req[p].at = "remember"
      /\ RecordUnique(key, req[p].cid)
      /\ Moves(p, "resolved")
      /\ settled' = IF Live(req[p].cid) THEN settled \cup {key} ELSE settled \ {key}
      /\ UNCHANGED <<owner, anchor, phoneEdge, nameIndex, front, calls, day, limit, proved>>

Handle(p) ==
  \/ CommitIds(p) \/ RefuseIds(p) \/ Look(p) \/ Reserve(p) \/ ReserveFails(p)
  \/ GuardSite(p) \/ SiteFails(p) \/ CommitDomain(p) \/ SiteIsShared(p) \/ SiteIsFound(p)
  \/ SearchLocally(p) \/ SearchIsPlural(p) \/ SearchIsSingular(p)
  \/ Bind(p) \/ Enrich(p) \/ IndexFails(p) \/ Index(p) \/ Remember(p)

-----------------------------------------------------------------------------
\* The process or the request dies: what it wrote stays.
Dies(p) ==
  /\ ~ Resting(p)
  /\ Goes(p, Rest)
  /\ Keeps /\ UNCHANGED memoryVars

\* Ingestion and /resolve commit to the same graph.
Ingest ==
  /\ front = "cli" => Resting(Operator)
  /\ CommitStep
  /\ UNCHANGED <<plural, req>> /\ Keeps

\* The operator's corrections.
Correct ==
  /\ front = "cli"
  /\ Resting(Operator)
  /\ \/ (MergeStep \/ LinkStep) /\ UNCHANGED settled
     \/ SplitStep /\ settled' = {}
  /\ UNCHANGED <<plural, front, req, calls, day, limit, proved>>

NextDay ==
  /\ front = "worker"
  /\ day < MaxDay
  /\ day' = day + 1
  /\ UNCHANGED <<memoryVars, front, req, calls, limit, proved, settled>>

RequestNext ==
  \/ \E p \in Clients : Ask(p) \/ AskAgain(p) \/ RunCommand(p) \/ Handle(p) \/ Dies(p)
  \/ Ingest \/ Correct \/ NextDay

\* No handler hangs, as its calls come back, which the client's timeouts and the database
\* ensure: until it has answered, it takes its next step or dies.
RequestSpec ==
  /\ RequestInit /\ [][RequestNext]_reqVars
  /\ \A p \in Clients : WF_reqVars(Dies(p) \/ Handle(p))

-----------------------------------------------------------------------------
(***************************************************************************)
(* Properties.                                                             *)
(***************************************************************************)

\* What p does past the reservation.
Out(p) ==
  req[p].at \in {"site", "asking_site", "search", "asking", "bind", "enrich", "index",
                 "remember"}

\* Whoever reaches out holds a call of its bucket's day, within the limit and counted,
\* that no other request holds: "a read-then-write pair would let two concurrent
\* requests both observe limit - 1 and both spend", and a limit of zero "denies every
\* bucket" (budget.rs).
BudgetHolds ==
  \A p \in Clients : front = "worker" /\ Out(p) =>
    /\ req[p].used \in 1 .. limit
    /\ req[p].used <= calls[Bucket[p]][req[p].day]
    /\ \A o \in Clients \ {p} :
         Out(o) /\ Bucket[o] = Bucket[p] /\ req[o].day = req[p].day
           => req[o].used # req[p].used

\* A confident answer from memory is one a hub gave: some hub's only answer to this
\* title, under qualifiers this query names too (a bare query names all), is in the
\* answered entity.  Merges, splits and answers for other qualifiers come between ("a
\* wrong confident hit is not [acceptable]", resolve_name_local).
AnswersWereProved ==
  \A t \in Titles, Q \in SUBSET Tokens :
    LET found == Lookup(t, Q)
    IN  found.is = "one" =>
          \E proof \in proved : /\ proof[1] = t
                                /\ owner[proof[3]] = found.cid
                                /\ Q = {} \/ proof[2] \subseteq Q

\* No lookup fails for good on a row that outlived its entity, such as the one a request
\* writes after another has merged that entity away ("a merged/deleted id is never
\* served", store/mod.rs).
NamesNeverPoisoned ==
  \A t \in Titles, Q \in SUBSET Tokens : Lookup(t, Q).is # "error"

\* What a hub has decided is the graph's to answer.
NameSettled(ask) == <<ask.title, ask.quals>> \in settled
SiteSettled(ask) == \E d \in Website(ask) : MemoKey(d) \in settled

Enters(p, at) == req[p].at # at /\ req'[p].at = at

\* Nothing is asked of a hub, and no call is reserved, for what a hub has decided before,
\* whatever was asked, bound or merged since: the lookup before either finds it ("a repeat
\* query costs zero external calls", handlers.rs).
RepeatsAreLocal ==
  [][\A p \in Clients :
       /\ NameSettled(req[p].ask) => ~ Enters(p, "asking")
       /\ SiteSettled(req[p].ask) => ~ Enters(p, "asking_site")
       /\ NameSettled(req[p].ask) \/ SiteSettled(req[p].ask) => ~ Enters(p, "reserve")]_reqVars

\* "Echoing a ref verbatim on a retry resolves" (name_request.rs): a caller who asks
\* again with a candidate of an ambiguous answer gets an entity.
EchoResolves ==
  \A p \in Clients : req[p].echo /\ Resting(p) => req[p].at = "resolved"

\* Every request ends: answered, refused or dead.
RequestsEnd == \A p \in Clients : ~ Resting(p) ~> Resting(p)
=============================================================================
