# A verification of sameas

sameas is an identity crosswalk. It is given records that carry external
identifiers of one real-world thing (a Wikidata id, an IMDb id, a place id, a
domain, a phone) and keeps, in a relational store, which identifiers name the
same thing. This directory holds TLA+ models of it, the TLC configurations that
check them and proofs that TLAPS checks.

## The system

| Part | State | Operations | Interacts with |
|---|---|---|---|
| Kind registry, `kind.rs`, `model.rs` | none: a table of kinds, each with a grain (Identity, Affiliation) and a rank | parse, classify | everything |
| Anchor selection, `anchor.rs` | none | `entity_anchor`, `recompute_anchor`, `canonical_id_for` (32-bit FNV-1a) | resolver, corrections |
| Resolver, `resolve.rs` | none of its own | `commit_record_with_opts`, `resolve_id`, `load_entity` | reads and writes the store one statement at a time |
| Corrections, `correct.rs` | none of its own | `link`, `merge`, `split` | store; reached from the command line only |
| Graph store, `store/` | tables `entities`, `nodes`, `phone_edges`, `name_index`, `name_cardinality`, `resolutions` | `merge_into` and `apply_split` are transactions, the rest single statements | SQLite for the CLI, Cloudflare D1 for the Worker |
| Completion, `complete.rs` | per call: the visited pairs of hub and key, hop, new edges | walks the cluster's keys, asks a hub for each, commits what it returns | resolver, hubs |
| Name resolution, `complete.rs` | `name_index`, `name_cardinality` | local lookup, hub search, remember unique or ambiguous | store, hubs, budget |
| Hubs, `hubs/` | none | Wikidata (by id, name, website, class), TMDb, Google Places, Placekey | transport |
| Transport, `transport.rs` | attempt counter | bounded retry on 429, 5xx, send errors | network |
| Normalisation, answers, `normalize.rs`, `json.rs` | none | text to key, key to `ref` and URL | callers, who echo what they are handed |
| Worker, `bin/worker` | table `hub_budget` | `/resolve`, `/resolve/name`, `/entity`, `/ingest`, `/stats` | requests run concurrently over one D1 database |
| Command line, `sameas-cli` | none | every operation, one process, one connection | SQLite |

What makes the behaviour hard:

- the graph is a union-find whose classes carry more state than the union:
  anchors, phone edges and two name tables have to follow every merge and every
  split, and one of the tables has no foreign key;
- a shared domain must not join two things, while an identity-less row that holds
  the domain must converge with the thing it belongs to, whatever the order of
  the requests and of the keys within a record;
- canonical ids are deterministic, so an id can be in use already when it is
  minted or split off: by an older life of the same keys, or by a hash collision;
- on D1 a commit is a sequence of network round trips with no transaction around
  it, and the Worker serves requests concurrently;
- a completion commits what hubs say while it walks the cluster it commits to, and
  may merge away the entity it was asked about;
- names are remembered in two tables under the qualifiers of the query, one of them
  a snapshot, and a wrong confident answer from memory is worse than a miss;
- hub calls cost money: a budget shared by concurrent requests bounds them, and a
  query that was decided once must not be paid for twice;
- a key leaves the system as a ref or a URL and comes back through other functions.

## Modules

| Module | What it models |
|---|---|
| `ExternalKeys` | the typed keys and the pure functions over them: `anchor.rs`, the conflict tests of `resolve.rs` and `correct.rs` |
| `Crosswalk` | the tables and the operations on them: commit, name memory rows, link, merge, split |
| `IdentityPartition` | the abstract specification: what the graph promises about identity keys, as a partition decided by evidence |
| `CrosswalkEvidence` | `Crosswalk` with a history of the evidence, and the refinement mapping to `IdentityPartition` |
| `MCCrosswalk`, `MCEvidence` | small instances of the two |
| `D1Commit` | one commit on D1 as the statements it issues, one network round trip per action, any number of requests at once |
| `SoloCommit`, `MCSolo` | one such request after another, with crashes, and the refinement mapping to `Crosswalk`'s `Commit` |
| `D1Race`, `MCRace` | requests at the same time, then repeated |
| `Retry`, `MCRetry` | a client that repeats a request after any history of others, over `Crosswalk` |
| `Completion`, `MCCompletion` | the walk over a cluster's keys, its hubs and the retrying transport, over `Crosswalk` while others commit |
| `NameMemory` | `name_index` and `name_cardinality` with qualifiers, and the lookup that answers from them, over `Crosswalk` |
| `NameRequest`, `MCNames` | `POST /resolve/name` step by step, the budget, and the command line's name commands, over `NameMemory` |
| `References`, `MCReferences` | a URL or ref read into a key, a home page harvested, a key projected to a URL, and a caller who echoes and respells them |
| `MCRepeats` | what both `Retry` and `References` are about, saying it again, as one instance: an execution is the one client's or the other's |
| `CrosswalkProofs`, `CrosswalkEvidenceProofs`, `IdentityPartitionProofs`, `D1CommitProofs`, `CompletionProofs`, `NameRequestProofs`, `ReferencesProofs`, `RetryProofs` | theorems about the modules they are named after |

`ExternalKeys` is extended by `Crosswalk`; `Crosswalk` by `D1Commit`, `Retry`,
`Completion` and `NameMemory`; `NameMemory` by `NameRequest`. `References` stands alone:
it looks inside the keys that are values everywhere else. The abstract specifications are
`IdentityPartition` (refined by `CrosswalkEvidence`) and `Crosswalk`'s `Commit`
(refined by `SoloCommit`).

### How `Crosswalk` corresponds to the code

A strong key (`kind:value`) is one value; its grain is given by the constants
`Identity` and `Affiliation`, its kind, rank and string order by `Kind`, `Rank`
and `Pos`, its 32-bit hash by `Hash`. A canonical id is the pair of a hash and a
suffix: `<<h, 0>>` is `cx_h`, `<<h, n>>` is the `cx_h_n` a split allocates. The order of
ids is numeric here; the code compares them as strings, which is the same below
`cx_h_10`, and the instances stay there.

| Variable | Table |
|---|---|
| `owner` | `nodes` (key to canonical id) |
| `anchor` | `entities` (canonical id to anchor); `NoKey` is "no row" |
| `phoneEdge` | `phone_edges` |
| `nameIndex` | `name_index` |
| `unique` | the `canonical_id` column of `name_cardinality` |

A name is one value here; `NameMemory` makes it a title with its qualifiers.

Display names, entity types and edge sources are left out: nothing reads them to
decide a write of the columns above. `Commit` is the whole of
`commit_record_with_opts`: the refusals, the choice of the target, the merges,
step 4's attachments, the phone edges and the re-anchoring are one action, since
on the CLI and in ingestion one connection runs it alone (`SoloCommit` shows that
the statements then amount to it). Its loops over owners
are stated by their result. Where a loop's order can be seen (a domain-only
record whose winner has no identity key adopts the first owner that has one) the
choice is left open, which covers every order of the record's keys.

### How `D1Commit` corresponds to the code

`req[p]` holds the locals of one call of `commit_record_with_opts`: its place, the
keys or owners its loop has left (`todo`), `identity_hits`, `affil_hits`, the
target, `winner_members` (`seen`) and the key, owner or anchor of the next write.
An action is one `await` on the store. Actions are named for the statement
(`Find`, `ReadRank`, `Compare`, `WriteKey`, `SetAnchor`); what the code computes
between two statements is in the operator that gives the next locals (`Found`,
`Ranked`, `Looped`, `Attached`). Writes have the effects and the failures of the
SQL: an upsert re-points whoever owns the key by now, an `INSERT OR IGNORE` keeps
the row that is there, an attach to an entity that is gone is refused by the
foreign key, a batch is rolled back as a whole. `enrich_entity` and the reads that
only decorate the answer are left out. A request may die at any statement
(`Crash`), which leaves what it wrote.

What it shows. Alone, the statements implement `Commit` (`ImplementsCommit`): the
one-action model of the other runs is sound for the command line and for
ingestion. Interrupted and repeated at once, they still do. Two findings bound that:

- `crash`: an entity is minted under the id of its identity key before the key is
  attached. A request that dies in between, after its domain was attached, leaves
  a row that the rest of the graph takes for an identity-less one while its id
  still belongs to the key. If another film is merged into it, the next mint of
  the key adopts the row, and two films are one.
- `race_merge`: the same half-made row, seen by a request that runs at the same
  time. It is absorbed as identity-less while its owner attaches the identity key.

Interleaved requests can also take identity keys from each other (find, then
upsert), which leaves evidence missed and keyless rows behind; `RepeatsMend` shows
that repeating the requests joins what belongs together, while the keyless rows
stay.

### How `Completion` corresponds to the code

`job` holds the locals of `complete_committed` (seed, `canonical_id`, hop, the
members read for the hop as `kinds` and `todo`, `visited`, `did_work` as `worked`)
and of the transport call under it (`attempts`, and how many of the dispatch's
`requests` are left). `Start` is the commit of the input; `BeginHop`, `NextKey`,
`EndHop` and `Visit` are the loops and the gates before a dispatch; `SendFails`,
`SendAgain`, `Unusable` and `Harvest` are what can come back; `Load` is the
`load_entity` that ends the call. A hub answers any record its adapter can build
(`MayAnswer`): each echoes the key it was asked about, TMDb names at most one
Wikidata item, a place at most one domain and its phone. The edges and the members
are `Crosswalk`'s, so a harvest is a whole `Commit`, and other requests commit in
between (`Meanwhile`). `added`, `seed` and `sent` are histories for the properties.

What it shows. Whatever hubs answer and others commit: the walk ends, never sends
more than its attempts allow, mints no entity from a hub's answer, leaves no key
unvisited that it brought in, and keeps what it was asked about on one entity. The
finding `complete_fails` is what it does not: the entity it started from may be the
loser of a merge one of its own commits makes, and the load of the old id fails.

`NewKeysAreVisited` is about the keys the completion added itself. A key another
request attaches during the last hop is not visited, and nothing in the code claims
it is.

### How `NameMemory` and `NameRequest` correspond to the code

`Crosswalk`'s name tables are keyed here by a title and a set of qualifiers:
`nameIndex` holds the bare row and one row per qualifier that `index_name` writes,
`unique` and `plural` are the two kinds of `name_cardinality` rows, `plural` with
the candidates as they were when written. A domain's row has a key of its own
(`MemoKey`, `website_memo_key`). `Lookup` is `resolve_name_local` in its order: a
remembered ambiguity, the indexed entities all of whose qualifiers the query names,
an ambiguity among those some qualifier touches, the remembered unique answer, a
miss.

`req[p]` holds the locals of one request's handler. `at` says where it is:

| `at` | Code |
|---|---|
| `ids` | step 1 of the handler: the strict commit of the identifiers, refused or done |
| `look` | step 2a to 2c: the local lookup, the remembered website, the missing secret, the clock |
| `reserve` | `budget::reserve` on the day that was read |
| `site`, `asking_site`, `domain` | `resolve_by_website`: the guard, the hub; the command line's commit of the domain. The website is the first domain of the identifiers in key order (`Website`) |
| `search`, `asking` | `resolve_name`: the lookup again, the hub of the type with its narrowing |
| `bind`, `enrich`, `completing` | the commit of what was found, and its completion |
| `index`, `remember` | the two writes of `index_resolved_name` |

An action is what runs between two awaits that others can get between, with three
exceptions that take several as one: the reads of a lookup (`Look`: the name, then the
website's memory), the reads and the write of an ambiguity (`Plural`), and the inserts of `index_name`
for the query's name and for the entity's display name (`Index`), each idempotent and
removed by nothing here. Completion is at most one hub record in this module. The command line (`front =
"cli"`) calls the same functions one command at a time, without a budget, and
corrects the graph between commands; the Worker (`front = "worker"`) runs any number
of requests and has no corrections. `proved` and `settled` are histories: what hubs
gave as an only answer, and which names and websites a hub has decided.

What it shows. No call of the budget is spent twice or beyond the limit; a confident
answer from memory is one a hub gave for that title under qualifiers the query
names, also after merges and splits; a late row never makes a name fail for good; a
query that was decided asks nothing again; every request ends, answered, refused or dead. The finding
`echo`: the ref of a candidate that is a page is not read back.

Behaviour a reader may not expect, which the model has and no property excludes: the
candidates of a remembered ambiguity are a snapshot and may name ids that are gone
(only their anchors matter to a caller who echoes them); after a split, an anchor
may lead to the other side; the memory's key has no entity type, so a place and an
organization of one title and qualifiers share it; an answer found through the
website is remembered under the name although no name search found it.

### How `References` corresponds to the code

A URL is a record of its parts. Only `specific_url`, `registrable_domain` and the place
id's matcher parse it; `extract_token`, `tmdb`, `yelp` and the other matchers search the
whole text. So `Text(url)` is a sequence of segments, each with the separator before it:
the host, the path, the empty segment of a trailing slash, the query and the fragment. A
segment is a word, a number and a tail: as much as the recognizers tell apart. A host is
spelled as a segment too, since its name may contain one that is looked for
(`notyelp.com`) or, without `www.`, begin like an id (`quora.com`).

`Token` is `extract_token`, `Places` and `After` the searches for `/movie/`, `/tv/` and
`/biz/`, `Mentions` is `contains_host`. `Imdb`, `Qid`, `Tmdb`, `Yelp`, `SpecificUrl` and
`Domain` are the normalizers, `Dedicated` and `Guess` the registry
order of `guess_id_from_url`, `Typed` a record's `kind: url`, `Parse` the request's
reader, `UrlFor` the projection. `Harvest` is the record `DomainResolver` makes of a
home page: its site, what the `sameAs` links are guessed to be, and the *sites* of the
`url` of its JSON-LD and of its canonical link. The caller reads a URL (`Read`,
`ReadTyped`), or a key of a page that has it (`ReadPage`), keeps the ref or the
projected URL (`TakeRef`, `TakeUrl`), writes it with another scheme, `www.`, slash or
fragment (`Respell`) and reads it again.

What it shows. Where fragments hold nothing a recognizer looks for, a caller never ends
up at another key than the one it had first, also for links with such things in the
query or in the host's name; projected URLs read back; a bare site is a domain or nothing, in a page
as well. Texts in which a social network's
host name occurs are never read (`netflix.com` contains `x.com`), so a page stored
by kind is projected to a URL that is ignored when it comes back; `UrlsComeBack`
excepts them. The finding `respelled` is what the whole-text search does to the rest:
the page kind drops the fragment, a trailing slash and `www.`, the dedicated kinds read
them. From the three pages of its instance a caller gets to another key in three ways,
which `tlc -continue` lists:

- `themoviedb.org/tv/7` is a page, with `#/movie/8` it is the film 8: `match_tmdb` looks
  for `/movie/` anywhere (kind.rs:248) and so does `tmdb` (normalize.rs:222);
- `site.com/biz/slug/yelp.com/biz` is a page, with a trailing slash it is `yelp:slug`:
  `match_yelp` finds `yelp.com/biz/` (kind.rs:257), and `yelp` takes the segment
  after the first `/biz/` (normalize.rs:261);
- `www.quora.com/entity/wikidata.org/Q7` is the item Q7, without `www.` it is a page: the
  first token that begins with a Q is then the host, which is no item (normalize.rs:332).

Two more things the model has and no property excludes. A query is part of a page's
identity, but `themoviedb.org/tv/7?back=/movie/8` is read as the film 8 and never as the
page. And `SpecificUrl` drops any port, as the code does (`host_str`), although its
comment speaks of a default one: two services of one host share a key.

## Runs

| Run | Module, configuration | Question |
|---|---|---|
| `evidence` | `MCEvidence`, `MCEvidence.cfg` | Do commits of up to three keys and forced corrections implement the identity partition: is every join and separation one that evidence names, is a key ever taken from an entity that lives on, does every anchor follow the membership, can minting or probing land on another thing's row? |
| `rows` | `MCNames`, `MCNamesRows.cfg` | On the command line, between unforced corrections: do phone and name rows follow merges, do splits forget names, can an entity get two identity keys of a kind, is a name answered only as proved? |
| `repeats` | `MCRepeats`, `MCRepeats.cfg` | What does saying it again do? A repeated request: nothing for a single identifier, nothing from the third commit on for any record, convergence of a domain held by an identity-less row. A reference sent back: does a key come back from its ref and its URL as itself, and only as itself, and does a bare site name one thing? |
| `solo` | `MCSolo`, `MCSolo.cfg` | Do the statements of a commit on D1, run alone, implement the one-action `Commit`, also from what a crash left and repeated; does a request alone ever fail, or merge falsely on the way? |
| `crash` (violation) | `MCSolo`, `MCSoloCrash.cfg` | The same when a request that died is followed by others instead of being repeated |
| `race` | `MCRace`, `MCRace.cfg` | Two interleaved requests: do foreign keys and deterministic ids keep the tables whole and the answers equal, and does repeating mend missed evidence? |
| `race_merge` (violation) | `MCRace`, `MCRaceMerge.cfg` | Two interleaved requests that share a domain: can they merge two things? |
| `names` | `MCNames`, `MCNames.cfg` | Two name requests at once on one budget, hubs that fail or disagree, a merge under way: the budget, the memory, repeats, echoes, and that every request ends |
| `echo` (violation) | `MCNames`, `MCNamesEcho.cfg` | Does a caller who echoes any candidate's ref get an entity? |
| `complete` | `MCCompletion`, `MCCompletion.cfg` | Does a completion end within its bounds, lose nothing and mint nothing, whatever hubs answer and others commit? |
| `complete_fails` (violation) | `MCCompletion`, `MCCompletionFails.cfg` | Can a completion end in an error though nobody else writes? |
| `respelled` (violation) | `MCReferences`, `MCReferencesRespelled.cfg` | The same with a fragment that holds a film's path, a path that ends in `biz`, a host that begins like an id: is a link, spelled differently, still read as the same key? |

Bounds. Keys: a Wikidata id (rank 0), two IMDb ids (unranked, so weaker than a
domain as a merge winner but stronger as an anchor), up to three domains. Two
keys of one kind are what a false merge needs, a third of another kind is what
bridges them, and three domains are what a domain-only record needs to reach an
identity-less winner and two contradicting owners. `MaxProbes = 1` suffix is
enough for a split to find its id taken and to run out. The hash order of the
keys differs from their string order, so ties between winners and ties between
anchors are decided differently. Records are bounded in size only where named
(`SmallRecords`, `PairRecords`, `SoloRecords`). In `evidence`, once an operator has
corrected the graph (`corrected`) it keeps to one domain (`Few`): what a correction
does to several domains it does to each alone, and commits over three domains are
explored without corrections. Two requests are enough for every hazard of `race`
and `names`: each is about one request's read and the other's write.

In `names` there is one title with two qualifiers (`Tokens`), so that a name can be
learned under one, asked under the other and asked bare; two items that share a
website; one bucket, limits of zero and one, and a day that turns once (`MaxDay`):
the last call, the refused call and the call reserved for yesterday. In `rows` the
command line stops asking hubs after learning two things (`MaxLearned`), enough for a
unique and an ambiguous row of one name, or two rows that disagree. In `complete`
there are a film's three ids, a place and a domain, so that every hub and gate is
used, hubs answer any record of up to three keys, the command line takes three hops
and the Worker one, and `MaxAttempts = 3` is the code's value. In `repeats` the reader has
ten hosts, among them a tenant of a site, an address, a host whose name contains
a social network's and one whose name ends in Yelp's, and the paths and queries include each
recognizer's near misses: zeros, a word that begins like an id, a slug with capitals, a
service's name in a path, a film's path and a title's link in a parameter. Its fragment is a
position on a page; `respelled` has the other kind, and only hosts and paths that differ
from those of `repeats` in being read in two ways. The two clients of `repeats` share
nothing and never act in one execution, so its states are those of each alone.

Deadlock is checked except in `race` and `race_merge`, where each request is
made a bounded number of times and then nothing is left to do.

Fairness. Two liveness properties are checked, each under weak fairness of what one
request does on its own. `CompletionEnds` assumes that a completion takes its next
step, `RequestsEnd` that a handler takes its next step or dies. Both are loops
without waiting of their own: every await is a call of the database or of a hub, and
those come back, on the command line because of the client's 15-second timeout, on the
Worker because the platform ends a request whose calls do not. Nothing is assumed of
what comes back, nor that anyone starts, corrects or ingests anything.

## Proofs

`CrosswalkProofs`, for every choice of keys, ranks, records and names:

- `TypeCorrect`: the type invariant. It needs no assumption about hashes.
- `GraphCorrect`: under `HashInjective`, the invariant `GraphInv`, the conjunction
  of `TypeOK`, `NoDanglingRow`, `AnchorIsCurrent` and `MintedKeyIsKnown`. The four
  are inductive together and not alone: a commit keeps `AnchorIsCurrent` because
  the entity it mints has no members yet, which needs that no row points at an
  entity without a row (`NoDanglingRow`); `link` keeps it only because the id it
  mints is free, which is `MintedKeyIsKnown`; that one is kept because an entity
  never loses its last key, which is part of `AnchorIsCurrent`. The argument is in
  one lemma, `AbsorbInv`, about merging a set of entities into a target while
  attaching keys and re-anchoring; commit, merge and link are instances of it.
- `RowsAreLive`, `AnchorsAreCurrent`, `MintedKeysAreKnown`: its parts.
- `KeysStaySingle`: `OneKeyPerKind`, under `HashInjective`, where no correction is
  forced and no record has two identity keys (`SingleRecords`). Both are needed: a
  forced link or merge, and a record whose two identity keys are on two entities, put together what
  the conflict test would have kept apart. `CommitToPure` says what a commit may absorb;
  that nothing minted comes back under a used id is what `GraphInv` is needed for.
- `KeysAreNotStolen`, `RowsAreInherited`, `SplitsForgetNames`: the action properties
  `NoKeyStolen`, `RowsFollowMerges` and `SplitForgetsNames`, under `HashInjective`. They
  rest on one lemma: every step but a name's puts a set of entities into one (`Absorbs`)
  or moves part of one entity to a fresh id (`SplitsOff`), and says nothing else
  (`StepShape`). The invariant is `EntityInv`, the part of `GraphInv` about nodes and
  entities, and `UniqueLive`, which needs it but is not needed by it.

`CrosswalkEvidenceProofs`, under `HashInjective`:

- `ImplementsPartition`: the refinement `RefinesPartition`. In a state of `EntityInv`
  the blocks are the identity keys of the entities, and two lemmas say what happens to
  them: the blocks a set of keys touches become one with it (`BlocksJoin`), or none
  changes (`BlocksStay`). Commit, merge and link are instances, once it is shown that
  whatever a commit absorbs beside the owners of its identity keys has no identity key
  or shares one with them; a split is the other abstract action, or a stutter when all
  identity keys stay on one side.
- `EvidenceDecidesEntities`: `EvidenceDecides`, from the refinement and the abstract
  theorem, not by another induction over the graph.

`IdentityPartitionProofs`: `EvidenceDecidesPartition`, that in the abstract
specification two keys are in one block exactly if evidence connects them.

`D1CommitProofs`, for any keys, records and number of requests, hash collisions
included where `HashInjective` is not named:

- `RacesLeaveNoDanglingRow`: `NoDanglingRow`, for requests whose statements interleave
  in any way. `LocalsInv` says what the locals of a request hold whatever the others
  do, in particular that an owner still to be merged is not the target: a batch that
  merged an entity into itself would leave its keys without a row. With it each
  statement keeps `RowsInv` by itself: a write to a target that is gone is refused by
  the foreign key, a batch that re-points rows to one is rolled back.
- `SoloImplementsCommit`: the refinement `ImplementsCommit`. `SoloInv` says for each
  place of the code what the tables are, given `before`, the tables when the request
  began (`AtFind` to `AtAnswer`): untouched while it reads, the losers so far merged
  into the winner, the keys that had their turn attached. The loop over the domains'
  owners is the part worth reading (`CompareDecides`, `Losers`): what `winner_members`
  has grown to decides about the next owner exactly as `Commit` does at once, with
  the first owner that has identity keys as the only choice the order leaves. Each
  statement has its lemma (`FindStands` to `SetAnchorStands`), and the answer is one
  `Commit` (`AnswerCommits`). `before` need only have no dangling row, so whatever a
  crash leaves is covered.
- `AloneIsAnswered`: `AloneNeverFails`, and `AnswersAreWhole`: `AnsweredIsWhole`, the
  latter for a single client that repeats: with two, another may well commit between
  an answer and a look at it. Both are parts of `SoloInv`.
- `RepeatsKeepGrain`: `EntityGrain` at every statement, under `HashInjective`, for one
  client that repeats a request that died. `GrainInv` adds two parts to `SoloInv`: the
  identity keys of an entity, and those of the owners a request is about to unite, are
  connected by evidence (`OwnersConnected`); and an entity that was minted but does not
  have its key yet is the one the record in hand mints (`MintLeft`), so a repetition
  attaches that key before another record can take the entity for one that only its
  domains bind. Each hypothesis is needed: with another record after a crash
  (`GiveUp`) the run `crash` violates it, with a second client `race_merge` does.
- `OneRecordOneAnswer` and `TwoRequestsAgree`: `SameRecordSameAnswer`, under
  `HashInjective`. All requests with a record aim at the entity of one key, which the
  keys that were resolved before decide: the one `pick_winner` prefers of the record's
  resolved keys that bear on the target, or else the one the record mints (`Goal`).
  `AnswerInv` says that keys move to that entity only, that it is never merged away
  from the goal and its anchor never gets weaker than the goal's rank, however far each
  request is (`TablesAimed`, `LocalsAimed`); so a request that read half of the ranks
  before another one merged or sharpened an anchor still prefers it. The first holds
  for any number of requests with one record; the second for two with any records. With
  a third request that has another record it is false: that one may move the keys
  between the two answers.
- `RepeatedRequestsMend`: `RepeatsMend`, for any number of requests with any records.
  `Alone` says, place by place, what a request knows while nobody else writes, whatever
  the race left: the entities it found are there, so it never fails; the owners of its
  known identity keys are among its hits, then merged into its target, so it adopts
  nobody and its writes take no identity key from another entity (`WriteKeyAlone`);
  hence what earlier repetitions brought together stays together (`AloneJoins`).
  `MendInv` adds that every piece of evidence is a resolved key or the record of a
  request (`Covered`), which is repeated (`Repeating`). TLC checked `MendInv` on the
  instance of the run `race` first.

`CompletionProofs`, for any keys, hub answers, callers, attempt cap and number of hops,
and any commits of others; that a domain is the only affiliation kind is an assumption
of `Completion` (kind.rs):

- `NothingIsMinted`: `HubsMintNothing`. A commit of a record with a known identity key
  mints nothing (`KnownMintsNothing`); the invariant `WalkInv` says that the key a hub
  is asked for is one. It holds with hash collisions too.
- `SendsAreBounded`: `SubrequestsBounded`. `SendInv` counts the sends of the second
  request of a dispatch on top of those of the first; the counter of the model never
  reaches its modulus.
- `SeedIsKept`: `SeedStaysTogether`, under `HashInjective`. Commits keep known keys
  together, and on their entity while that is there (`CommitKeepsTogether`). What makes
  it inductive is that the answered entity, once merged away, never comes back: every
  key its id can be minted from is known (`Settles`, from `MintedKeyIsKnown`).
- `WalkIsComplete`: `NewKeysAreVisited`, under `HashInjective`. The keys the completion
  has added or walks over are on the answered entity while that is there (`HandInv`), so
  the next hop reads them; every hub of an added key was visited for it, is due in this
  hop, or the hop has added something and another follows (`VisitInv`).

`NameRequestProofs`, for any number of clients, buckets, limits and days and whatever
hubs answer:

- `BudgetIsKept`: `BudgetHolds`. The inductive invariant adds that the counters are
  numbers, that the clock is within its bound and that a request that reserves or
  has reserved holds a day of the table. The argument is in two lemmas: a step that
  moves one request and leaves the counters alone keeps the invariant as long as it
  does not get past the reservation from before it (`MovesKeepBudget`); and a grant
  hands out a number larger than any that a request of that bucket and day holds,
  because each of those is at most the counter.

The other theorems of `NameRequestProofs` are about what is remembered and answered, for
any titles and qualifiers, whatever others ingest and the operator corrects between commands, under
`HashInjective`. The invariant `AnswerInv` has a part about the memory (`MemoryInv`) and
one about the requests (`LocalsInv`). Every row and every remembered unique answer
carries its proof: a key that a hub gave as its only answer, still on that entity
(`RowsProved`, `UniqueProved`). A request between two of its steps carries an id with
such a key, or ids and candidates it found. A request that did not move keeps what it
carries because of `Extends`: an id that is there after a step was there before, with
the keys it had. That is where the two fronts differ. The Worker splits nothing, so
each of its ids was minted from a known key (`Minted`), and one that was merged away
is never minted again; a late write for it is refused, and a unique row that says it
is not served. On the command line a split may bring an id back, but there no
unique row outlives its entity (`UniqueLive`).

- `NamesStayServable`: `NamesNeverPoisoned`.
- `MemoryAnswersWhatHubsDid`: `AnswersWereProved`, by what a lookup can return
  (`LookupFacts`).
- `EchoedRefsResolve`: `EchoResolves`, where no key is of the `url` kind (`NoUrlKeys`);
  with one it is false, which is the finding `echo`.
- `RepeatsStayLocal`: `RepeatsAreLocal`, about the step that asks a hub or reserves a
  call. It looks at the memory as it is at that step. Stated with what was remembered
  when the request began it would be false with three clients, as the attempt to
  prove it showed: a name decided for an entity that is merged away meanwhile is
  remembered over the row a request began with, and is asked again.

`RetryProofs`, for any keys, ranks and records and any history before the client's first
request, hash collisions included (nothing here needs `HashInjective`). The invariant is
`RetryInv`: `EntityInv`, what the first commit of a record leaves behind (`Once`: its
keys known, and its identity keys or else all its domains on one entity that has the
phone edges, unless each domain is held by an entity with identity keys), and what the
second does (`Settled`: there is a target that has all there is to attach, and whatever
else holds a domain has identity keys of its own). The second commit is where the two
ways of choosing a target part: by the owner of an identity key (`SecondByIdentity`)
and by the owners of the domains (`SecondByAffiliation`). A commit of a settled record absorbs nothing and finds every row
it would write (`SettledCommit`).

- `RepeatsSettle`: `SettlesByTheSecond`. One commit is not enough: an identity-less row
  that holds a domain is left alone by the commit that mints the record's entity, and
  absorbed by the next.
- `LookupsRepeat`: `LookupWritesNothing`, since a single key is settled by its first
  commit (`LookupSettles`).
- `DomainsConverge`: `DomainConverges`, which is part of `Settled`.

`ReferencesProofs`, for any hosts, paths, queries and fragments (a segment is any separator,
word, number and tail, a path any sequence of them):

- `KeysComeBackFromUrls`: `UrlsComeBack`, with no further hypothesis. The invariant
  `KeysAreKeys` says what the value of each kind looks like once it was read (no `www`, no
  zeros of a TMDb number, no capitals of a slug), which is what the URL of a kind needs to
  come back past the matchers in front of it; `KeysComeBack` is that lemma, kind by kind.
- `KeysStick`: `KeySticks`, from `KeysAreKeys` and `StaysHome`: the link the caller holds
  reads as its first key or as none, however it was respelled
  (`RespelledReadsTheSame`). Two spellings have the same recognized segments at the same
  places (`SamePage`), whatever the query holds. It has three hypotheses, one for each way
  of the run `respelled`, which shows that none can be left out: no fragment has a word a
  recognizer looks for (`FragmentsAreInert`), no path ends in `movie` or `biz`, which a slash would
  make `/movie/` or `/biz/` (`PathsEndClosed`; for `movie` it is stronger than needed), and no host's name begins like an id
  (`HostsAreNoTokens`).
- `BareHostsStayUnbound`: `SitesNameNoThing`, under `FragmentsAreInert`: the code reads
  `imdb.com/#tt7` as the title.

Assumptions on constants, beside the shape of the values: a domain is the only
affiliation kind (`GrainAssumption`, the table of kind.rs), and `NoTitle`, which stands
for a request without a usable name, is neither a title nor a domain's memo key.

Every safety invariant and action property of the passing runs is stated by a theorem,
some under a hypothesis named with it above.
Only model-checked are the two liveness properties, `CompletionEnds` and `RequestsEnd`:
liveness under fairness is out of the prover's reach.

`HashInjective` is a hypothesis of theorems, never an assumption of the model: the
canonical id is a 32-bit hash, so the code does not guarantee it.

## Findings

Five runs end in a violation of something the repository says of itself:

- `crash` and `race_merge`: a shared domain merges two things, through a row that was
  minted but does not have its identity key yet (above, `D1Commit`).
- `complete_fails`: a completion fails although it is documented to be best-effort.
- `echo`: the ref of a candidate that only a URL stands for is ignored.
- `respelled`: a link with another fragment or a trailing slash is another key, a series' link a
  film (above, `References`).

## Not modelled

- Text: normalizing phones, Placekeys, coordinates and names; JSON and HTML; display
  names, confidence scores, hints, logging and output. Keys, titles and qualifiers
  are values.
- What hubs say is an input. Which records an adapter can build is modelled, not how
  it parses them.
- Waiting: backoff, `Retry-After` (which has no cap) and timeouts.
- Hash collisions in the runs. `TypeCorrect` covers them; minting then adopts
  another thing's row, which the id format accepts.
- `apply_split` on D1: no route reaches it.
- Authentication, the router's request parsing, `/entity` (a read), `/stats` and the
  log of resolutions it counts, schema migration, build and deployment.

`PROJECT.json` lists every part with its status.
