------------------------------ MODULE D1Commit ------------------------------
(***************************************************************************)
(* commit_record_with_opts (resolve.rs) on Cloudflare D1 (store/d1.rs): no *)
(* transaction around it, one network round trip per statement, and the    *)
(* Worker serves requests concurrently.  One action is one round trip: a   *)
(* single statement, or the batch of merge_into, which D1 runs as a        *)
(* transaction.  What a request has read so far is in its locals, req[p];  *)
(* the loops over keys and owners take them in any order, which covers     *)
(* every order of the record's keys.  A refused record only reads, so a    *)
(* request begins when its record is not refused.                          *)
(***************************************************************************)
EXTENDS CrosswalkEvidence

CONSTANT Requests

VARIABLE req   \* req[p]: the locals of request p

allVars == <<vars, asserted, req>>

NoRecord == [ids |-> {}, phones |-> {}]

\* Of a request: where it is, its record, the keys or owners its loop has left, the
\* owners step 1 found, the target and the rank of its anchor while they compete,
\* the membership last read, and the owner or key or anchor the next write is about.
AtRest(pc, r, target) ==
  [pc |-> pc, rec |-> r, todo |-> {}, idHits |-> {}, afHits |-> {},
   target |-> target, best |-> 0, seen |-> {}, item |-> NoKey]

D1Init == EvidenceInit /\ req = [p \in Requests |-> AtRest("idle", NoRecord, NoCid)]

Running(p) == req[p].pc \notin {"idle", "done", "failed", "crashed"}

\* p continues with the locals s.
Becomes(p, s) == req' = [req EXCEPT ![p] = s]

Goto(s, pc, todo) == [s EXCEPT !.pc = pc, !.todo = todo]
Without(s, x) == [s EXCEPT !.todo = @ \ {x}]
Failed(s) == AtRest("failed", s.rec, NoCid)

-----------------------------------------------------------------------------
(***************************************************************************)
(* Steps 1 and 3: find the owners, choose the target.                      *)
(***************************************************************************)
Begin(p, r) ==
  /\ ~ Running(p)
  /\ \E strict \in Strict : ~ Refused(r, strict)
  /\ Becomes(p, Goto(AtRest("idle", r, NoCid), "find", r.ids))
  /\ Shown(r.ids \cap Identity)
  /\ UNCHANGED vars

\* After the lookups: rank the owners of the identity keys, else of the domains; a
\* record with unknown identity keys looks for an owner to adopt, or mints.
Found(s) ==
  LET bearing == s.rec.ids \cap Identity # {}
  IN  CASE s.todo # {} -> s
        [] s.todo = {} /\ s.idHits # {} -> Goto(s, "rank", s.idHits)
        [] s.todo = {} /\ s.idHits = {} /\ s.afHits = {} -> Goto(s, "mint", {})
        [] s.todo = {} /\ s.idHits = {} /\ s.afHits # {} ->
             Goto(s, IF bearing THEN "adopt" ELSE "rank", s.afHits)

\* Mutant: the lookups stop at the first identity key that is known.
FindFirst(p) ==
  /\ req[p].pc = "find"
  /\ \E k \in req[p].todo :
       LET s == Without(req[p], k) IN
       Becomes(p, Found(IF k \in Identity
         THEN [s EXCEPT !.idHits = Hits({k}), !.todo = IF k \in Known THEN {} ELSE @]
         ELSE [s EXCEPT !.afHits = @ \cup Hits({k})]))
  /\ UNCHANGED <<vars, asserted>>

\* find, the identity keys first.
Find(p) ==
  /\ req[p].pc = "find"
  /\ \E k \in req[p].todo :
       /\ k \in Affiliation => req[p].todo \cap Identity = {}
       /\ LET s == Without(req[p], k) IN
          Becomes(p, Found(IF k \in Identity
            THEN [s EXCEPT !.idHits = @ \cup Hits({k})]
            ELSE [s EXCEPT !.afHits = @ \cup Hits({k})]))
  /\ UNCHANGED <<vars, asserted>>

\* The ranks are read: unite the other identity hits with the winner, then read it.
Ranked(s) ==
  LET others == s.idHits \ {s.target}
  IN  IF s.todo # {} THEN s
      ELSE Goto([s EXCEPT !.best = 0], IF others = {} THEN "members" ELSE "unite", others)

\* pick_winner's get_entity of one candidate, which must be there.
ReadRank(p) ==
  /\ req[p].pc = "rank"
  /\ \E c \in req[p].todo :
       LET s == Without(req[p], c)
           r == Rank[anchor[c]]
           wins == s.target = NoCid \/ r < s.best
                     \/ (r = s.best /\ CidBefore(c, s.target))
       IN  IF ~ Live(c) THEN Becomes(p, Failed(req[p]))
           ELSE Becomes(p, Ranked(IF wins THEN [s EXCEPT !.target = c, !.best = r] ELSE s))
  /\ UNCHANGED <<vars, asserted>>

\* merge_into as one batch: the loser's rows re-pointed, its entity row deleted.  The
\* batch is rolled back by the foreign keys if rows are re-pointed to a dead winner.
Referenced(c) ==
  \/ \E k \in StrongKeys : owner[k] = c
  \/ \E row \in phoneEdge \cup nameIndex : row[2] = c

MergeInto(p, w, l, next) ==
  IF ~ Live(w) /\ Referenced(l)
    THEN Becomes(p, Failed(req[p])) /\ UNCHANGED <<vars, asserted>>
    ELSE /\ Becomes(p, next)
         /\ owner' = Repointed(owner, {l}, w)
         /\ anchor' = [anchor EXCEPT ![l] = NoKey]
         /\ phoneEdge' = RepointedRows(phoneEdge, {l}, w)
         /\ nameIndex' = RepointedRows(nameIndex, {l}, w)
         /\ unique' = Repointed(unique, {l}, w)
         /\ UNCHANGED asserted

\* Mutant: the winner is merged into the others.
UniteSwapped(p) ==
  /\ req[p].pc = "unite"
  /\ \E c \in req[p].todo :
       MergeInto(p, c, req[p].target,
         IF req[p].todo = {c} THEN Goto(req[p], "members", {}) ELSE Without(req[p], c))

\* The owners of the identity keys are one thing.
Unite(p) ==
  /\ req[p].pc = "unite"
  /\ \E c \in req[p].todo :
       MergeInto(p, req[p].target, c,
         IF req[p].todo = {c} THEN Goto(req[p], "members", {}) ELSE Without(req[p], c))

-----------------------------------------------------------------------------
(***************************************************************************)
(* Step 3, the loop over the domains' owners: winner_members is read once  *)
(* before it and again after each merge.                                   *)
(***************************************************************************)
Looped(s) ==
  IF s.todo = {}
    THEN Goto([s EXCEPT !.seen = {}, !.idHits = {}, !.afHits = {}], "attach", s.rec.ids)
    ELSE Goto(s, "compare", s.todo)

ReadWinner(p) ==
  /\ req[p].pc = "members"
  /\ Becomes(p, Looped([req[p] EXCEPT !.seen = Members(req[p].target),
                                      !.todo = req[p].afHits \ {req[p].target}]))
  /\ UNCHANGED <<vars, asserted>>

\* The members of one owner against winner_members.
Compare(p) ==
  /\ req[p].pc = "compare"
  /\ \E c \in req[p].todo :
       LET s == Without(req[p], c)
       IN  Becomes(p, IF IdentityConflict(s.seen, Members(c)) THEN Looped(s)
                      ELSE [s EXCEPT !.pc = "absorb", !.item = c])
  /\ UNCHANGED <<vars, asserted>>

Absorb(p) ==
  /\ req[p].pc = "absorb"
  /\ MergeInto(p, req[p].target, req[p].item,
       [req[p] EXCEPT !.pc = "refresh", !.item = NoKey])

\* Mutant: winner_members is not read again after a merge.
RefreshSkipped(p) ==
  /\ req[p].pc = "refresh"
  /\ Becomes(p, Looped(req[p]))
  /\ UNCHANGED <<vars, asserted>>

Refresh(p) ==
  /\ req[p].pc = "refresh"
  /\ Becomes(p, Looped([req[p] EXCEPT !.seen = Members(req[p].target)]))
  /\ UNCHANGED <<vars, asserted>>

\* A record with unknown identity keys adopts an owner of one of its domains only if
\* that owner holds one of them by now.
Adopt(p) ==
  /\ req[p].pc = "adopt"
  /\ \E c \in req[p].todo :
       LET s == Without(req[p], c)
       IN  Becomes(p, IF IdMembers(c) \cap s.rec.ids # {} THEN Looped(Goto([s EXCEPT !.target = c], "adopt", {}))
                      ELSE IF s.todo = {} THEN Goto(s, "mint", {}) ELSE s)
  /\ UNCHANGED <<vars, asserted>>

\* Mutant: the id is taken from whichever key comes first.
MintAny(p) ==
  /\ req[p].pc = "mint"
  /\ \E a \in req[p].rec.ids :
       /\ anchor' = [anchor EXCEPT ![CidOf(a)] = IF Live(CidOf(a)) THEN @ ELSE a]
       /\ Becomes(p, Looped(Goto([req[p] EXCEPT !.target = CidOf(a)], "mint", {})))
  /\ UNCHANGED <<owner, phoneEdge, nameIndex, unique, asserted>>

\* mint_entity: INSERT OR IGNORE.
Mint(p) ==
  /\ req[p].pc = "mint"
  /\ \E a \in req[p].rec.ids :
       /\ IsEntityAnchor(a, req[p].rec.ids)
       /\ anchor' = [anchor EXCEPT ![CidOf(a)] = IF Live(CidOf(a)) THEN @ ELSE a]
       /\ Becomes(p, Looped(Goto([req[p] EXCEPT !.target = CidOf(a)], "mint", {})))
  /\ UNCHANGED <<owner, phoneEdge, nameIndex, unique, asserted>>

-----------------------------------------------------------------------------
(***************************************************************************)
(* Steps 4 to 6: attach the keys, record the phones, sharpen the anchor.   *)
(***************************************************************************)
Attached(s) ==
  CASE s.todo # {} -> Goto(s, "attach", s.todo)
    [] s.todo = {} /\ s.rec.phones # {} -> Goto(s, "phones", s.rec.phones)
    [] s.todo = {} /\ s.rec.phones = {} -> Goto(s, "reread", {})

\* Mutant: a domain of another owner is taken like an identity key.
FindOwnerStealing(p) ==
  /\ req[p].pc = "attach"
  /\ \E k \in req[p].todo :
       LET s == Without(req[p], k)
       IN  Becomes(p, IF owner[k] = s.target THEN Attached(s)
                      ELSE [s EXCEPT !.pc = "write", !.item = k])
  /\ UNCHANGED <<vars, asserted>>

\* find, before the attach: a key of the target's own is left alone, and so is a
\* domain that has another owner.
FindOwner(p) ==
  /\ req[p].pc = "attach"
  /\ \E k \in req[p].todo :
       LET s == Without(req[p], k)
           kept == owner[k] = s.target \/ (k \in Affiliation /\ k \in Known)
       IN  Becomes(p, IF kept THEN Attached(s) ELSE [s EXCEPT !.pc = "write", !.item = k])
  /\ UNCHANGED <<vars, asserted>>

\* Mutant: no foreign key on nodes.
WriteKeyUnchecked(p) ==
  /\ req[p].pc = "write"
  /\ owner' = [owner EXCEPT ![req[p].item] = req[p].target]
  /\ Becomes(p, Attached([req[p] EXCEPT !.item = NoKey]))
  /\ UNCHANGED <<anchor, phoneEdge, nameIndex, unique, asserted>>

\* attach_with_source: an upsert that re-points the key whoever owns it by now.  The
\* foreign key refuses a target that is gone.
WriteKey(p) ==
  /\ req[p].pc = "write"
  /\ IF Live(req[p].target)
       THEN /\ owner' = [owner EXCEPT ![req[p].item] = req[p].target]
            /\ Becomes(p, Attached([req[p] EXCEPT !.item = NoKey]))
       ELSE Becomes(p, Failed(req[p])) /\ UNCHANGED owner
  /\ UNCHANGED <<anchor, phoneEdge, nameIndex, unique, asserted>>

Phoned(s) == Goto(s, IF s.todo = {} THEN "reread" ELSE "phones", s.todo)

FindPhone(p) ==
  /\ req[p].pc = "phones"
  /\ \E ph \in req[p].todo :
       LET s == Without(req[p], ph)
       IN  Becomes(p, IF <<ph, s.target>> \in phoneEdge THEN Phoned(s)
                      ELSE [s EXCEPT !.pc = "dial", !.item = ph])
  /\ UNCHANGED <<vars, asserted>>

\* add_phone_edge_with_source: INSERT OR IGNORE, which does not ignore a foreign key.
WritePhone(p) ==
  /\ req[p].pc = "dial"
  /\ IF Live(req[p].target)
       THEN /\ phoneEdge' = phoneEdge \cup {<<req[p].item, req[p].target>>}
            /\ Becomes(p, Phoned([req[p] EXCEPT !.item = NoKey]))
       ELSE Becomes(p, Failed(req[p])) /\ UNCHANGED phoneEdge
  /\ UNCHANGED <<owner, anchor, nameIndex, unique, asserted>>

\* Mutant: the anchor is sharpened from the record, not from the whole membership.
RereadRecord(p) ==
  /\ req[p].pc = "reread"
  /\ Becomes(p, [req[p] EXCEPT !.pc = "current", !.seen = req[p].rec.ids])
  /\ UNCHANGED <<vars, asserted>>

\* members() after the attachments.
Reread(p) ==
  /\ req[p].pc = "reread"
  /\ Becomes(p, [req[p] EXCEPT !.pc = "current", !.seen = Members(req[p].target)])
  /\ UNCHANGED <<vars, asserted>>

\* get_entity: "vanished mid-resolve" if the target is gone, else its anchor against
\* the one recomputed from the members.
ReadAnchor(p) ==
  /\ req[p].pc = "current"
  /\ LET s == [req[p] EXCEPT !.seen = {}]
         current == anchor[s.target]
     IN  IF ~ Live(s.target) THEN Becomes(p, Failed(req[p]))
         ELSE \E a \in StrongKeys :
                /\ Sharpens(a, req[p].seen, current)
                /\ Becomes(p, IF a = current THEN Goto(s, "answer", {})
                              ELSE [s EXCEPT !.pc = "anchor", !.item = a])
  /\ UNCHANGED <<vars, asserted>>

\* set_anchor, an UPDATE.
SetAnchor(p) ==
  /\ req[p].pc = "anchor"
  /\ anchor' = IF Live(req[p].target) THEN [anchor EXCEPT ![req[p].target] = req[p].item]
               ELSE anchor
  /\ Becomes(p, [req[p] EXCEPT !.pc = "answer", !.item = NoKey])
  /\ UNCHANGED <<owner, phoneEdge, nameIndex, unique, asserted>>

\* The last get_entity; the answer is the target's canonical id.
Answer(p) ==
  /\ req[p].pc = "answer"
  /\ Becomes(p, IF Live(req[p].target) THEN AtRest("done", req[p].rec, req[p].target)
                ELSE Failed(req[p]))
  /\ UNCHANGED <<vars, asserted>>

Step(p) ==
  \/ Find(p) \/ ReadRank(p) \/ Unite(p)
  \/ ReadWinner(p) \/ Compare(p) \/ Absorb(p) \/ Refresh(p)
  \/ Adopt(p) \/ Mint(p)
  \/ FindOwner(p) \/ WriteKey(p) \/ FindPhone(p) \/ WritePhone(p)
  \/ Reread(p) \/ ReadAnchor(p) \/ SetAnchor(p) \/ Answer(p)

\* The Worker is evicted or its connection fails between two round trips.
Crash(p) ==
  /\ Running(p)
  /\ Becomes(p, AtRest("crashed", req[p].rec, NoCid))
  /\ UNCHANGED <<vars, asserted>>

-----------------------------------------------------------------------------
\* At every statement, wherever a request dies or another one comes between, an entity
\* holds no two identity keys that the evidence does not connect: "A shared Affiliation
\* key (a domain) never merges two entities with disjoint Identity keys" (README.md,
\* Correctness invariants).
EntityGrain == Partition!NoFalseMerge
=============================================================================
