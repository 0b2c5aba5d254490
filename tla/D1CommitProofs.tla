--------------------------- MODULE D1CommitProofs ---------------------------
(***************************************************************************)
(* Theorems about commits on D1, one statement at a time: requests that    *)
(* run at the same time (D1Race) and one request after another             *)
(* (SoloCommit), for any keys, records and requests.                       *)
(***************************************************************************)
EXTENDS D1Race, SoloCommit, CrosswalkProofs, WellFoundedInduction

-----------------------------------------------------------------------------
(***************************************************************************)
(* One statement: the tables and the locals of a request.                  *)
(***************************************************************************)

\* The steps after the target is chosen.
HasTarget == {"unite", "members", "compare", "absorb", "refresh", "attach", "write",
              "phones", "dial", "reread", "current", "anchor", "answer"}

Places == HasTarget \cup {"idle", "find", "rank", "adopt", "mint", "done", "failed", "crashed"}

Locals ==
  [pc : Places, rec : AnyRecord, todo : SUBSET (StrongKeys \cup Phones \cup Cids),
   idHits : SUBSET Cids, afHits : SUBSET Cids, target : Cids \cup {NoCid}, best : Nat,
   seen : SUBSET StrongKeys, item : StrongKeys \cup Phones \cup Cids \cup {NoKey}]

\* What the locals of a request hold, whatever the other requests do: the owners it
\* still has to merge are not its target.
LocalOK(s) ==
  /\ s \in Locals
  /\ s.pc \in HasTarget => s.target \in Cids
  /\ s.pc \in {"find", "attach", "write"} => s.todo \subseteq s.rec.ids
  /\ s.pc \in {"rank", "adopt"} => s.todo \subseteq Cids
  /\ s.pc \in {"phones", "dial"} => s.todo \subseteq s.rec.phones
  /\ s.pc \in {"unite", "compare", "absorb", "refresh"} => s.todo \subseteq Cids \ {s.target}
  /\ s.pc = "absorb" => s.item \in Cids \ {s.target}
  /\ s.pc = "write" => s.item \in s.rec.ids
  /\ s.pc = "dial" => s.item \in s.rec.phones
  /\ s.pc = "anchor" => s.item \in StrongKeys

\* Commits touch no name.
NoNames == nameIndex = {} /\ unique = [n \in Names |-> NoCid]

RowsInv == TypeOK /\ NoDanglingRow /\ NoNames

LocalsInv == req \in [Requests -> Locals] /\ \A p \in Requests : LocalOK(req[p])

\* A request at rest has no locals but its record and its answer.
LEMMA AtRestOK ==
  ASSUME NEW pc \in {"idle", "done", "failed", "crashed"}, NEW r \in AnyRecord,
         NEW c \in Cids \cup {NoCid}
  PROVE  LocalOK(AtRest(pc, r, c))
BY DEF LocalOK, Locals, AtRest, HasTarget, Places

\* A request that failed is at rest.
LEMMA FailedOK ==
  ASSUME NEW s \in Locals
  PROVE  LocalOK(Failed(s))
BY AtRestOK DEF Failed, Locals, HasTarget

\* Taking an element from the loop leaves the other locals alone.
LEMMA WithoutOK ==
  ASSUME NEW s, LocalOK(s), NEW x
  PROVE  /\ LocalOK(Without(s, x))
         /\ Without(s, x).todo = s.todo \ {x}
         /\ Without(s, x).pc = s.pc /\ Without(s, x).rec = s.rec
         /\ Without(s, x).target = s.target /\ Without(s, x).item = s.item
         /\ Without(s, x).idHits = s.idHits /\ Without(s, x).afHits = s.afHits
         /\ Without(s, x).best = s.best /\ Without(s, x).seen = s.seen
BY DEF LocalOK, Locals, Without

\* A jump changes the place and the loop.
LEMMA GotoFields ==
  ASSUME NEW s \in Locals, NEW pc \in Places,
         NEW todo \in SUBSET (StrongKeys \cup Phones \cup Cids)
  PROVE  /\ Goto(s, pc, todo) \in Locals
         /\ Goto(s, pc, todo).todo = todo /\ Goto(s, pc, todo).pc = pc
         /\ Goto(s, pc, todo).rec = s.rec
         /\ Goto(s, pc, todo).target = s.target /\ Goto(s, pc, todo).item = s.item
         /\ Goto(s, pc, todo).idHits = s.idHits /\ Goto(s, pc, todo).afHits = s.afHits
         /\ Goto(s, pc, todo).best = s.best /\ Goto(s, pc, todo).seen = s.seen
BY DEF Locals, Goto

\* A jump keeps the locals right if the loop it enters has what it needs.
LEMMA GotoOK ==
  ASSUME NEW s \in Locals, NEW pc \in Places \ {"absorb", "write", "dial", "anchor"},
         NEW todo \in SUBSET (StrongKeys \cup Phones \cup Cids),
         pc \in HasTarget => s.target \in Cids,
         pc \in {"find", "attach"} => todo \subseteq s.rec.ids,
         pc \in {"rank", "adopt"} => todo \subseteq Cids,
         pc = "phones" => todo \subseteq s.rec.phones,
         pc \in {"unite", "compare", "refresh"} => todo \subseteq Cids \ {s.target}
  PROVE  LocalOK(Goto(s, pc, todo))
<1> DEFINE t == Goto(s, pc, todo)
<1>1. /\ t \in Locals /\ t.pc = pc /\ t.todo = todo /\ t.rec = s.rec /\ t.target = s.target
  BY GotoFields
<1> HIDE DEF t
<1>2. LocalOK(t)
  BY <1>1 DEF LocalOK
<1> QED BY <1>2 DEF t

\* The next write of a loop is about x.
LEMMA ItemOK ==
  ASSUME NEW s, LocalOK(s), s.target \in Cids, NEW x,
         NEW pc \in {"absorb", "write", "dial", "anchor"},
         pc = "absorb" => s.todo \subseteq Cids \ {s.target} /\ x \in Cids \ {s.target},
         pc = "write" => s.todo \subseteq s.rec.ids /\ x \in s.rec.ids,
         pc = "dial" => s.todo \subseteq s.rec.phones /\ x \in s.rec.phones,
         pc = "anchor" => x \in StrongKeys
  PROVE  LocalOK([s EXCEPT !.pc = pc, !.item = x])
<1> DEFINE t == [s EXCEPT !.pc = pc, !.item = x]
<1>0. s \in Locals /\ s.rec.ids \subseteq StrongKeys /\ s.rec.phones \subseteq Phones
  BY DEF LocalOK, Locals, AnyRecord
<1>1. pc \in Places /\ x \in StrongKeys \cup Phones \cup Cids
  BY <1>0 DEF Places, HasTarget
<1>2. /\ t \in Locals /\ t.pc = pc /\ t.item = x /\ t.todo = s.todo /\ t.rec = s.rec
      /\ t.target = s.target
  BY <1>0, <1>1 DEF Locals
<1> HIDE DEF t
<1>3. LocalOK(t)
  BY <1>2 DEF LocalOK
<1> QED BY <1>3 DEF t

\* The jumps between the loops keep the locals right: after the lookups,
LEMMA FoundOK ==
  ASSUME NEW s, LocalOK(s), s.pc = "find"
  PROVE  LocalOK(Found(s))
<1>1. s \in Locals /\ s.idHits \subseteq Cids /\ s.afHits \subseteq Cids
  BY DEF LocalOK, Locals
<1>2. LocalOK(Goto(s, "rank", s.idHits)) /\ LocalOK(Goto(s, "rank", s.afHits))
  BY <1>1, GotoOK DEF HasTarget, Places
<1>3. LocalOK(Goto(s, "mint", {})) /\ LocalOK(Goto(s, "adopt", s.afHits))
  BY <1>1, GotoOK DEF HasTarget, Places
<1> QED BY <1>2, <1>3 DEF Found

\* after the ranks,
LEMMA RankedOK ==
  ASSUME NEW s, LocalOK(s), s.target \in Cids
  PROVE  LocalOK(Ranked(s))
<1> DEFINE t == [s EXCEPT !.best = 0]
<1>1. t \in Locals /\ t.target = s.target
  BY DEF LocalOK, Locals
<1>2. s.idHits \ {s.target} \subseteq Cids \ {s.target}
  BY DEF LocalOK, Locals
<1>3. LocalOK(Goto(t, "members", s.idHits \ {s.target}))
  BY <1>1, <1>2, GotoOK DEF HasTarget, Places
<1>4. LocalOK(Goto(t, "unite", s.idHits \ {s.target}))
  BY <1>1, <1>2, GotoOK DEF HasTarget, Places
<1> QED BY <1>3, <1>4 DEF Ranked

\* in the loop over the domains' owners,
LEMMA LoopedOK ==
  ASSUME NEW s \in Locals, s.target \in Cids, s.todo \subseteq Cids \ {s.target}
  PROVE  LocalOK(Looped(s))
<1> DEFINE t == [s EXCEPT !.seen = {}, !.idHits = {}, !.afHits = {}]
<1>1. t \in Locals /\ t.target = s.target /\ t.rec = s.rec
  BY DEF Locals
<1>2. s.rec.ids \subseteq StrongKeys
  BY DEF Locals, AnyRecord
<1>3. LocalOK(Goto(t, "attach", s.rec.ids))
  BY <1>1, <1>2, GotoOK DEF HasTarget, Places
<1>4. LocalOK(Goto(s, "compare", s.todo))
  BY GotoOK DEF HasTarget, Places
<1> QED BY <1>3, <1>4 DEF Looped

\* in the loop over the keys,
LEMMA AttachedOK ==
  ASSUME NEW s \in Locals, s.target \in Cids, s.todo \subseteq s.rec.ids
  PROVE  LocalOK(Attached(s))
<1>1. s.rec.ids \subseteq StrongKeys /\ s.rec.phones \subseteq Phones
  BY DEF Locals, AnyRecord
<1>2. LocalOK(Goto(s, "attach", s.todo))
  BY <1>1, GotoOK DEF HasTarget, Places
<1>3. LocalOK(Goto(s, "phones", s.rec.phones))
  BY <1>1, GotoOK DEF HasTarget, Places
<1>4. LocalOK(Goto(s, "reread", {}))
  BY GotoOK DEF HasTarget, Places
<1> QED BY <1>2, <1>3, <1>4 DEF Attached

\* and in the loop over the phones.
LEMMA PhonedOK ==
  ASSUME NEW s \in Locals, s.target \in Cids, s.todo \subseteq s.rec.phones
  PROVE  LocalOK(Phoned(s))
<1>1. s.rec.phones \subseteq Phones
  BY DEF Locals, AnyRecord
<1>2. LocalOK(Goto(s, "phones", s.todo))
  BY <1>1, GotoOK DEF HasTarget, Places
<1>3. s.todo = {} => LocalOK(Goto(s, "reread", s.todo))
  BY GotoOK DEF HasTarget, Places
<1> QED BY <1>2, <1>3 DEF Phoned

\* The members of an entity are keys.
LEMMA MembersType ==
  ASSUME NEW c
  PROVE  Members(c) \subseteq StrongKeys
BY DEF Members

\* So does reading the members.
LEMMA SeenOK ==
  ASSUME NEW s, LocalOK(s), NEW S \in SUBSET StrongKeys
  PROVE  LET t == [s EXCEPT !.seen = S]
         IN  LocalOK(t) /\ t.todo = s.todo /\ t.target = s.target /\ t.pc = s.pc
BY DEF LocalOK, Locals

\* Where a statement leaves the locals of its request.
LEMMA StepLocals ==
  ASSUME TypeOK, NEW p \in Requests, LocalOK(req[p]), Step(p)
  PROVE  \E s : LocalOK(s) /\ Becomes(p, s)
<1> DEFINE me == req[p]
<1>0. /\ me \in Locals /\ me.rec.ids \subseteq StrongKeys
      /\ me.idHits \subseteq Cids /\ me.afHits \subseteq Cids
  BY DEF LocalOK, Locals, AnyRecord
<1>f. LocalOK(Failed(me))
  BY <1>0, FailedOK
<1>1. CASE Find(p)
  <2>1. PICK k \in me.todo :
          \/ Becomes(p, Found([Without(me, k) EXCEPT !.idHits = @ \cup Hits({k})]))
          \/ Becomes(p, Found([Without(me, k) EXCEPT !.afHits = @ \cup Hits({k})]))
    BY <1>1 DEF Find
  <2> DEFINE s == Without(me, k)
  <2>2. LocalOK(s) /\ s.pc = "find"
    BY <1>1, WithoutOK DEF Find
  <2>3. Hits({k}) \subseteq Cids
    BY HitsType
  <2> HIDE DEF s
  <2>4. /\ LocalOK([s EXCEPT !.idHits = @ \cup Hits({k})])
        /\ LocalOK([s EXCEPT !.afHits = @ \cup Hits({k})])
        /\ [s EXCEPT !.idHits = @ \cup Hits({k})].pc = "find"
        /\ [s EXCEPT !.afHits = @ \cup Hits({k})].pc = "find"
    BY <2>2, <2>3 DEF LocalOK, Locals
  <2> QED BY <2>1, <2>4, FoundOK DEF s
<1>2. CASE ReadRank(p)
  <2>1. PICK c \in me.todo :
          LET s == Without(me, c)
              r == Rank[anchor[c]]
              wins == s.target = NoCid \/ r < s.best
                        \/ (r = s.best /\ CidBefore(c, s.target))
          IN  IF ~ Live(c) THEN Becomes(p, Failed(me))
              ELSE Becomes(p, Ranked(IF wins THEN [s EXCEPT !.target = c, !.best = r] ELSE s))
    BY <1>2 DEF ReadRank
  <2>2. CASE ~ Live(c)
    BY <2>1, <2>2, <1>f
  <2>3. CASE Live(c)
    <3> DEFINE s == Without(me, c)
               t == [s EXCEPT !.target = c, !.best = Rank[anchor[c]]]
    <3>1. LocalOK(s) /\ s.pc = "rank" /\ c \in Cids
      BY <1>2, WithoutOK DEF ReadRank, LocalOK
    <3>2. Rank[anchor[c]] \in Nat
      BY <2>3, <3>1, KeysAssumption DEF TypeOK, Live
    <3>w. \/ Becomes(p, Ranked(t))
          \/ s.target # NoCid /\ Becomes(p, Ranked(s))
      BY <2>1, <2>3
    <3> HIDE DEF s
    <3>3. LocalOK(t) /\ t.target \in Cids
      BY <3>1, <3>2 DEF LocalOK, Locals, HasTarget
    <3>4. s.target # NoCid => s.target \in Cids
      BY <3>1 DEF LocalOK, Locals
    <3> QED BY <3>w, <3>1, <3>3, <3>4, RankedOK
  <2> QED BY <2>2, <2>3
<1>3. CASE Unite(p)
  <2>1. PICK c \in me.todo :
          MergeInto(p, me.target, c,
            IF me.todo = {c} THEN Goto(me, "members", {}) ELSE Without(me, c))
    BY <1>3 DEF Unite
  <2>2. LocalOK(Goto(me, "members", {}))
    BY <1>0, <1>3, GotoOK DEF Unite, LocalOK, HasTarget, Places
  <2> QED BY <2>1, <2>2, <1>f, WithoutOK DEF MergeInto
<1>4. CASE ReadWinner(p)
  <2> DEFINE s == [me EXCEPT !.seen = Members(me.target), !.todo = me.afHits \ {me.target}]
  <2>1. /\ s \in Locals /\ s.target \in Cids /\ s.todo \subseteq Cids \ {s.target}
    BY <1>0, <1>4, MembersType DEF ReadWinner, LocalOK, Locals, HasTarget
  <2> QED BY <2>1, <1>4, LoopedOK DEF ReadWinner
<1>5. CASE Compare(p)
  <2>1. PICK c \in me.todo :
          \/ Becomes(p, Looped(Without(me, c)))
          \/ Becomes(p, [Without(me, c) EXCEPT !.pc = "absorb", !.item = c])
    BY <1>5 DEF Compare
  <2> DEFINE s == Without(me, c)
  <2>2. /\ LocalOK(s) /\ s.todo \subseteq Cids \ {s.target} /\ s.target \in Cids
        /\ c \in Cids \ {s.target}
    BY <1>5, WithoutOK DEF Compare, LocalOK, HasTarget
  <2> HIDE DEF s
  <2>3. LocalOK([s EXCEPT !.pc = "absorb", !.item = c])
    BY <2>2, ItemOK
  <2>4. LocalOK(Looped(s))
    BY <2>2, LoopedOK DEF LocalOK
  <2> QED BY <2>1, <2>3, <2>4 DEF s
<1>6. CASE Absorb(p)
  <2>1. LocalOK([me EXCEPT !.pc = "refresh", !.item = NoKey])
    BY <1>6 DEF Absorb, LocalOK, Locals, HasTarget, Places
  <2> QED BY <2>1, <1>6, <1>f DEF Absorb, MergeInto
<1>7. CASE Refresh(p)
  <2> DEFINE s == [me EXCEPT !.seen = Members(me.target)]
  <2>1. s \in Locals /\ s.target \in Cids /\ s.todo \subseteq Cids \ {s.target}
    BY <1>7, MembersType DEF Refresh, LocalOK, Locals, HasTarget
  <2> QED BY <2>1, <1>7, LoopedOK DEF Refresh
<1>8. CASE Adopt(p)
  <2>1. PICK c \in me.todo :
          \/ Becomes(p, Looped(Goto([Without(me, c) EXCEPT !.target = c], "adopt", {})))
          \/ Becomes(p, Goto(Without(me, c), "mint", {}))
          \/ Becomes(p, Without(me, c))
    BY <1>8 DEF Adopt
  <2> DEFINE s == Without(me, c)
             t == [s EXCEPT !.target = c]
  <2>2. LocalOK(s) /\ c \in Cids
    BY <1>8, WithoutOK DEF Adopt, LocalOK
  <2> HIDE DEF s
  <2>3. t \in Locals /\ t.target = c
    BY <2>2 DEF LocalOK, Locals
  <2>4. LocalOK(Looped(Goto(t, "adopt", {})))
    <3> HIDE DEF t
    <3>1. /\ Goto(t, "adopt", {}) \in Locals /\ Goto(t, "adopt", {}).target = c
          /\ Goto(t, "adopt", {}).todo = {}
      BY <2>3, GotoFields DEF Places
    <3> QED BY <3>1, <2>2, LoopedOK
  <2>5. LocalOK(Goto(s, "mint", {}))
    BY <2>2, GotoOK DEF LocalOK, HasTarget, Places
  <2> QED BY <2>1, <2>2, <2>4, <2>5 DEF s
<1>9. CASE Mint(p)
  <2>1. PICK a \in me.rec.ids :
          Becomes(p, Looped(Goto([me EXCEPT !.target = CidOf(a)], "mint", {})))
    BY <1>9 DEF Mint
  <2> DEFINE t == [me EXCEPT !.target = CidOf(a)]
  <2>2. t \in Locals /\ t.target \in Cids
    BY <1>0, CidOfType DEF Locals
  <2> HIDE DEF t
  <2>3. /\ Goto(t, "mint", {}) \in Locals /\ Goto(t, "mint", {}).target \in Cids
        /\ Goto(t, "mint", {}).todo = {}
    <3>1. "mint" \in Places /\ {} \in SUBSET (StrongKeys \cup Phones \cup Cids)
      BY DEF Places
    <3> QED BY <2>2, <3>1, GotoFields
  <2> QED BY <2>1, <2>3, LoopedOK DEF t
<1>10. CASE FindOwner(p)
  <2>1. PICK k \in me.todo :
          \/ Becomes(p, Attached(Without(me, k)))
          \/ Becomes(p, [Without(me, k) EXCEPT !.pc = "write", !.item = k])
    BY <1>10 DEF FindOwner
  <2> DEFINE s == Without(me, k)
  <2>2. LocalOK(s) /\ s.todo \subseteq s.rec.ids /\ s.target \in Cids /\ k \in s.rec.ids
    BY <1>10, WithoutOK DEF FindOwner, LocalOK, HasTarget
  <2>3. k \in StrongKeys
    BY <1>0, <1>10 DEF FindOwner, LocalOK
  <2> HIDE DEF s
  <2>4. LocalOK([s EXCEPT !.pc = "write", !.item = k])
    BY <2>2, <2>3, ItemOK
  <2>5. LocalOK(Attached(s))
    BY <2>2, AttachedOK DEF LocalOK
  <2> QED BY <2>1, <2>4, <2>5 DEF s
<1>11. CASE WriteKey(p)
  <2> DEFINE s == [me EXCEPT !.item = NoKey]
  <2>1. s \in Locals /\ s.target \in Cids /\ s.todo \subseteq s.rec.ids
    BY <1>11 DEF WriteKey, LocalOK, Locals, HasTarget
  <2> QED BY <2>1, <1>11, <1>f, AttachedOK DEF WriteKey
<1>12. CASE FindPhone(p)
  <2>1. PICK ph \in me.todo :
          \/ Becomes(p, Phoned(Without(me, ph)))
          \/ Becomes(p, [Without(me, ph) EXCEPT !.pc = "dial", !.item = ph])
    BY <1>12 DEF FindPhone
  <2> DEFINE s == Without(me, ph)
  <2>2. LocalOK(s) /\ s.todo \subseteq s.rec.phones /\ s.target \in Cids /\ ph \in s.rec.phones
    BY <1>12, WithoutOK DEF FindPhone, LocalOK, HasTarget
  <2>3. ph \in Phones
    BY <1>0, <1>12 DEF FindPhone, LocalOK, Locals, AnyRecord
  <2> HIDE DEF s
  <2>4. LocalOK([s EXCEPT !.pc = "dial", !.item = ph])
    BY <2>2, <2>3, ItemOK
  <2>5. LocalOK(Phoned(s))
    BY <2>2, PhonedOK DEF LocalOK
  <2> QED BY <2>1, <2>4, <2>5 DEF s
<1>13. CASE WritePhone(p)
  <2> DEFINE s == [me EXCEPT !.item = NoKey]
  <2>1. s \in Locals /\ s.target \in Cids /\ s.todo \subseteq s.rec.phones
    BY <1>13 DEF WritePhone, LocalOK, Locals, HasTarget
  <2> QED BY <2>1, <1>13, <1>f, PhonedOK DEF WritePhone
<1>14. CASE Reread(p)
  <2>1. LocalOK([me EXCEPT !.pc = "current", !.seen = Members(me.target)])
    BY <1>14, MembersType DEF Reread, LocalOK, Locals, HasTarget, Places
  <2> QED BY <2>1, <1>14 DEF Reread
<1>15. CASE ReadAnchor(p)
  <2> DEFINE s == [me EXCEPT !.seen = {}]
  <2>1. \/ Becomes(p, Failed(me))
        \/ Becomes(p, Goto(s, "answer", {}))
        \/ \E a \in StrongKeys : Becomes(p, [s EXCEPT !.pc = "anchor", !.item = a])
    BY <1>15 DEF ReadAnchor
  <2>2. LocalOK(s) /\ s.target \in Cids
    BY <1>15, SeenOK DEF ReadAnchor, LocalOK, HasTarget
  <2> HIDE DEF s
  <2>3. LocalOK(Goto(s, "answer", {}))
    BY <2>2, GotoOK DEF LocalOK, HasTarget, Places
  <2>4. \A a \in StrongKeys : LocalOK([s EXCEPT !.pc = "anchor", !.item = a])
    BY <2>2, ItemOK
  <2> QED BY <2>1, <2>3, <2>4, <1>f
<1>16. CASE SetAnchor(p)
  <2>1. LocalOK([me EXCEPT !.pc = "answer", !.item = NoKey])
    BY <1>16 DEF SetAnchor, LocalOK, Locals, HasTarget, Places
  <2> QED BY <2>1, <1>16 DEF SetAnchor
<1>17. CASE Answer(p)
  <2>1. LocalOK(AtRest("done", me.rec, me.target))
    BY <1>0, AtRestOK DEF Locals
  <2> QED BY <2>1, <1>17, <1>f DEF Answer
<1> QED BY <1>1, <1>2, <1>3, <1>4, <1>5, <1>6, <1>7, <1>8, <1>9, <1>10, <1>11, <1>12,
           <1>13, <1>14, <1>15, <1>16, <1>17 DEF Step

-----------------------------------------------------------------------------
(***************************************************************************)
(* No statement leaves a row that names an entity that is gone.            *)
(***************************************************************************)

\* The batch of merge_into: the foreign keys refuse it when the winner is gone and a
\* row names the loser, and no name does.
LEMMA MergeIntoRows ==
  ASSUME RowsInv, NEW p, NEW w \in Cids, NEW l \in Cids \ {w}, NEW next,
         MergeInto(p, w, l, next)
  PROVE  RowsInv'
<1>0. TypeOK /\ NoDanglingRow /\ NoNames /\ NoCid \notin Cids /\ NoKey \notin StrongKeys
  BY KeysAssumption DEF RowsInv
<1>1. CASE ~ Live(w) /\ Referenced(l)
  BY <1>1 DEF MergeInto, vars, RowsInv, TypeOK, NoDanglingRow, NoNames, Live
<1>2. CASE Live(w) \/ ~ Referenced(l)
  <2>1. /\ owner' = Repointed(owner, {l}, w)
        /\ anchor' = [anchor EXCEPT ![l] = NoKey]
        /\ phoneEdge' = RepointedRows(phoneEdge, {l}, w)
        /\ nameIndex' = RepointedRows(nameIndex, {l}, w)
        /\ unique' = Repointed(unique, {l}, w)
    BY <1>2 DEF MergeInto
  <2>2. NoNames'
    BY <1>0, <2>1 DEF NoNames, Repointed, RepointedRows
  <2>3. TypeOK'
    <3>1. owner' \in [StrongKeys -> Cids \cup {NoCid}]
      BY <1>0, <2>1, RepointedType DEF TypeOK
    <3>2. anchor' \in [Cids -> StrongKeys \cup {NoKey}]
      BY <1>0, <2>1 DEF TypeOK
    <3>3. phoneEdge' \subseteq Phones \X Cids
      BY <1>0, <2>1, RepointedRowsType DEF TypeOK
    <3> QED BY <2>2, <3>1, <3>2, <3>3 DEF TypeOK, NoNames
  <2>4. \A k \in StrongKeys : owner'[k] # NoCid => anchor'[owner'[k]] # NoKey
    <3> SUFFICES ASSUME NEW k \in StrongKeys, owner'[k] # NoCid PROVE anchor'[owner'[k]] # NoKey
      OBVIOUS
    <3>1. owner'[k] = IF owner[k] = l THEN w ELSE owner[k]
      BY <1>0, <2>1 DEF Repointed, TypeOK
    <3>2. CASE owner[k] = l
      <4>1. Live(w)
        BY <1>2, <3>2 DEF Referenced
      <4> QED BY <1>0, <2>1, <3>1, <3>2, <4>1 DEF Live, TypeOK
    <3>3. CASE owner[k] # l
      BY <1>0, <2>1, <3>1, <3>3 DEF Live, TypeOK, NoDanglingRow
    <3> QED BY <3>2, <3>3
  <2>5. \A row \in phoneEdge' : Live(row[2])'
    <3> SUFFICES ASSUME NEW row \in phoneEdge PROVE anchor'[IF row[2] = l THEN w ELSE row[2]] # NoKey
      BY <2>1 DEF RepointedRows, Live
    <3>1. CASE row[2] = l
      <4>1. Live(w)
        BY <1>2, <3>1 DEF Referenced
      <4> QED BY <1>0, <2>1, <3>1, <4>1 DEF Live, TypeOK
    <3>2. CASE row[2] # l
      BY <1>0, <2>1, <3>2 DEF Live, TypeOK, NoDanglingRow
    <3> QED BY <3>1, <3>2
  <2> QED BY <1>0, <2>2, <2>3, <2>4, <2>5 DEF RowsInv, NoDanglingRow, NoNames, Live
<1> QED BY <1>1, <1>2

\* A statement that only reads.
LEMMA ReadsRows ==
  ASSUME RowsInv, UNCHANGED vars
  PROVE  RowsInv'
BY DEF RowsInv, vars, TypeOK, NoDanglingRow, NoNames, Live

\* An entity row that is written, with a key, makes no other entity go.
LEMMA AnchorRows ==
  ASSUME RowsInv, NEW c \in Cids, NEW a \in StrongKeys,
         anchor' = [anchor EXCEPT ![c] = a],
         UNCHANGED <<owner, phoneEdge, nameIndex, unique>>
  PROVE  RowsInv'
<1>1. NoKey \notin StrongKeys
  BY KeysAssumption
<1>2. \A x \in Cids : Live(x) => Live(x)'
  BY <1>1 DEF RowsInv, TypeOK, Live
<1>3. TypeOK'
  BY DEF RowsInv, TypeOK
<1> QED BY <1>2, <1>3 DEF RowsInv, TypeOK, NoDanglingRow, NoNames

\* Each statement of a request keeps the rows right.
LEMMA StepRows ==
  ASSUME RowsInv, NEW p \in Requests, LocalOK(req[p]), Step(p)
  PROVE  RowsInv'
<1> DEFINE me == req[p]
<1>0. /\ TypeOK /\ NoDanglingRow /\ NoNames
      /\ me.rec.ids \subseteq StrongKeys /\ me.rec.phones \subseteq Phones
  BY DEF RowsInv, LocalOK, Locals, AnyRecord
<1>1. CASE Find(p) \/ ReadRank(p) \/ ReadWinner(p) \/ Compare(p) \/ Refresh(p) \/ Adopt(p)
             \/ FindOwner(p) \/ FindPhone(p) \/ Reread(p) \/ ReadAnchor(p) \/ Answer(p)
  <2>1. UNCHANGED vars
    BY <1>1 DEF Find, ReadRank, ReadWinner, Compare, Refresh, Adopt, FindOwner, FindPhone,
                Reread, ReadAnchor, Answer
  <2> QED BY <2>1, ReadsRows
<1>2. CASE Unite(p)
  <2>1. PICK c \in me.todo :
          MergeInto(p, me.target, c,
            IF me.todo = {c} THEN Goto(me, "members", {}) ELSE Without(me, c))
    BY <1>2 DEF Unite
  <2>2. me.target \in Cids /\ c \in Cids \ {me.target}
    BY <1>2 DEF Unite, LocalOK, HasTarget
  <2> QED BY <2>1, <2>2, MergeIntoRows
<1>3. CASE Absorb(p)
  <2>1. me.target \in Cids /\ me.item \in Cids \ {me.target}
    BY <1>3 DEF Absorb, LocalOK, HasTarget
  <2> QED BY <2>1, <1>3, MergeIntoRows DEF Absorb
<1>4. CASE Mint(p)
  <2>1. PICK a \in me.rec.ids :
          anchor' = [anchor EXCEPT ![CidOf(a)] = IF Live(CidOf(a)) THEN @ ELSE a]
    BY <1>4 DEF Mint
  <2>2. a \in StrongKeys /\ CidOf(a) \in Cids
    BY <1>0, CidOfType
  <2>3. UNCHANGED <<owner, phoneEdge, nameIndex, unique>>
    BY <1>4 DEF Mint
  <2>4. CASE Live(CidOf(a))
    <3>1. UNCHANGED vars
      BY <1>0, <2>1, <2>2, <2>3, <2>4 DEF TypeOK, vars
    <3> QED BY <3>1, ReadsRows
  <2>5. CASE ~ Live(CidOf(a))
    BY <2>1, <2>2, <2>3, <2>5, AnchorRows
  <2> QED BY <2>4, <2>5
<1>5. CASE WriteKey(p)
  <2>1. me.target \in Cids /\ me.item \in StrongKeys
    BY <1>0, <1>5 DEF WriteKey, LocalOK, HasTarget
  <2>2. CASE Live(me.target)
    BY <1>0, <1>5, <2>1, <2>2 DEF WriteKey, RowsInv, TypeOK, NoDanglingRow, NoNames, Live
  <2>3. CASE ~ Live(me.target)
    BY <1>5, <2>3, ReadsRows DEF WriteKey, vars
  <2> QED BY <2>2, <2>3
<1>6. CASE WritePhone(p)
  <2>1. me.target \in Cids /\ me.item \in Phones
    BY <1>0, <1>6 DEF WritePhone, LocalOK, HasTarget
  <2>2. CASE Live(me.target)
    BY <1>0, <1>6, <2>1, <2>2 DEF WritePhone, RowsInv, TypeOK, NoDanglingRow, NoNames, Live
  <2>3. CASE ~ Live(me.target)
    BY <1>6, <2>3, ReadsRows DEF WritePhone, vars
  <2> QED BY <2>2, <2>3
<1>7. CASE SetAnchor(p)
  <2>1. me.target \in Cids /\ me.item \in StrongKeys
    BY <1>7 DEF SetAnchor, LocalOK, HasTarget
  <2>2. CASE Live(me.target)
    BY <1>7, <2>1, <2>2, AnchorRows DEF SetAnchor
  <2>3. CASE ~ Live(me.target)
    BY <1>7, <2>3, ReadsRows DEF SetAnchor, vars
  <2> QED BY <2>2, <2>3
<1> QED BY <1>1, <1>2, <1>3, <1>4, <1>5, <1>6, <1>7 DEF Step

\* A request that begins has a record and the lookups of its keys before it.
LEMMA BeginLocals ==
  ASSUME NEW p, NEW r \in AnyRecord, Begin(p, r)
  PROVE  /\ Becomes(p, Goto(AtRest("idle", r, NoCid), "find", r.ids))
         /\ LocalOK(Goto(AtRest("idle", r, NoCid), "find", r.ids))
         /\ UNCHANGED vars
<1> DEFINE s == AtRest("idle", r, NoCid)
<1>1. s \in Locals /\ s.rec = r /\ r.ids \subseteq StrongKeys
  BY AtRestOK DEF LocalOK, AtRest, AnyRecord
<1> HIDE DEF s
<1>2. LocalOK(Goto(s, "find", r.ids))
  BY <1>1, GotoOK DEF HasTarget, Places
<1> QED BY <1>2 DEF Begin, s

\* A request that moves leaves the locals of the others alone.
LEMMA BecomesLocals ==
  ASSUME LocalsInv, NEW p, NEW s, LocalOK(s), Becomes(p, s)
  PROVE  LocalsInv'
<1>1. \A other \in Requests : req'[other] = s \/ req'[other] = req[other]
  BY DEF LocalsInv, Becomes
<1>2. \A other \in Requests : LocalOK(req'[other])
  BY <1>1 DEF LocalsInv
<1>3. req' \in [Requests -> Locals]
  BY DEF LocalsInv, Becomes, LocalOK
<1> QED BY <1>2, <1>3 DEF LocalsInv, LocalOK

\* However the statements of requests interleave, the rows and the locals are right.
LEMMA RaceRows == RaceSpec => [](RowsInv /\ LocalsInv)
<1>1. RaceInit => RowsInv /\ LocalsInv
  <2> SUFFICES ASSUME RaceInit PROVE RowsInv /\ LocalsInv
    OBVIOUS
  <2>1. PICK K \in SUBSET StrongKeys : Resolved(K)
    BY DEF RaceInit
  <2>2. \A k \in StrongKeys : CidOf(k) \in Cids
    BY CidOfType
  <2>3. NoKey \notin StrongKeys /\ NoCid \notin Cids
    BY KeysAssumption
  <2>4. \A k \in K : anchor[CidOf(k)] \in K
    BY <2>1, <2>2 DEF Resolved
  <2>5. TypeOK
    BY <2>1, <2>2 DEF Resolved, RaceInit, TypeOK
  <2>6. NoDanglingRow
    BY <2>1, <2>3, <2>4 DEF Resolved, RaceInit, NoDanglingRow, Live
  <2>7. NoRecord \in AnyRecord
    BY DEF NoRecord, AnyRecord
  <2>8. LocalOK(AtRest("idle", NoRecord, NoCid))
    BY <2>7, AtRestOK
  <2> QED BY <2>5, <2>6, <2>8 DEF RaceInit, RowsInv, NoNames, LocalsInv, LocalOK
<1>2. RowsInv /\ LocalsInv /\ [RaceNext]_<<allVars, repeated>> => (RowsInv /\ LocalsInv)'
  <2> SUFFICES ASSUME RowsInv, LocalsInv, [RaceNext]_<<allVars, repeated>>
               PROVE  (RowsInv /\ LocalsInv)'
    OBVIOUS
  <2>1. ASSUME NEW p \in Requests, NEW r \in AnyRecord, Begin(p, r)
        PROVE  (RowsInv /\ LocalsInv)'
    BY <2>1, BeginLocals, BecomesLocals, ReadsRows
  <2>2. CASE \E p \in Requests : First(p)
    BY <2>1, <2>2, RecordsAssumption DEF First, AnyRecord
  <2>3. CASE \E p \in Requests : Repeat(p)
    BY <2>1, <2>3 DEF Repeat, LocalsInv, Locals
  <2>4. ASSUME NEW p \in Requests, Step(p)
        PROVE  (RowsInv /\ LocalsInv)'
    <3>1. LocalOK(req[p]) /\ TypeOK
      BY DEF LocalsInv, RowsInv
    <3>2. RowsInv'
      BY <2>4, <3>1, StepRows
    <3>3. PICK s : LocalOK(s) /\ Becomes(p, s)
      BY <2>4, <3>1, StepLocals
    <3> QED BY <3>2, <3>3, BecomesLocals
  <2>5. CASE UNCHANGED <<allVars, repeated>>
    BY <2>5, ReadsRows DEF allVars, LocalsInv, LocalOK
  <2> QED BY <2>2, <2>3, <2>4, <2>5 DEF RaceNext
<1> QED BY <1>1, <1>2, PTL DEF RaceSpec

\* Whatever statements of concurrent requests come between, no key and no phone edge
\* names an entity that a request has merged away: the foreign keys refuse the late
\* writes of a request whose target is gone (commit_record_with_opts over d1.rs).
THEOREM RacesLeaveNoDanglingRow == RaceSpec => []NoDanglingRow
<1>1. RowsInv /\ LocalsInv => NoDanglingRow
  BY DEF RowsInv
<1> QED BY <1>1, RaceRows, PTL

-----------------------------------------------------------------------------
(***************************************************************************)
(* One request at a time: where a request stands, seen from the tables at  *)
(* its beginning.                                                          *)
(***************************************************************************)

\* The tables are as they were.
Untouched == owner = before.owner /\ anchor = before.anchor /\ phoneEdge = before.phoneEdge

\* The entities L were merged into w, and nothing else was done.
Merged(w, L) ==
  /\ owner = Repointed(before.owner, L, w)
  /\ anchor = [c \in Cids |-> IF c \in L THEN NoKey ELSE before.anchor[c]]
  /\ phoneEdge = RepointedRows(before.phoneEdge, L, w)

\* The owners among which the winner is picked.
Rivals(s) == IF s.idHits # {} THEN s.idHits ELSE s.afHits

OwnersFound(s) ==
  /\ s.idHits = Atomic!IdHits(s.rec) /\ s.afHits = Atomic!AfHits(s.rec)
  /\ s.idHits = {} => s.rec.ids \cap Identity = {}

WinnerFound(s) == OwnersFound(s) /\ Atomic!IsWinner(s.target, Rivals(s))

\* The identity keys that decide about the owners of domains, first being the owner
\* that a winner without identity keys adopted, else the winner itself.
Grown(s, first) ==
  Atomic!Members(s.target) \cup Atomic!Members(first)
    \cup UNION {Atomic!Members(c) : c \in s.idHits}

\* The owners compared so far, and those of D that go.
Compared(s) == ({s.target} \cup s.afHits) \ s.todo

Losers(s, first, D) ==
  (s.idHits \cup {c \in D : ~ IdentityConflict(Grown(s, first), Atomic!Members(c))})
    \ {s.target}

\* What Commit lets a record choose: the entity w, and the entities L it absorbs.
Chosen(r, w, L) ==
  \/ /\ Atomic!IsWinner(w, Atomic!IdHits(r))
     /\ L = Atomic!AbsorbedByIdentity(r) \ {w}
  \/ /\ r.ids \cap Identity = {}
     /\ Atomic!IsWinner(w, Atomic!AfHits(r))
     /\ \E first \in Atomic!FirstBearing(w, Atomic!AfHits(r)) :
          L = Atomic!AbsorbedByAffiliation(r, w, first) \ {w}
  \/ /\ Atomic!IdHits(r) = {}
     /\ r.ids \cap Identity = {} => Atomic!AfHits(r) = {}
     /\ L = {}
     /\ \E k \in r.ids : IsEntityAnchor(k, r.ids) /\ w = CidOf(k)

\* The target is chosen, the keys A of the record have had their turn, and its phones P.
Placed(s, L, A, P) ==
  LET w == s.target
      merged == Repointed(before.owner, L, w)
  IN  /\ w \notin L
      /\ Chosen(s.rec, w, L)
      /\ owner = [k \in StrongKeys |->
                    IF k \in A \cap Claims(s.rec, merged) THEN w ELSE merged[k]]
      /\ \A c \in Cids \ {w} : anchor[c] = IF c \in L THEN NoKey ELSE before.anchor[c]
      /\ anchor[w] \in StrongKeys
      /\ phoneEdge = RepointedRows(before.phoneEdge, L, w) \cup (P \X {w})


\* Where a request is, statement by statement.
AtFind(s) ==
  /\ Untouched /\ s.target = NoCid
  /\ s.idHits = Atomic!Hits((s.rec.ids \ s.todo) \cap Identity)
  /\ s.afHits = Atomic!Hits((s.rec.ids \ s.todo) \cap Affiliation)

AtRank(s) ==
  /\ Untouched /\ OwnersFound(s) /\ s.todo \subseteq Rivals(s)
  /\ IF s.todo = Rivals(s) THEN s.target = NoCid
     ELSE /\ Atomic!IsWinner(s.target, Rivals(s) \ s.todo)
          /\ s.best = Rank[before.anchor[s.target]]

AtUnite(s) ==
  /\ WinnerFound(s) /\ s.todo \subseteq s.idHits
  /\ Merged(s.target, (s.idHits \ {s.target}) \ s.todo)

AtMembers(s) == WinnerFound(s) /\ Merged(s.target, s.idHits \ {s.target})

AtRefresh(s) ==
  /\ WinnerFound(s) /\ s.todo \subseteq s.afHits
  /\ \E first \in Atomic!FirstBearing(s.target, Compared(s)) :
       Merged(s.target, Losers(s, first, Compared(s)))

AtCompare(s) == AtRefresh(s) /\ s.seen = Members(s.target)

AtAbsorb(s) ==
  /\ WinnerFound(s) /\ s.todo \subseteq s.afHits
  /\ \E first \in Atomic!FirstBearing(s.target, Compared(s)), L \in SUBSET Cids :
       /\ L \cup {s.item} = Losers(s, first, Compared(s))
       /\ Merged(s.target, L)

AtAdopt(s) ==
  /\ Untouched /\ s.idHits = {}
  /\ Atomic!IdHits(s.rec) = {} /\ s.rec.ids \cap Identity # {}

AtMint(s) ==
  /\ Untouched /\ Atomic!IdHits(s.rec) = {}
  /\ s.rec.ids \cap Identity = {} => Atomic!AfHits(s.rec) = {}

AtAttach(s) == \E L \in SUBSET Cids : Placed(s, L, s.rec.ids \ s.todo, {})

AtWrite(s) ==
  \E L \in SUBSET Cids :
    /\ Placed(s, L, s.rec.ids \ (s.todo \cup {s.item}), {})
    /\ s.item \notin s.todo /\ s.item \in Claims(s.rec, Repointed(before.owner, L, s.target))

AtPhones(s) ==
  \E L \in SUBSET Cids : Placed(s, L, s.rec.ids, s.rec.phones \ s.todo)

AtDial(s) ==
  /\ s.item \notin s.todo
  /\ \E L \in SUBSET Cids : Placed(s, L, s.rec.ids, s.rec.phones \ (s.todo \cup {s.item}))

AtReread(s) == \E L \in SUBSET Cids : Placed(s, L, s.rec.ids, s.rec.phones)

AtCurrent(s) == AtReread(s) /\ s.seen = Members(s.target)

AtAnchor(s) == AtReread(s) /\ IsEntityAnchor(s.item, Members(s.target))

AtAnswer(s) == AtReread(s) /\ IsEntityAnchor(anchor[s.target], Members(s.target))

Stands(s) ==
  /\ s.pc = "find" => AtFind(s)
  /\ s.pc = "rank" => AtRank(s)
  /\ s.pc = "unite" => AtUnite(s)
  /\ s.pc = "members" => AtMembers(s)
  /\ s.pc = "compare" => AtCompare(s)
  /\ s.pc = "absorb" => AtAbsorb(s)
  /\ s.pc = "refresh" => AtRefresh(s)
  /\ s.pc = "adopt" => AtAdopt(s)
  /\ s.pc = "mint" => AtMint(s)
  /\ s.pc = "attach" => AtAttach(s)
  /\ s.pc = "write" => AtWrite(s)
  /\ s.pc = "phones" => AtPhones(s)
  /\ s.pc = "dial" => AtDial(s)
  /\ s.pc = "reread" => AtReread(s)
  /\ s.pc = "current" => AtCurrent(s)
  /\ s.pc = "anchor" => AtAnchor(s)
  /\ s.pc = "answer" => AtAnswer(s)

\* It goes on: it neither answered nor failed.
Going == HasTarget \cup {"find", "rank", "adopt", "mint"}

\* A request begins in tables without dangling rows, with a record that is not refused.
Began(s) == s.rec \in Records /\ \E strict \in Strict : ~ Refused(s.rec, strict)

\* The tables at the beginning were in order, and the statements touch no name.
BeforeOK ==
  /\ Atomic!TypeOK /\ Atomic!NoDanglingRow
  /\ before.nameIndex = {} /\ before.unique = [n \in Names |-> NoCid]

SoloInv ==
  /\ RowsInv /\ LocalsInv /\ BeforeOK
  /\ ~ Busy => before = Tables
  /\ \A j, k \in Requests : Running(j) /\ Running(k) => j = k
  /\ \A p \in Requests, s \in Locals : Running(p) /\ req[p] = s => Began(s) /\ Stands(s)
  /\ AloneNeverFails
  /\ (\A j, k \in Requests : j = k) => AnsweredIsWhole

-----------------------------------------------------------------------------
(***************************************************************************)
(* Reading the tables at the beginning.                                    *)
(***************************************************************************)

\* What the tables were before the request has its types.
LEMMA BeforeTables ==
  ASSUME BeforeOK
  PROVE  /\ before.owner \in [StrongKeys -> Cids \cup {NoCid}]
         /\ before.anchor \in [Cids -> StrongKeys \cup {NoKey}]
         /\ before.phoneEdge \subseteq Phones \X Cids
         /\ \A k \in StrongKeys :
              before.owner[k] # NoCid => before.anchor[before.owner[k]] # NoKey
BY DEF BeforeOK, Atomic!TypeOK, Atomic!NoDanglingRow, Atomic!Live, Atomic!Cids, Atomic!StrongKeys,
       Cids, StrongKeys

\* The operators of Crosswalk, over the tables at the beginning.
LEMMA MembersThen ==
  ASSUME NEW c
  PROVE  Atomic!Members(c) = {k \in StrongKeys : before.owner[k] = c}
BY DEF Atomic!Members, Atomic!StrongKeys, StrongKeys

\* What Crosswalk's operators say of those tables: the owners of some keys,
LEMMA HitsThen ==
  ASSUME NEW K
  PROVE  \A c : c \in Atomic!Hits(K) <=>
                  \E k \in K \cap StrongKeys : before.owner[k] # NoCid /\ before.owner[k] = c
BY DEF Atomic!Hits, Atomic!Known, Atomic!StrongKeys, StrongKeys

\* of the record's,
LEMMA OwnersThen ==
  ASSUME NEW r
  PROVE  /\ Atomic!IdHits(r) = Atomic!Hits(r.ids \cap Identity)
         /\ Atomic!AfHits(r) = Atomic!Hits(r.ids \cap Affiliation)
BY DEF Atomic!IdHits, Atomic!AfHits

\* the winner among some,
LEMMA WinnerThen ==
  ASSUME NEW w, NEW C
  PROVE  Atomic!IsWinner(w, C) <=>
           /\ w \in C
           /\ \A c \in C \ {w} :
                \/ Rank[before.anchor[w]] < Rank[before.anchor[c]]
                \/ Rank[before.anchor[w]] = Rank[before.anchor[c]] /\ CidBefore(w, c)
BY DEF Atomic!IsWinner, Atomic!CidBefore, CidBefore

\* the first owner that has identity keys,
LEMMA FirstThen ==
  ASSUME NEW w, NEW C
  PROVE  LET bearing == {c \in C : Atomic!Members(c) \cap Identity # {}}
         IN  Atomic!FirstBearing(w, C) =
               IF Atomic!Members(w) \cap Identity # {} \/ bearing = {} THEN {w} ELSE bearing
BY DEF Atomic!FirstBearing, Atomic!IdMembers

\* and what is absorbed.
LEMMA AbsorbedThen ==
  ASSUME NEW r, NEW w, NEW first
  PROVE  /\ Atomic!AbsorbedByIdentity(r) =
              Atomic!IdHits(r) \cup
                {c \in Atomic!AfHits(r) :
                   ~ IdentityConflict(UNION {Atomic!Members(x) : x \in Atomic!IdHits(r)},
                                      Atomic!Members(c))}
         /\ Atomic!AbsorbedByAffiliation(r, w, first) =
              {c \in Atomic!AfHits(r) :
                 ~ IdentityConflict(Atomic!Members(w) \cup Atomic!Members(first),
                                    Atomic!Members(c))}
BY DEF Atomic!AbsorbedByIdentity, Atomic!AbsorbedByAffiliation, Atomic!IdentityConflict,
       IdentityConflict

\* They stay what they are while the request runs.
LEMMA Frozen ==
  ASSUME UNCHANGED before
  PROVE  /\ \A c : Atomic!Members(c)' = Atomic!Members(c)
         /\ \A K : Atomic!Hits(K)' = Atomic!Hits(K)
         /\ \A r : Atomic!IdHits(r)' = Atomic!IdHits(r)
         /\ \A r : Atomic!AfHits(r)' = Atomic!AfHits(r)
         /\ \A w, C : Atomic!IsWinner(w, C)' <=> Atomic!IsWinner(w, C)
         /\ \A w, C : Atomic!FirstBearing(w, C)' = Atomic!FirstBearing(w, C)
         /\ \A r, w, L : Chosen(r, w, L)' <=> Chosen(r, w, L)
<1>1. \A c : Atomic!Members(c)' = Atomic!Members(c)
  BY DEF Atomic!Members
<1>2. \A K : Atomic!Hits(K)' = Atomic!Hits(K)
  BY DEF Atomic!Hits, Atomic!Known
<1>3. /\ \A r : Atomic!IdHits(r)' = Atomic!IdHits(r)
      /\ \A r : Atomic!AfHits(r)' = Atomic!AfHits(r)
  BY DEF Atomic!IdHits, Atomic!AfHits, Atomic!Hits, Atomic!Known
<1>4. \A w, C : Atomic!IsWinner(w, C)' <=> Atomic!IsWinner(w, C)
  BY DEF Atomic!IsWinner
<1>5. \A w, C : Atomic!FirstBearing(w, C)' = Atomic!FirstBearing(w, C)
  BY DEF Atomic!FirstBearing, Atomic!IdMembers, Atomic!Members
<1>6. \A r, w, L : Chosen(r, w, L)' <=> Chosen(r, w, L)
  BY DEF Chosen, Atomic!IsWinner, Atomic!FirstBearing, Atomic!IdMembers, Atomic!Members,
         Atomic!IdHits, Atomic!AfHits, Atomic!Hits, Atomic!Known, Atomic!AbsorbedByIdentity,
         Atomic!AbsorbedByAffiliation
<1> QED BY <1>1, <1>2, <1>3, <1>4, <1>5, <1>6

\* So a request that only read stands where it stood.
LEMMA StandsFrozen ==
  ASSUME UNCHANGED <<vars, before>>, NEW s, Stands(s)
  PROVE  Stands(s)'
<1>0. UNCHANGED <<owner, anchor, phoneEdge, before>>
  BY DEF vars
<1>1. Untouched' <=> Untouched
  BY <1>0 DEF Untouched
<1>2. \A w, L : Merged(w, L)' <=> Merged(w, L)
  BY <1>0 DEF Merged
<1>3. OwnersFound(s)' <=> OwnersFound(s)
  BY <1>0, Frozen DEF OwnersFound
<1>4. WinnerFound(s)' <=> WinnerFound(s)
  BY <1>0, <1>3, Frozen DEF WinnerFound, Rivals
<1>5. \A first, D : Losers(s, first, D)' = Losers(s, first, D)
  BY <1>0 DEF Losers, Grown, Atomic!Members
<1>6. \A L, A, P : Placed(s, L, A, P)' <=> Placed(s, L, A, P)
  BY <1>0, Frozen DEF Placed, Claims
<1>7. Members(s.target)' = Members(s.target)
  BY <1>0 DEF Members
<1>8. AtFind(s)' <=> AtFind(s)
  BY <1>0, <1>1, Frozen DEF AtFind
<1>9. AtRank(s)' <=> AtRank(s)
  BY <1>0, <1>1, <1>3, Frozen DEF AtRank, Rivals
<1>10. AtUnite(s)' <=> AtUnite(s)
  BY <1>2, <1>4 DEF AtUnite
<1>11. AtMembers(s)' <=> AtMembers(s)
  BY <1>2, <1>4 DEF AtMembers
<1>12. AtRefresh(s)' <=> AtRefresh(s)
  BY <1>0, <1>2, <1>4, <1>5, Frozen DEF AtRefresh, Compared
<1>13. AtCompare(s)' <=> AtCompare(s)
  BY <1>7, <1>12 DEF AtCompare
<1>14. AtAbsorb(s)' <=> AtAbsorb(s)
  BY <1>0, <1>2, <1>4, <1>5, Frozen DEF AtAbsorb, Compared
<1>15. AtAdopt(s)' <=> AtAdopt(s)
  BY <1>0, <1>1, Frozen DEF AtAdopt
<1>16. AtMint(s)' <=> AtMint(s)
  BY <1>0, <1>1, Frozen DEF AtMint
<1>17. AtAttach(s)' <=> AtAttach(s)
  BY <1>6 DEF AtAttach
<1>18. AtWrite(s)' <=> AtWrite(s)
  BY <1>0, <1>6 DEF AtWrite
<1>19. AtPhones(s)' <=> AtPhones(s)
  BY <1>6 DEF AtPhones
<1>20. AtDial(s)' <=> AtDial(s)
  BY <1>6 DEF AtDial
<1>21. AtReread(s)' <=> AtReread(s)
  BY <1>6 DEF AtReread
<1>22. AtCurrent(s)' <=> AtCurrent(s)
  BY <1>7, <1>21 DEF AtCurrent
<1>23. AtAnchor(s)' <=> AtAnchor(s)
  BY <1>7, <1>21 DEF AtAnchor
<1>24. AtAnswer(s)' <=> AtAnswer(s)
  BY <1>0, <1>7, <1>21 DEF AtAnswer
<1> QED BY <1>8, <1>9, <1>10, <1>11, <1>12, <1>13, <1>14, <1>15, <1>16, <1>17, <1>18, <1>19,
           <1>20, <1>21, <1>22, <1>23, <1>24 DEF Stands

-----------------------------------------------------------------------------
(***************************************************************************)
(* The statements that read, one by one.                                   *)
(***************************************************************************)

\* What is known of a request that runs, and what a statement has to show.
Ready(s) == RowsInv /\ BeforeOK /\ LocalOK(s) /\ Began(s) /\ Stands(s)

Arrives(t, s) == t.pc \in Going /\ t.rec = s.rec /\ Stands(t)

\* In untouched tables, reading now is reading then.
LEMMA UntouchedReads ==
  ASSUME Untouched
  PROVE  /\ \A c : Members(c) = Atomic!Members(c)
         /\ \A K : Hits(K) = Atomic!Hits(K)
<1>1. \A c : Members(c) = Atomic!Members(c)
  BY MembersThen DEF Untouched, Members
<1>2. \A K, c : c \in Hits(K) <=>
        \E k \in K \cap StrongKeys : before.owner[k] # NoCid /\ before.owner[k] = c
  BY DEF Untouched, Hits, Known
<1>3. \A K, c : c \in Hits(K) <=> c \in Atomic!Hits(K)
  BY <1>2, HitsThen
<1> QED BY <1>1, <1>3

\* The owners of one more key.
LEMMA HitsGrow ==
  ASSUME NEW K, NEW k
  PROVE  Atomic!Hits(K \cup {k}) = Atomic!Hits(K) \cup Atomic!Hits({k})
<1>1. \A c : c \in Atomic!Hits(K \cup {k}) <=> c \in Atomic!Hits(K) \cup Atomic!Hits({k})
  BY HitsThen
<1> QED BY <1>1

\* The lookups lead to the ranks, to an adoption or to minting.
LEMMA FoundStands ==
  ASSUME NEW s \in Locals, s.pc = "find", AtFind(s)
  PROVE  Arrives(Found(s), s)
<1>0. /\ {} \in SUBSET (StrongKeys \cup Phones \cup Cids)
      /\ s.idHits \in SUBSET (StrongKeys \cup Phones \cup Cids)
      /\ s.afHits \in SUBSET (StrongKeys \cup Phones \cup Cids)
  BY DEF Locals
<1>1. CASE s.todo # {}
  <2>1. Found(s) = s
    BY <1>1 DEF Found
  <2> QED BY <2>1 DEF Arrives, Stands, Going
<1>2. CASE s.todo = {}
  <2>1. s.idHits = Atomic!IdHits(s.rec) /\ s.afHits = Atomic!AfHits(s.rec) /\ Untouched
    <3>1. s.rec.ids \ s.todo = s.rec.ids
      BY <1>2
    <3> QED BY <3>1, OwnersThen DEF AtFind
  <2>2. ASSUME NEW C \in {s.idHits, s.afHits}, C = Rivals(s), Found(s) = Goto(s, "rank", C),
               s.idHits = {} => s.rec.ids \cap Identity = {}
        PROVE  Arrives(Found(s), s)
    <3> DEFINE t == Goto(s, "rank", C)
    <3>1. /\ t.pc = "rank" /\ t.rec = s.rec /\ t.todo = C /\ t.target = s.target
          /\ t.idHits = s.idHits /\ t.afHits = s.afHits
      BY <1>0, GotoFields DEF Places
    <3> HIDE DEF t
    <3>2. AtRank(t)
      BY <2>1, <2>2, <3>1 DEF AtRank, OwnersFound, Rivals, AtFind
    <3> QED BY <2>2, <3>1, <3>2 DEF Arrives, Going, Stands, t
  <2>3. CASE s.idHits # {}
    BY <1>2, <2>2, <2>3 DEF Found, Rivals
  <2>4. CASE s.idHits = {} /\ s.afHits # {} /\ s.rec.ids \cap Identity = {}
    BY <1>2, <2>2, <2>4 DEF Found, Rivals
  <2>5. CASE s.idHits = {} /\ s.afHits # {} /\ s.rec.ids \cap Identity # {}
    <3> DEFINE t == Goto(s, "adopt", s.afHits)
    <3>1. t.pc = "adopt" /\ t.rec = s.rec /\ t.idHits = s.idHits
      BY <1>0, GotoFields DEF Places
    <3>2. Found(s) = t
      BY <1>2, <2>5 DEF Found
    <3> HIDE DEF t
    <3>3. AtAdopt(t)
      BY <2>1, <2>5, <3>1 DEF AtAdopt
    <3> QED BY <3>1, <3>2, <3>3 DEF Arrives, Going, Stands
  <2>6. CASE s.idHits = {} /\ s.afHits = {}
    <3> DEFINE t == Goto(s, "mint", {})
    <3>1. t.pc = "mint" /\ t.rec = s.rec
      BY <1>0, GotoFields DEF Places
    <3>2. Found(s) = t
      BY <1>2, <2>6 DEF Found
    <3> HIDE DEF t
    <3>3. AtMint(t)
      BY <2>1, <2>6, <3>1 DEF AtMint
    <3> QED BY <3>1, <3>2, <3>3 DEF Arrives, Going, Stands
  <2> QED BY <2>3, <2>4, <2>5, <2>6
<1> QED BY <1>1, <1>2

\* A lookup.
LEMMA FindStands ==
  ASSUME NEW p, Ready(req[p]), Find(p)
  PROVE  \E t : Becomes(p, t) /\ Arrives(t, req[p])
<1> DEFINE me == req[p]
<1>1. PICK k \in me.todo :
        LET s == Without(me, k) IN
        Becomes(p, Found(IF k \in Identity
          THEN [s EXCEPT !.idHits = @ \cup Hits({k})]
          ELSE [s EXCEPT !.afHits = @ \cup Hits({k})]))
  BY DEF Find
<1> DEFINE s == Without(me, k)
           t == IF k \in Identity THEN [s EXCEPT !.idHits = @ \cup Hits({k})]
                ELSE [s EXCEPT !.afHits = @ \cup Hits({k})]
<1>2. /\ me \in Locals /\ AtFind(me) /\ me.todo \subseteq me.rec.ids
      /\ me.rec.ids \subseteq StrongKeys /\ me.pc = "find"
  BY DEF Find, Ready, Stands, LocalOK, Locals, AnyRecord
<1>3. LocalOK(s) /\ s.pc = "find" /\ s.rec = me.rec /\ s.todo = me.todo \ {k}
        /\ s.target = me.target /\ s.idHits = me.idHits /\ s.afHits = me.afHits
  BY <1>2, WithoutOK DEF Ready
<1>4. Hits({k}) = Atomic!Hits({k}) /\ Hits({k}) \subseteq Cids
  BY <1>2, UntouchedReads, HitsType DEF AtFind, Ready, RowsInv
<1> HIDE DEF s
<1>5. /\ t \in Locals /\ t.pc = "find" /\ t.rec = me.rec /\ t.todo = me.todo \ {k}
      /\ t.target = me.target
      /\ t.idHits = IF k \in Identity THEN me.idHits \cup Atomic!Hits({k}) ELSE me.idHits
      /\ t.afHits = IF k \in Identity THEN me.afHits ELSE me.afHits \cup Atomic!Hits({k})
  BY <1>3, <1>4 DEF LocalOK, Locals
<1>6. k \in Affiliation <=> k \notin Identity
  BY <1>2, KeysAssumption DEF StrongKeys
<1> HIDE DEF t
<1>7. AtFind(t)
  <2> DEFINE K == (me.rec.ids \ me.todo) \cap Identity
             A == (me.rec.ids \ me.todo) \cap Affiliation
  <2>1. (t.rec.ids \ t.todo) \cap Identity = IF k \in Identity THEN K \cup {k} ELSE K
    BY <1>2, <1>5
  <2>2. (t.rec.ids \ t.todo) \cap Affiliation = IF k \in Identity THEN A ELSE A \cup {k}
    BY <1>2, <1>5, <1>6
  <2>3. me.idHits = Atomic!Hits(K) /\ me.afHits = Atomic!Hits(A) /\ Untouched /\ me.target = NoCid
    BY <1>2 DEF AtFind
  <2> HIDE DEF K, A
  <2>4. t.idHits = Atomic!Hits((t.rec.ids \ t.todo) \cap Identity)
    <3>1. CASE k \in Identity
      <4>1. Atomic!Hits(K \cup {k}) = Atomic!Hits(K) \cup Atomic!Hits({k})
        BY HitsGrow
      <4> QED BY <1>5, <2>1, <2>3, <3>1, <4>1
    <3>2. CASE k \notin Identity
      BY <1>5, <2>1, <2>3, <3>2
    <3> QED BY <3>1, <3>2
  <2>5. t.afHits = Atomic!Hits((t.rec.ids \ t.todo) \cap Affiliation)
    <3>1. CASE k \notin Identity
      <4>1. Atomic!Hits(A \cup {k}) = Atomic!Hits(A) \cup Atomic!Hits({k})
        BY HitsGrow
      <4> QED BY <1>5, <2>2, <2>3, <3>1, <4>1
    <3>2. CASE k \in Identity
      BY <1>5, <2>2, <2>3, <3>2
    <3> QED BY <3>1, <3>2
  <2> QED BY <1>5, <2>3, <2>4, <2>5 DEF AtFind
<1>8. Arrives(Found(t), t)
  BY <1>5, <1>7, FoundStands
<1> QED BY <1>1, <1>5, <1>8 DEF t, s, Arrives

\* An owner found at the beginning was an entity, with an anchor.
LEMMA HitsAlive ==
  ASSUME BeforeOK, NEW K, NEW c \in Atomic!Hits(K)
  PROVE  /\ c \in Cids /\ before.anchor[c] \in StrongKeys
         /\ \E k \in K \cap StrongKeys : before.owner[k] = c
<1>1. PICK k \in K \cap StrongKeys : before.owner[k] # NoCid /\ before.owner[k] = c
  BY HitsThen
<1> QED BY <1>1, BeforeTables

\* Canonical ids are totally ordered.
LEMMA CidOrder ==
  /\ \A b, c, d \in Cids : CidBefore(b, c) /\ CidBefore(c, d) => CidBefore(b, d)
  /\ \A b, c \in Cids : b = c \/ CidBefore(b, c) \/ CidBefore(c, b)
<1>1. \A c \in Cids : c = <<c[1], c[2]>> /\ c[1] \in Nat /\ c[2] \in Nat
  BY KeysAssumption DEF Cids
<1>2. \A c, d \in Cids : c[1] = d[1] /\ c[2] = d[2] => c = d
  BY <1>1
<1> QED BY <1>1, <1>2 DEF CidBefore

\* One more candidate: it wins exactly if it is stronger than the winner so far.
LEMMA WinnerGrows ==
  ASSUME BeforeOK, NEW D \in SUBSET Cids, NEW w, Atomic!IsWinner(w, D), NEW c \in Cids \ D,
         \A x \in D \cup {c} : before.anchor[x] \in StrongKeys
  PROVE  IF \/ Rank[before.anchor[c]] < Rank[before.anchor[w]]
            \/ Rank[before.anchor[c]] = Rank[before.anchor[w]] /\ CidBefore(c, w)
         THEN Atomic!IsWinner(c, D \cup {c}) ELSE Atomic!IsWinner(w, D \cup {c})
<1> DEFINE rk(x) == Rank[before.anchor[x]]
<1>1. \A x \in D \cup {c} : rk(x) \in Nat
  BY KeysAssumption
<1>2. w \in D /\ \A x \in D \ {w} : rk(w) < rk(x) \/ (rk(w) = rk(x) /\ CidBefore(w, x))
  BY WinnerThen
<1> HIDE DEF rk
<1>3. CASE rk(c) < rk(w) \/ (rk(c) = rk(w) /\ CidBefore(c, w))
  <2>1. \A x \in D : rk(c) < rk(x) \/ (rk(c) = rk(x) /\ CidBefore(c, x))
    BY <1>1, <1>2, <1>3, CidOrder
  <2>2. Atomic!IsWinner(c, D \cup {c})
    BY <2>1, WinnerThen DEF rk
  <2> QED BY <1>3, <2>2 DEF rk
<1>4. CASE ~ (rk(c) < rk(w) \/ (rk(c) = rk(w) /\ CidBefore(c, w)))
  <2>1. rk(w) < rk(c) \/ (rk(w) = rk(c) /\ CidBefore(w, c))
    BY <1>1, <1>2, <1>4, CidOrder
  <2>2. Atomic!IsWinner(w, D \cup {c})
    BY <1>2, <2>1, WinnerThen DEF rk
  <2> QED BY <1>4, <2>2 DEF rk
<1> QED BY <1>3, <1>4

\* Nothing merged is nothing changed.
LEMMA MergedNone ==
  ASSUME BeforeOK, Untouched, NEW w
  PROVE  Merged(w, {})
<1>1. /\ before.owner = [k \in StrongKeys |-> before.owner[k]]
      /\ before.anchor = [c \in Cids |-> before.anchor[c]]
      /\ before.phoneEdge \subseteq Phones \X Cids
  BY BeforeTables
<1>2. Repointed(before.owner, {}, w) = before.owner
  BY <1>1 DEF Repointed
<1>3. RepointedRows(before.phoneEdge, {}, w) = before.phoneEdge
  BY <1>1 DEF RepointedRows
<1> QED BY <1>1, <1>2, <1>3 DEF Merged, Untouched

\* The rivals were entities.
LEMMA RivalsAlive ==
  ASSUME BeforeOK, NEW s, OwnersFound(s)
  PROVE  /\ s.idHits \subseteq Cids /\ s.afHits \subseteq Cids /\ Rivals(s) \subseteq Cids
         /\ \A c \in s.idHits \cup s.afHits : before.anchor[c] \in StrongKeys
<1>1. /\ s.idHits = Atomic!Hits(s.rec.ids \cap Identity)
      /\ s.afHits = Atomic!Hits(s.rec.ids \cap Affiliation)
  BY OwnersThen DEF OwnersFound
<1>2. \A c \in s.idHits \cup s.afHits : c \in Cids /\ before.anchor[c] \in StrongKeys
  BY <1>1, HitsAlive
<1> QED BY <1>2 DEF Rivals

\* When the ranks are read the winner is the one of Commit.
LEMMA RankedStands ==
  ASSUME BeforeOK, NEW s \in Locals, s.pc = "rank", Untouched, OwnersFound(s),
         s.todo \subseteq Rivals(s), s.todo # Rivals(s),
         Atomic!IsWinner(s.target, Rivals(s) \ s.todo),
         s.best = Rank[before.anchor[s.target]]
  PROVE  Arrives(Ranked(s), s)
<1>1. CASE s.todo # {}
  BY <1>1 DEF Ranked, Arrives, Going, Stands, AtRank
<1>2. CASE s.todo = {}
  <2> DEFINE u == [s EXCEPT !.best = 0]
             others == s.idHits \ {s.target}
             t == Goto(u, IF others = {} THEN "members" ELSE "unite", others)
  <2>1. /\ u \in Locals /\ u.target = s.target /\ u.rec = s.rec
        /\ u.idHits = s.idHits /\ u.afHits = s.afHits
    BY DEF Locals
  <2>2. others \in SUBSET (StrongKeys \cup Phones \cup Cids)
    BY DEF Locals
  <2>3. /\ t.pc = IF others = {} THEN "members" ELSE "unite"
        /\ t.rec = s.rec /\ t.todo = others /\ t.target = s.target
        /\ t.idHits = s.idHits /\ t.afHits = s.afHits
    <3> HIDE DEF u, others
    <3> QED BY <2>1, <2>2, GotoFields DEF Places, HasTarget
  <2>4. Ranked(s) = t
    BY <1>2 DEF Ranked
  <2> HIDE DEF t
  <2>5. WinnerFound(t)
    <3>1. Rivals(s) \ s.todo = Rivals(s) /\ Rivals(t) = Rivals(s)
      BY <1>2, <2>3 DEF Rivals
    <3> QED BY <2>3, <3>1 DEF WinnerFound, OwnersFound
  <2>6. Merged(t.target, {})
    BY MergedNone
  <2>7. CASE others = {}
    <3>1. t.idHits \ {t.target} = {}
      BY <2>3, <2>7
    <3>2. AtMembers(t)
      BY <2>5, <2>6, <3>1 DEF AtMembers
    <3> QED BY <2>3, <2>4, <2>7, <3>2 DEF Arrives, Going, HasTarget, Stands
  <2>8. CASE others # {}
    <3>1. (t.idHits \ {t.target}) \ t.todo = {} /\ t.todo \subseteq t.idHits
      BY <2>3
    <3>2. AtUnite(t)
      BY <2>5, <2>6, <3>1 DEF AtUnite
    <3> QED BY <2>3, <2>4, <2>8, <3>2 DEF Arrives, Going, HasTarget, Stands
  <2> QED BY <2>7, <2>8
<1> QED BY <1>1, <1>2

\* Reading a rank.
LEMMA ReadRankStands ==
  ASSUME NEW p, Ready(req[p]), ReadRank(p)
  PROVE  \E t : Becomes(p, t) /\ Arrives(t, req[p])
<1> DEFINE me == req[p]
           C == Rivals(me)
<1>1. /\ me \in Locals /\ LocalOK(me) /\ AtRank(me) /\ me.pc = "rank" /\ BeforeOK
      /\ Untouched /\ OwnersFound(me) /\ me.todo \subseteq C
  BY DEF ReadRank, Ready, Stands, LocalOK, AtRank
<1>2. PICK c \in me.todo :
        LET s == Without(me, c)
            r == Rank[anchor[c]]
            wins == s.target = NoCid \/ r < s.best
                      \/ (r = s.best /\ CidBefore(c, s.target))
        IN  IF ~ Live(c) THEN Becomes(p, Failed(me))
            ELSE Becomes(p, Ranked(IF wins THEN [s EXCEPT !.target = c, !.best = r] ELSE s))
  BY DEF ReadRank
<1>3. C \subseteq Cids /\ \A x \in C : before.anchor[x] \in StrongKeys
  BY <1>1, RivalsAlive DEF Rivals
<1>4. c \in Cids /\ Live(c) /\ anchor[c] = before.anchor[c] /\ Rank[anchor[c]] \in Nat
  BY <1>1, <1>3, KeysAssumption DEF Untouched, Live
<1> DEFINE s == Without(me, c)
           r == Rank[anchor[c]]
           wins == s.target = NoCid \/ r < s.best \/ (r = s.best /\ CidBefore(c, s.target))
           t == IF wins THEN [s EXCEPT !.target = c, !.best = r] ELSE s
<1>5. /\ LocalOK(s) /\ s \in Locals /\ s.pc = "rank" /\ s.rec = me.rec /\ s.todo = me.todo \ {c}
      /\ s.target = me.target /\ s.best = me.best
      /\ s.idHits = me.idHits /\ s.afHits = me.afHits
  BY <1>1, WithoutOK DEF LocalOK
<1>6. Becomes(p, Ranked(t))
  BY <1>2, <1>4
<1> HIDE DEF s
<1>7. /\ t \in Locals /\ t.pc = "rank" /\ t.rec = me.rec /\ t.todo = me.todo \ {c}
      /\ t.target = IF wins THEN c ELSE me.target
      /\ t.best = IF wins THEN r ELSE me.best
      /\ t.idHits = me.idHits /\ t.afHits = me.afHits
  <2> HIDE DEF wins
  <2> QED BY <1>4, <1>5 DEF Locals
<1>8. Atomic!IsWinner(t.target, (C \ me.todo) \cup {c}) /\ t.best = Rank[before.anchor[t.target]]
  <2>1. CASE me.todo = C
    <3>1. wins /\ (C \ me.todo) \cup {c} = {c}
      BY <1>1, <1>5, <2>1 DEF AtRank
    <3> HIDE DEF wins, t
    <3>2. Atomic!IsWinner(c, {c})
      BY WinnerThen
    <3> QED BY <1>4, <1>7, <3>1, <3>2
  <2>2. CASE me.todo # C
    <3>1. Atomic!IsWinner(me.target, C \ me.todo) /\ me.best = Rank[before.anchor[me.target]]
      BY <1>1, <2>2 DEF AtRank
    <3>2. me.target \in C \ me.todo /\ NoCid \notin Cids
      BY <3>1, WinnerThen, KeysAssumption
    <3>3. wins <=> \/ Rank[before.anchor[c]] < Rank[before.anchor[me.target]]
                   \/ /\ Rank[before.anchor[c]] = Rank[before.anchor[me.target]]
                      /\ CidBefore(c, me.target)
      BY <1>3, <1>4, <1>5, <3>1, <3>2
    <3>4. IF wins THEN Atomic!IsWinner(c, (C \ me.todo) \cup {c})
          ELSE Atomic!IsWinner(me.target, (C \ me.todo) \cup {c})
      BY <1>1, <1>3, <1>4, <3>1, <3>3, WinnerGrows
    <3> HIDE DEF wins, t
    <3> QED BY <1>4, <1>7, <3>1, <3>4
  <2> QED BY <2>1, <2>2
<1> HIDE DEF t, wins, r
<1>9. Arrives(Ranked(t), t)
  <2>1. Rivals(t) = C /\ OwnersFound(t)
    BY <1>1, <1>7 DEF Rivals, OwnersFound
  <2>2. /\ t.todo \subseteq Rivals(t) /\ t.todo # Rivals(t)
        /\ Rivals(t) \ t.todo = (C \ me.todo) \cup {c}
    BY <1>1, <1>7, <2>1
  <2> QED BY <1>1, <1>7, <1>8, <2>1, <2>2, RankedStands
<1> QED BY <1>6, <1>7, <1>9 DEF Arrives

-----------------------------------------------------------------------------
(***************************************************************************)
(* The loop over the domains' owners.                                      *)
(***************************************************************************)

\* c had an identity key.
Bears(c) == Atomic!Members(c) \cap Identity # {}

\* No key had two owners.
LEMMA OneOwnerThen ==
  ASSUME NEW c, NEW d, NEW k, k \in Atomic!Members(c), k \in Atomic!Members(d)
  PROVE  c = d
BY MembersThen

\* The winner, the owner it adopted first if it had no identity key, and the owners of
\* the record's identity keys.
LEMMA FirstFacts ==
  ASSUME BeforeOK, NEW s, WinnerFound(s), NEW D,
         NEW first \in Atomic!FirstBearing(s.target, D)
  PROVE  /\ \A c \in s.idHits : Bears(c)
         /\ first = s.target \/ (first \in D /\ Bears(first) /\ ~ Bears(s.target))
         /\ s.idHits # {} => s.target \in s.idHits /\ Bears(s.target)
         /\ Bears(s.target) => first = s.target
         /\ ~ Bears(s.target) /\ ~ Bears(first) => \A c \in D : ~ Bears(c)
<1>1. \A c \in s.idHits : Bears(c)
  <2> SUFFICES ASSUME NEW c \in s.idHits PROVE Bears(c)
    OBVIOUS
  <2>1. c \in Atomic!Hits(s.rec.ids \cap Identity)
    BY OwnersThen DEF WinnerFound, OwnersFound
  <2>2. PICK k \in s.rec.ids \cap Identity : k \in StrongKeys /\ before.owner[k] = c
    BY <2>1, HitsAlive
  <2> QED BY <2>2, MembersThen DEF Bears
<1>2. s.idHits # {} => s.target \in s.idHits
  BY WinnerThen DEF WinnerFound, Rivals
<1>3. LET bearing == {c \in D : Bears(c)}
      IN  Atomic!FirstBearing(s.target, D) =
            IF Bears(s.target) \/ bearing = {} THEN {s.target} ELSE bearing
  BY FirstThen DEF Bears
<1> QED BY <1>1, <1>2, <1>3

\* Whom the identity keys grown so far exclude, and whom they do not.
LEMMA LosersAre ==
  ASSUME BeforeOK, NEW s, WinnerFound(s), NEW D,
         NEW first \in Atomic!FirstBearing(s.target, D)
  PROVE  Losers(s, first, D) =
           (s.idHits \cup {c \in D : ~ Bears(c) \/ c = first}) \ {s.target}
<1> DEFINE G == Grown(s, first)
           near == s.idHits \cup {s.target, first}
<1>1. \A k : k \in G <=> \E c \in near : k \in Atomic!Members(c)
  BY DEF Grown
<1>2. ASSUME NEW c PROVE
        IdentityConflict(G, Atomic!Members(c)) <=>
          Bears(c) /\ c \notin near /\ \E d \in near : Bears(d)
  BY <1>1, OneOwnerThen DEF IdentityConflict, Bears
<1> HIDE DEF G
<1>3. \A c \in D : c # s.target =>
        (c \in s.idHits \/ ~ IdentityConflict(G, Atomic!Members(c))
           <=> c \in s.idHits \/ ~ Bears(c) \/ c = first)
  BY <1>2, FirstFacts
<1>4. Losers(s, first, D) =
        (s.idHits \cup {c \in D : ~ IdentityConflict(G, Atomic!Members(c))}) \ {s.target}
  BY DEF Losers, G
<1> QED BY <1>3, <1>4

\* Whose keys are whose after the merges.
LEMMA MergedMembers ==
  ASSUME BeforeOK, NEW w \in Cids, NEW L, w \notin L, Merged(w, L)
  PROVE  /\ \A k : k \in Members(w) <=> \E c \in L \cup {w} : k \in Atomic!Members(c)
         /\ \A c \in Cids \ (L \cup {w}) : Members(c) = Atomic!Members(c)
         /\ \A c \in L : Members(c) = {}
<1>1. \A k \in StrongKeys :
        owner[k] = IF before.owner[k] \in L THEN w ELSE before.owner[k]
  BY BeforeTables DEF Merged, Repointed
<1> QED BY <1>1, MembersThen DEF Members

\* The winner as the loop begins, and who it is.
LEMMA WinnerAlive ==
  ASSUME BeforeOK, NEW s, WinnerFound(s)
  PROVE  s.target \in Cids /\ before.anchor[s.target] \in StrongKeys
<1>1. s.target \in Rivals(s)
  BY WinnerThen DEF WinnerFound
<1> QED BY <1>1, RivalsAlive DEF WinnerFound, Rivals

\* The losers are entities.
LEMMA LosersAlive ==
  ASSUME BeforeOK, NEW s, WinnerFound(s), NEW D, D \subseteq {s.target} \cup s.afHits,
         NEW first
  PROVE  /\ Losers(s, first, D) \in SUBSET Cids
         /\ s.target \notin Losers(s, first, D)
BY RivalsAlive DEF WinnerFound, Losers

\* The loop is done: the losers are what Commit lets the record choose.
LEMMA LoopEnds ==
  ASSUME BeforeOK, NEW s, WinnerFound(s), NEW D, D = {s.target} \cup s.afHits,
         NEW first \in Atomic!FirstBearing(s.target, D)
  PROVE  Chosen(s.rec, s.target, Losers(s, first, D))
<1> DEFINE w == s.target
           r == s.rec
<1>1. s.idHits = Atomic!IdHits(r) /\ s.afHits = Atomic!AfHits(r)
  BY DEF WinnerFound, OwnersFound
<1>2. CASE s.idHits # {}
  <2>1. first = w /\ w \in s.idHits
    BY <1>2, FirstFacts
  <2>2. Atomic!IsWinner(w, Atomic!IdHits(r))
    BY <1>1, <1>2 DEF WinnerFound, Rivals
  <2>3. Grown(s, first) = UNION {Atomic!Members(x) : x \in Atomic!IdHits(r)}
    BY <1>1, <2>1 DEF Grown
  <2>4. Losers(s, first, D) = Atomic!AbsorbedByIdentity(r) \ {w}
    BY <1>1, <2>3, AbsorbedThen DEF Losers
  <2> QED BY <2>2, <2>4 DEF Chosen
<1>3. CASE s.idHits = {}
  <2>1. r.ids \cap Identity = {} /\ Atomic!IsWinner(w, Atomic!AfHits(r))
    BY <1>1, <1>3 DEF WinnerFound, OwnersFound, Rivals
  <2>2. D = Atomic!AfHits(r)
    BY <1>1, <2>1, WinnerThen
  <2>3. Grown(s, first) = Atomic!Members(w) \cup Atomic!Members(first)
    BY <1>3 DEF Grown
  <2>4. Losers(s, first, D) = Atomic!AbsorbedByAffiliation(r, w, first) \ {w}
    <3> DEFINE grown == Atomic!Members(w) \cup Atomic!Members(first)
    <3>1. Atomic!AbsorbedByAffiliation(r, w, first) =
            {c \in D : ~ IdentityConflict(grown, Atomic!Members(c))}
      BY <2>2, AbsorbedThen
    <3>2. Grown(s, first) = grown
      BY <2>3
    <3> HIDE DEF grown
    <3> QED BY <1>3, <3>1, <3>2 DEF Losers
  <2> QED BY <2>1, <2>2, <2>4 DEF Chosen
<1> QED BY <1>2, <1>3

\* The keys and the phones have not had their turn yet.
LEMMA PlacedNone ==
  ASSUME BeforeOK, NEW s, s.target \in Cids, before.anchor[s.target] \in StrongKeys,
         NEW L, s.target \notin L, Chosen(s.rec, s.target, L), Merged(s.target, L)
  PROVE  Placed(s, L, {}, {})
<1>1. Repointed(before.owner, L, s.target) =
        [k \in StrongKeys |-> Repointed(before.owner, L, s.target)[k]]
  BY BeforeTables DEF Repointed
<1> QED BY <1>1 DEF Merged, Placed

\* The loop over the domains' owners goes on or hands over to the attaching.
LEMMA LoopedStands ==
  ASSUME BeforeOK, NEW s \in Locals, AtCompare(s)
  PROVE  Arrives(Looped(s), s)
<1>0. WinnerFound(s) /\ s.rec.ids \subseteq StrongKeys
  BY DEF AtCompare, AtRefresh, Locals, AnyRecord
<1>1. CASE s.todo # {}
  <2> DEFINE t == Goto(s, "compare", s.todo)
  <2>1. Looped(s) = t
    BY <1>1 DEF Looped
  <2>2. s.todo \in SUBSET (StrongKeys \cup Phones \cup Cids)
    BY DEF Locals
  <2>3. /\ t.pc = "compare" /\ t.rec = s.rec /\ t.todo = s.todo /\ t.target = s.target
        /\ t.idHits = s.idHits /\ t.afHits = s.afHits /\ t.seen = s.seen
    BY <2>2, GotoFields DEF Places, HasTarget
  <2> HIDE DEF t
  <2>4. WinnerFound(t)
    BY <1>0, <2>3 DEF WinnerFound, OwnersFound, Rivals
  <2>5. Compared(t) = Compared(s) /\ \A first, D : Losers(t, first, D) = Losers(s, first, D)
    BY <2>3 DEF Compared, Losers, Grown
  <2>6. AtCompare(t)
    BY <2>3, <2>4, <2>5 DEF AtCompare, AtRefresh
  <2> QED BY <2>1, <2>3, <2>6 DEF Arrives, Going, HasTarget, Stands
<1>2. CASE s.todo = {}
  <2> DEFINE u == [s EXCEPT !.seen = {}, !.idHits = {}, !.afHits = {}]
             t == Goto(u, "attach", s.rec.ids)
  <2>1. u \in Locals /\ u.target = s.target /\ u.rec = s.rec
    BY DEF Locals
  <2> HIDE DEF u
  <2>2. t.pc = "attach" /\ t.rec = s.rec /\ t.todo = s.rec.ids /\ t.target = s.target
    BY <1>0, <2>1, GotoFields DEF Places, HasTarget
  <2>3. Looped(s) = t
    BY <1>2 DEF Looped, u
  <2> HIDE DEF t
  <2>4. PICK first \in Atomic!FirstBearing(s.target, Compared(s)) :
          Merged(s.target, Losers(s, first, Compared(s)))
    BY DEF AtCompare, AtRefresh
  <2>5. Compared(s) = {s.target} \cup s.afHits
    BY <1>2 DEF Compared
  <2> DEFINE L == Losers(s, first, Compared(s))
  <2>6. L \in SUBSET Cids /\ s.target \notin L /\ Chosen(s.rec, s.target, L)
    BY <1>0, <2>5, LosersAlive, LoopEnds
  <2>7. Merged(s.target, L)
    BY <2>4
  <2> HIDE DEF L
  <2>8. Placed(t, L, {}, {})
    BY <1>0, <2>2, <2>6, <2>7, WinnerAlive, PlacedNone
  <2>9. AtAttach(t)
    <3>1. t.rec.ids \ t.todo = {}
      BY <2>2
    <3> QED BY <2>6, <2>8, <3>1 DEF AtAttach
  <2> QED BY <2>2, <2>3, <2>9 DEF Arrives, Going, HasTarget, Stands
<1> QED BY <1>1, <1>2

\* Reading the winner's members before the loop.
LEMMA ReadWinnerStands ==
  ASSUME NEW p, Ready(req[p]), ReadWinner(p)
  PROVE  \E t : Becomes(p, t) /\ Arrives(t, req[p])
<1> DEFINE me == req[p]
           s == [me EXCEPT !.seen = Members(me.target), !.todo = me.afHits \ {me.target}]
<1>1. me \in Locals /\ AtMembers(me) /\ BeforeOK /\ WinnerFound(me)
  BY DEF ReadWinner, Ready, Stands, LocalOK, AtMembers
<1>2. /\ s \in Locals /\ s.rec = me.rec /\ s.target = me.target /\ s.seen = Members(me.target)
      /\ s.todo = me.afHits \ {me.target} /\ s.idHits = me.idHits /\ s.afHits = me.afHits
  BY <1>1, MembersType DEF Locals
<1>3. Becomes(p, Looped(s))
  BY DEF ReadWinner
<1> HIDE DEF s
<1>4. WinnerFound(s)
  BY <1>1, <1>2 DEF WinnerFound, OwnersFound, Rivals
<1>5. Compared(s) = {s.target}
  BY <1>2 DEF Compared
<1>6. s.target \in Atomic!FirstBearing(s.target, {s.target})
  BY FirstThen
<1>7. Losers(s, s.target, {s.target}) = s.idHits \ {s.target}
  BY <1>1, <1>4, <1>6, LosersAre
<1>8. AtCompare(s)
  BY <1>1, <1>2, <1>4, <1>5, <1>6, <1>7 DEF AtCompare, AtRefresh, AtMembers
<1> QED BY <1>1, <1>2, <1>3, <1>8, LoopedStands DEF Arrives

\* Reading them again after a merge.
LEMMA RefreshStands ==
  ASSUME NEW p, Ready(req[p]), Refresh(p)
  PROVE  \E t : Becomes(p, t) /\ Arrives(t, req[p])
<1> DEFINE me == req[p]
           s == [me EXCEPT !.seen = Members(me.target)]
<1>1. me \in Locals /\ AtRefresh(me) /\ BeforeOK /\ Becomes(p, Looped(s))
  BY DEF Refresh, Ready, Stands, LocalOK
<1>2. /\ s \in Locals /\ s.rec = me.rec /\ s.target = me.target /\ s.seen = Members(me.target)
      /\ s.todo = me.todo /\ s.idHits = me.idHits /\ s.afHits = me.afHits
  BY <1>1, MembersType DEF Locals
<1> HIDE DEF s
<1>3. AtCompare(s)
  <2>1. WinnerFound(s)
    BY <1>1, <1>2 DEF AtRefresh, WinnerFound, OwnersFound, Rivals
  <2>2. Compared(s) = Compared(me) /\ \A first, D : Losers(s, first, D) = Losers(me, first, D)
    BY <1>2 DEF Compared, Losers, Grown
  <2> QED BY <1>1, <1>2, <2>1, <2>2 DEF AtCompare, AtRefresh
<1> QED BY <1>1, <1>2, <1>3, LoopedStands DEF Arrives

\* One owner of a domain against the winner as it has grown: the answer is what the
\* sets say, and the owner adopted first, if this is the one, excludes the later ones.
LEMMA CompareDecides ==
  ASSUME BeforeOK, NEW s, WinnerFound(s), NEW D, s.target \in D, D \subseteq {s.target} \cup s.afHits,
         NEW first \in Atomic!FirstBearing(s.target, D),
         Merged(s.target, Losers(s, first, D)),
         NEW c \in Cids \ D, c \in s.afHits
  PROVE  IF IdentityConflict(Members(s.target), Members(c))
         THEN /\ first \in Atomic!FirstBearing(s.target, D \cup {c})
              /\ Losers(s, first, D \cup {c}) = Losers(s, first, D)
         ELSE \E next \in Atomic!FirstBearing(s.target, D \cup {c}) :
                Losers(s, next, D \cup {c}) = Losers(s, first, D) \cup {c}
<1> DEFINE w == s.target
           L == Losers(s, first, D)
           E == D \cup {c}
<1>1. /\ \A x \in s.idHits : Bears(x)
      /\ first = w \/ (first \in D /\ Bears(first) /\ ~ Bears(w))
      /\ s.idHits # {} => w \in s.idHits /\ Bears(w)
      /\ Bears(w) => first = w
      /\ ~ Bears(w) /\ ~ Bears(first) => \A x \in D : ~ Bears(x)
  BY FirstFacts
<1>2. L = (s.idHits \cup {x \in D : ~ Bears(x) \/ x = first}) \ {w}
  BY LosersAre
<1>3. \A next \in Atomic!FirstBearing(w, E) :
        Losers(s, next, E) = (s.idHits \cup {x \in E : ~ Bears(x) \/ x = next}) \ {w}
  BY LosersAre
<1>4. Atomic!FirstBearing(w, E) =
        IF Bears(w) \/ {x \in E : Bears(x)} = {} THEN {w} ELSE {x \in E : Bears(x)}
  BY FirstThen DEF Bears
<1>5. w \in Cids /\ w \notin L /\ c # w
  BY WinnerAlive, LosersAlive
<1>6. /\ \A k : k \in Members(w) <=> \E x \in L \cup {w} : k \in Atomic!Members(x)
      /\ c \notin L => Members(c) = Atomic!Members(c)
      /\ c \in L => Members(c) = {}
  BY <1>5, MergedMembers
<1> HIDE DEF L, E
<1>7. Members(w) \cap Identity # {} <=> Bears(w) \/ Bears(first)
  BY <1>1, <1>2, <1>6 DEF Bears
<1>8. c \in L <=> c \in s.idHits
  BY <1>2, <1>5
<1>9. IdentityConflict(Members(w), Members(c)) <=>
        c \notin s.idHits /\ Bears(c) /\ (Bears(w) \/ Bears(first))
  <2>1. CASE c \in L
    BY <1>6, <1>8, <2>1 DEF IdentityConflict
  <2>2. CASE c \notin L
    <3>1. Members(w) \cap Members(c) = {}
      BY <1>5, <1>6, <2>2, OneOwnerThen
    <3> QED BY <1>6, <1>7, <1>8, <2>2, <3>1 DEF IdentityConflict, Bears
  <2> QED BY <2>1, <2>2
<1>10. CASE c \notin s.idHits /\ Bears(c) /\ (Bears(w) \/ Bears(first))
  <2>1. first \in Atomic!FirstBearing(w, E)
    BY <1>1, <1>4, <1>10 DEF E
  <2>2. Losers(s, first, E) = L
    BY <1>1, <1>2, <1>3, <1>5, <1>10, <2>1 DEF E
  <2> QED BY <1>9, <1>10, <2>1, <2>2 DEF L, E
<1>11. CASE c \in s.idHits \/ ~ Bears(c)
  <2>1. first \in Atomic!FirstBearing(w, E)
    BY <1>1, <1>4, <1>11 DEF E
  <2>2. Losers(s, first, E) = L \cup {c}
    BY <1>1, <1>2, <1>3, <1>5, <1>11, <2>1 DEF E
  <2>3. ~ IdentityConflict(Members(w), Members(c))
    BY <1>9, <1>11
  <2> QED BY <2>1, <2>2, <2>3 DEF L, E
<1>12. CASE c \notin s.idHits /\ Bears(c) /\ ~ Bears(w) /\ ~ Bears(first)
  <2>1. c \in Atomic!FirstBearing(w, E)
    BY <1>1, <1>4, <1>12 DEF E
  <2>2. Losers(s, c, E) = L \cup {c}
    BY <1>1, <1>2, <1>3, <1>5, <1>12, <2>1 DEF E
  <2>3. ~ IdentityConflict(Members(w), Members(c))
    BY <1>9, <1>12
  <2> QED BY <2>1, <2>2, <2>3 DEF L, E
<1> QED BY <1>10, <1>11, <1>12

\* Comparing one owner's members.
LEMMA CompareStands ==
  ASSUME NEW p, Ready(req[p]), Compare(p)
  PROVE  \E t : Becomes(p, t) /\ Arrives(t, req[p])
<1> DEFINE me == req[p]
           D == Compared(me)
<1>1. /\ me \in Locals /\ LocalOK(me) /\ AtCompare(me) /\ BeforeOK /\ WinnerFound(me)
      /\ me.todo \subseteq Cids \ {me.target} /\ me.todo \subseteq me.afHits
      /\ me.seen = Members(me.target)
  BY DEF Compare, Ready, Stands, LocalOK, AtCompare, AtRefresh
<1>2. PICK c \in me.todo :
        LET s == Without(me, c)
        IN  Becomes(p, IF IdentityConflict(s.seen, Members(c)) THEN Looped(s)
                       ELSE [s EXCEPT !.pc = "absorb", !.item = c])
  BY DEF Compare
<1> DEFINE s == Without(me, c)
           t == [s EXCEPT !.pc = "absorb", !.item = c]
<1>3. /\ LocalOK(s) /\ s \in Locals /\ s.rec = me.rec /\ s.todo = me.todo \ {c}
      /\ s.target = me.target /\ s.seen = me.seen
      /\ s.idHits = me.idHits /\ s.afHits = me.afHits
  BY <1>1, WithoutOK DEF LocalOK
<1>4. PICK first \in Atomic!FirstBearing(me.target, D) :
        Merged(me.target, Losers(me, first, D))
  BY <1>1 DEF AtCompare, AtRefresh
<1>5. me.target \in D /\ D \subseteq {me.target} \cup me.afHits /\ c \in Cids \ D /\ c \in me.afHits
      /\ Compared(s) = D \cup {c}
  BY <1>1, <1>3 DEF Compared
<1>6. WinnerFound(s) /\ \A next, X : Losers(s, next, X) = Losers(me, next, X)
  BY <1>1, <1>3 DEF WinnerFound, OwnersFound, Rivals, Losers, Grown
<1> HIDE DEF s, D
<1>d. IF IdentityConflict(Members(me.target), Members(c))
      THEN /\ first \in Atomic!FirstBearing(me.target, D \cup {c})
           /\ Losers(me, first, D \cup {c}) = Losers(me, first, D)
      ELSE \E next \in Atomic!FirstBearing(me.target, D \cup {c}) :
             Losers(me, next, D \cup {c}) = Losers(me, first, D) \cup {c}
  <2>1. PICK u : u = me
    OBVIOUS
  <2>2. /\ WinnerFound(u) /\ u.target \in D /\ D \subseteq {u.target} \cup u.afHits
        /\ first \in Atomic!FirstBearing(u.target, D)
        /\ Merged(u.target, Losers(u, first, D))
        /\ c \in Cids \ D /\ c \in u.afHits
    BY <1>1, <1>4, <1>5, <2>1
  <2> HIDE DEF me
  <2>3. IF IdentityConflict(Members(u.target), Members(c))
        THEN /\ first \in Atomic!FirstBearing(u.target, D \cup {c})
             /\ Losers(u, first, D \cup {c}) = Losers(u, first, D)
        ELSE \E next \in Atomic!FirstBearing(u.target, D \cup {c}) :
               Losers(u, next, D \cup {c}) = Losers(u, first, D) \cup {c}
    BY <1>1, <2>2, CompareDecides
  <2> QED BY <2>1, <2>3
<1>7. CASE IdentityConflict(me.seen, Members(c))
  <2>1. /\ first \in Atomic!FirstBearing(me.target, D \cup {c})
        /\ Losers(me, first, D \cup {c}) = Losers(me, first, D)
    BY <1>1, <1>d, <1>7
  <2>2. AtCompare(s)
    BY <1>1, <1>3, <1>4, <1>5, <1>6, <2>1 DEF AtCompare, AtRefresh
  <2>3. Becomes(p, Looped(s))
    BY <1>2, <1>3, <1>7 DEF s
  <2> QED BY <1>1, <1>3, <2>2, <2>3, LoopedStands DEF Arrives
<1>8. CASE ~ IdentityConflict(me.seen, Members(c))
  <2>1. PICK next \in Atomic!FirstBearing(me.target, D \cup {c}) :
          Losers(me, next, D \cup {c}) = Losers(me, first, D) \cup {c}
    BY <1>1, <1>d, <1>8
  <2>2. Becomes(p, t)
    BY <1>2, <1>3, <1>8 DEF s
  <2>3. /\ t.pc = "absorb" /\ t.rec = me.rec /\ t.todo = s.todo /\ t.target = me.target
        /\ t.item = c /\ t.idHits = me.idHits /\ t.afHits = me.afHits
    BY <1>3 DEF Locals
  <2> HIDE DEF t
  <2>4. /\ WinnerFound(t) /\ Compared(t) = D \cup {c}
        /\ \A x, X : Losers(t, x, X) = Losers(me, x, X)
    BY <1>1, <1>3, <1>5, <2>3
       DEF WinnerFound, OwnersFound, Rivals, Losers, Grown, Compared
  <2>5. Losers(me, first, D) \in SUBSET Cids
    BY <1>1, <1>5, LosersAlive
  <2>6. AtAbsorb(t)
    BY <1>1, <1>3, <1>4, <2>1, <2>3, <2>4, <2>5 DEF AtAbsorb
  <2> QED BY <2>2, <2>3, <2>6 DEF Arrives, Going, HasTarget, Stands
<1> QED BY <1>7, <1>8

-----------------------------------------------------------------------------
(***************************************************************************)
(* Adopting, and the statements that read after the target is chosen.      *)
(***************************************************************************)

\* No owner of a domain holds an identity key of the record, as nobody did at the
\* lookups: one request alone adopts no entity, and mints.
LEMMA AdoptStands ==
  ASSUME NEW p, Ready(req[p]), Adopt(p)
  PROVE  \E t : Becomes(p, t) /\ Arrives(t, req[p])
<1> DEFINE me == req[p]
<1>1. /\ me \in Locals /\ LocalOK(me) /\ AtAdopt(me) /\ BeforeOK /\ me.pc = "adopt"
      /\ me.todo \subseteq Cids /\ me.rec.ids \subseteq StrongKeys
  BY DEF Adopt, Ready, Stands, LocalOK, Locals, AnyRecord
<1>2. PICK c \in me.todo :
        LET s == Without(me, c)
        IN  Becomes(p, IF IdMembers(c) \cap s.rec.ids # {}
                         THEN Looped(Goto([s EXCEPT !.target = c], "adopt", {}))
                       ELSE IF s.todo = {} THEN Goto(s, "mint", {}) ELSE s)
  BY DEF Adopt
<1> DEFINE s == Without(me, c)
<1>3. LocalOK(s) /\ s \in Locals /\ s.rec = me.rec /\ s.pc = "adopt" /\ s.idHits = me.idHits
  BY <1>1, WithoutOK DEF LocalOK
<1>4. IdMembers(c) \cap me.rec.ids = {}
  <2> SUFFICES ASSUME NEW k \in IdMembers(c) \cap me.rec.ids PROVE FALSE
    OBVIOUS
  <2>1. k \in me.rec.ids \cap Identity /\ k \in StrongKeys /\ before.owner[k] = c
    BY <1>1 DEF IdMembers, Members, AtAdopt, Untouched
  <2>2. c # NoCid
    BY <1>1, KeysAssumption
  <2>3. c \in Atomic!IdHits(me.rec)
    <3>1. c \in Atomic!Hits(me.rec.ids \cap Identity)
      BY <2>1, <2>2, HitsThen
    <3> QED BY <3>1, OwnersThen
  <2> QED BY <1>1, <2>3 DEF AtAdopt
<1>5. Becomes(p, IF s.todo = {} THEN Goto(s, "mint", {}) ELSE s)
  BY <1>2, <1>3, <1>4
<1> HIDE DEF s
<1>6. CASE s.todo = {}
  <2> DEFINE t == Goto(s, "mint", {})
  <2>1. t.pc = "mint" /\ t.rec = me.rec
    <3>1. "mint" \in Places /\ {} \in SUBSET (StrongKeys \cup Phones \cup Cids)
      BY DEF Places
    <3> QED BY <1>3, <3>1, GotoFields
  <2> HIDE DEF t
  <2>2. AtMint(t)
    BY <1>1, <2>1 DEF AtAdopt, AtMint
  <2>3. Becomes(p, t)
    BY <1>5, <1>6 DEF t
  <2> QED BY <2>1, <2>2, <2>3 DEF Arrives, Going, Stands
<1>7. CASE s.todo # {}
  BY <1>1, <1>3, <1>5, <1>7 DEF Arrives, Going, Stands, AtAdopt
<1> QED BY <1>6, <1>7

\* Placed is about the record and the target alone.
LEMMA PlacedSame ==
  ASSUME NEW s, NEW t, t.rec = s.rec, t.target = s.target, NEW L, NEW A, NEW P,
         Placed(s, L, A, P)
  PROVE  Placed(t, L, A, P)
BY DEF Placed

\* The jumps of the last loops keep the target and the record.
LEMMA AttachedFields ==
  ASSUME NEW s \in Locals, s.todo \subseteq s.rec.ids
  PROVE  LET t == Attached(s)
         IN  /\ t.rec = s.rec /\ t.target = s.target
             /\ t.idHits = s.idHits /\ t.afHits = s.afHits
             /\ \/ t.pc = "attach" /\ t.todo = s.todo
                \/ s.todo = {} /\ t.pc = "phones" /\ t.todo = s.rec.phones
                \/ s.todo = {} /\ t.pc = "reread" /\ s.rec.phones = {}
<1>1. /\ s.todo \in SUBSET (StrongKeys \cup Phones \cup Cids)
      /\ s.rec.phones \in SUBSET (StrongKeys \cup Phones \cup Cids)
      /\ {} \in SUBSET (StrongKeys \cup Phones \cup Cids)
  BY DEF Locals, AnyRecord
<1> QED BY <1>1, GotoFields DEF Attached, Places, HasTarget

\* The same of the phones.
LEMMA PhonedFields ==
  ASSUME NEW s \in Locals
  PROVE  LET t == Phoned(s)
         IN  /\ t.rec = s.rec /\ t.target = s.target /\ t.todo = s.todo
             /\ t.idHits = s.idHits /\ t.afHits = s.afHits
             /\ t.pc = "phones" \/ (s.todo = {} /\ t.pc = "reread")
<1>1. s.todo \in SUBSET (StrongKeys \cup Phones \cup Cids)
  BY DEF Locals
<1> QED BY <1>1, GotoFields DEF Phoned, Places, HasTarget

\* The next key, the first phone, or the last reading.
LEMMA AttachedStands ==
  ASSUME NEW s \in Locals, s.todo \subseteq s.rec.ids, AtAttach(s)
  PROVE  Arrives(Attached(s), s)
<1> DEFINE t == Attached(s)
<1>1. /\ t.rec = s.rec /\ t.target = s.target
      /\ \/ t.pc = "attach" /\ t.todo = s.todo
         \/ s.todo = {} /\ t.pc = "phones" /\ t.todo = s.rec.phones
         \/ s.todo = {} /\ t.pc = "reread" /\ s.rec.phones = {}
  BY AttachedFields
<1>2. PICK L \in SUBSET Cids : Placed(s, L, s.rec.ids \ s.todo, {})
  BY DEF AtAttach
<1> HIDE DEF t
<1>3. Placed(t, L, s.rec.ids \ s.todo, {})
  BY <1>1, <1>2, PlacedSame
<1>4. CASE t.pc = "attach" /\ t.todo = s.todo
  BY <1>1, <1>3, <1>4 DEF Arrives, Going, HasTarget, Stands, AtAttach, t
<1>5. CASE s.todo = {} /\ t.pc = "phones" /\ t.todo = s.rec.phones
  <2>1. s.rec.ids \ s.todo = t.rec.ids /\ t.rec.phones \ t.todo = {}
    BY <1>1, <1>5
  <2>2. AtPhones(t)
    BY <1>3, <2>1 DEF AtPhones
  <2> QED BY <1>1, <1>5, <2>2 DEF Arrives, Going, HasTarget, Stands, t
<1>6. CASE s.todo = {} /\ t.pc = "reread" /\ s.rec.phones = {}
  <2>1. s.rec.ids \ s.todo = t.rec.ids /\ t.rec.phones = {}
    BY <1>1, <1>6
  <2>2. AtReread(t)
    BY <1>3, <2>1 DEF AtReread
  <2> QED BY <1>1, <1>6, <2>2 DEF Arrives, Going, HasTarget, Stands, t
<1> QED BY <1>1, <1>4, <1>5, <1>6

\* The loop over the phones goes on or ends.
LEMMA PhonedStands ==
  ASSUME NEW s \in Locals, AtPhones(s)
  PROVE  Arrives(Phoned(s), s)
<1> DEFINE t == Phoned(s)
<1>1. /\ t.rec = s.rec /\ t.target = s.target /\ t.todo = s.todo
      /\ t.pc = "phones" \/ (s.todo = {} /\ t.pc = "reread")
  BY PhonedFields
<1>2. PICK L \in SUBSET Cids : Placed(s, L, s.rec.ids, s.rec.phones \ s.todo)
  BY DEF AtPhones
<1> HIDE DEF t
<1>3. Placed(t, L, s.rec.ids, s.rec.phones \ s.todo)
  BY <1>1, <1>2, PlacedSame
<1>4. CASE t.pc = "phones"
  BY <1>1, <1>3, <1>4 DEF Arrives, Going, HasTarget, Stands, AtPhones, t
<1>5. CASE s.todo = {} /\ t.pc = "reread"
  <2>1. s.rec.phones \ s.todo = t.rec.phones
    BY <1>1, <1>5
  <2>2. AtReread(t)
    BY <1>1, <1>3, <2>1 DEF AtReread
  <2> QED BY <1>1, <1>5, <2>2 DEF Arrives, Going, HasTarget, Stands, t
<1> QED BY <1>1, <1>4, <1>5

\* The owner of a key while the keys A have had their turn.
LEMMA PlacedOwner ==
  ASSUME BeforeOK, NEW s, NEW L, NEW A, NEW P, Placed(s, L, A, P), NEW k \in StrongKeys
  PROVE  LET merged == Repointed(before.owner, L, s.target)
         IN  /\ merged[k] = IF before.owner[k] \in L THEN s.target ELSE before.owner[k]
             /\ owner[k] = IF k \in A \cap Claims(s.rec, merged) THEN s.target ELSE merged[k]
BY BeforeTables DEF Placed, Repointed

\* A key whose turn leaves it where it is.
LEMMA PlacedKept ==
  ASSUME BeforeOK, NEW s, NEW L, NEW A, NEW P, Placed(s, L, A, P), NEW k \in StrongKeys,
         k \in Claims(s.rec, Repointed(before.owner, L, s.target)) => owner[k] = s.target
  PROVE  Placed(s, L, A \cup {k}, P)
<1> DEFINE merged == Repointed(before.owner, L, s.target)
           K == Claims(s.rec, merged)
<1>1. owner = [j \in StrongKeys |-> IF j \in A \cap K THEN s.target ELSE merged[j]]
  BY DEF Placed
<1>2. owner[k] = IF k \in (A \cup {k}) \cap K THEN s.target ELSE merged[k]
  BY <1>1
<1> HIDE DEF merged, K
<1>3. owner = [j \in StrongKeys |-> IF j \in (A \cup {k}) \cap K THEN s.target ELSE merged[j]]
  BY <1>1, <1>2
<1> QED BY <1>3 DEF Placed, merged, K

\* A lookup before an attach.
LEMMA FindOwnerStands ==
  ASSUME NEW p, Ready(req[p]), FindOwner(p)
  PROVE  \E t : Becomes(p, t) /\ Arrives(t, req[p])
<1> DEFINE me == req[p]
<1>1. /\ me \in Locals /\ LocalOK(me) /\ AtAttach(me) /\ BeforeOK /\ TypeOK
      /\ me.todo \subseteq me.rec.ids /\ me.rec.ids \subseteq StrongKeys
  BY DEF FindOwner, Ready, RowsInv, Stands, LocalOK, Locals, AnyRecord
<1>2. PICK k \in me.todo :
        LET s == Without(me, k)
            kept == owner[k] = s.target \/ (k \in Affiliation /\ k \in Known)
        IN  Becomes(p, IF kept THEN Attached(s) ELSE [s EXCEPT !.pc = "write", !.item = k])
  BY DEF FindOwner
<1> DEFINE s == Without(me, k)
           t == [s EXCEPT !.pc = "write", !.item = k]
           kept == owner[k] = me.target \/ (k \in Affiliation /\ k \in Known)
<1>3. /\ s \in Locals /\ s.rec = me.rec /\ s.todo = me.todo \ {k} /\ s.target = me.target
  BY <1>1, WithoutOK DEF LocalOK
<1>4. PICK L \in SUBSET Cids : Placed(me, L, me.rec.ids \ me.todo, {})
  BY <1>1 DEF AtAttach
<1>5. Becomes(p, IF kept THEN Attached(s) ELSE t)
  BY <1>2, <1>3
<1> HIDE DEF s, t
<1> DEFINE K == Claims(me.rec, Repointed(before.owner, L, me.target))
           A == me.rec.ids \ me.todo
<1>6. k \in K <=> k \in Identity \/ owner[k] = NoCid
  <2>1. owner[k] = Repointed(before.owner, L, me.target)[k]
    BY <1>1, <1>4, PlacedOwner
  <2> QED BY <1>1, <2>1 DEF Claims
<1>7. Placed(s, L, A, {})
  BY <1>3, <1>4, PlacedSame
<1> HIDE DEF K
<1>8. CASE kept
  <2>1. k \in K => owner[k] = s.target
    BY <1>1, <1>3, <1>6, <1>8, KeysAssumption DEF Known
  <2>2. Placed(s, L, A \cup {k}, {})
    BY <1>1, <1>3, <1>7, <2>1, PlacedKept DEF K
  <2>3. A \cup {k} = s.rec.ids \ s.todo /\ s.todo \subseteq s.rec.ids
    BY <1>1, <1>3
  <2> HIDE DEF A
  <2>4. AtAttach(s)
    BY <2>2, <2>3 DEF AtAttach
  <2>5. Arrives(Attached(s), s)
    BY <1>3, <2>3, <2>4, AttachedStands
  <2> QED BY <1>3, <1>5, <1>8, <2>5 DEF Arrives
<1>9. CASE ~ kept
  <2>1. k \in K
    BY <1>1, <1>6, <1>9 DEF Known, StrongKeys
  <2>2. t.pc = "write" /\ t.rec = me.rec /\ t.todo = s.todo /\ t.target = me.target /\ t.item = k
    BY <1>3 DEF t, Locals
  <2>3. A = t.rec.ids \ (t.todo \cup {t.item})
    BY <1>1, <1>3, <2>2
  <2> HIDE DEF A
  <2>4. Placed(t, L, A, {})
    BY <1>3, <1>7, <2>2, PlacedSame
  <2>5. AtWrite(t)
    BY <1>3, <2>1, <2>2, <2>3, <2>4 DEF AtWrite, K
  <2> QED BY <1>5, <1>9, <2>2, <2>5 DEF Arrives, Going, HasTarget, Stands
<1> QED BY <1>8, <1>9

\* A lookup before a phone edge.
LEMMA FindPhoneStands ==
  ASSUME NEW p, Ready(req[p]), FindPhone(p)
  PROVE  \E t : Becomes(p, t) /\ Arrives(t, req[p])
<1> DEFINE me == req[p]
<1>1. me \in Locals /\ LocalOK(me) /\ AtPhones(me) /\ me.todo \subseteq me.rec.phones
  BY DEF FindPhone, Ready, Stands, LocalOK
<1>2. PICK ph \in me.todo :
        LET s == Without(me, ph)
        IN  Becomes(p, IF <<ph, s.target>> \in phoneEdge THEN Phoned(s)
                       ELSE [s EXCEPT !.pc = "dial", !.item = ph])
  BY DEF FindPhone
<1> DEFINE s == Without(me, ph)
           t == [s EXCEPT !.pc = "dial", !.item = ph]
           P == me.rec.phones \ me.todo
<1>3. /\ s \in Locals /\ s.rec = me.rec /\ s.todo = me.todo \ {ph} /\ s.target = me.target
  BY <1>1, WithoutOK DEF LocalOK
<1>4. PICK L \in SUBSET Cids : Placed(me, L, me.rec.ids, P)
  BY <1>1 DEF AtPhones
<1>5. Becomes(p, IF <<ph, me.target>> \in phoneEdge THEN Phoned(s) ELSE t)
  BY <1>2, <1>3
<1> HIDE DEF s, t, P
<1>6. Placed(s, L, s.rec.ids, P)
  BY <1>3, <1>4, PlacedSame
<1>7. CASE <<ph, me.target>> \in phoneEdge
  <2>1. P \cup {ph} = s.rec.phones \ s.todo
    BY <1>1, <1>3 DEF P
  <2>2. phoneEdge = RepointedRows(before.phoneEdge, L, s.target) \cup (P \X {s.target})
    BY <1>6 DEF Placed
  <2>3. phoneEdge = RepointedRows(before.phoneEdge, L, s.target) \cup ((P \cup {ph}) \X {s.target})
    BY <1>3, <1>7, <2>2
  <2>4. Placed(s, L, s.rec.ids, P \cup {ph})
    BY <1>6, <2>3 DEF Placed
  <2>5. AtPhones(s)
    BY <2>1, <2>4 DEF AtPhones
  <2>6. Arrives(Phoned(s), s)
    BY <1>3, <2>5, PhonedStands
  <2> QED BY <1>3, <1>5, <1>7, <2>6 DEF Arrives
<1>8. CASE <<ph, me.target>> \notin phoneEdge
  <2>1. t.pc = "dial" /\ t.rec = me.rec /\ t.todo = s.todo /\ t.target = me.target /\ t.item = ph
    BY <1>3 DEF t, Locals
  <2>2. P = t.rec.phones \ (t.todo \cup {t.item})
    BY <1>1, <1>3, <2>1 DEF P
  <2>3. Placed(t, L, t.rec.ids, P)
    BY <1>3, <1>6, <2>1, PlacedSame
  <2>4. AtDial(t)
    BY <1>3, <2>1, <2>2, <2>3 DEF AtDial
  <2> QED BY <1>5, <1>8, <2>1, <2>4 DEF Arrives, Going, HasTarget, Stands
<1> QED BY <1>7, <1>8

\* The members are read for the anchor.
LEMMA RereadStands ==
  ASSUME NEW p, Ready(req[p]), Reread(p)
  PROVE  \E t : Becomes(p, t) /\ Arrives(t, req[p])
<1> DEFINE me == req[p]
           t == [me EXCEPT !.pc = "current", !.seen = Members(me.target)]
<1>1. me \in Locals /\ AtReread(me) /\ Becomes(p, t)
  BY DEF Reread, Ready, Stands, LocalOK
<1>2. t.pc = "current" /\ t.rec = me.rec /\ t.target = me.target /\ t.seen = Members(me.target)
  BY <1>1 DEF Locals
<1> HIDE DEF t
<1>3. AtCurrent(t)
  BY <1>1, <1>2, PlacedSame DEF AtCurrent, AtReread
<1> QED BY <1>1, <1>2, <1>3 DEF Arrives, Going, HasTarget, Stands

\* When all its keys have had their turn, the target holds one, and has an anchor.
LEMMA PlacedHolds ==
  ASSUME BeforeOK, NEW s, s.rec.ids \subseteq StrongKeys, NEW L, NEW P,
         Placed(s, L, s.rec.ids, P)
  PROVE  Members(s.target) # {}
<1> DEFINE w == s.target
           r == s.rec
           merged == Repointed(before.owner, L, w)
<1>1. \A k \in StrongKeys :
        /\ merged[k] = IF before.owner[k] \in L THEN w ELSE before.owner[k]
        /\ owner[k] = IF k \in r.ids \cap Claims(r, merged) THEN w ELSE merged[k]
  BY PlacedOwner
<1>2. Chosen(r, w, L) /\ w \notin L
  BY DEF Placed
<1>3. CASE \E K : w \in Atomic!Hits(K)
  <2>1. PICK k \in StrongKeys : before.owner[k] = w
    BY <1>3, HitsAlive
  <2>2. owner[k] = w
    BY <1>1, <1>2, <2>1
  <2> QED BY <2>2 DEF Members
<1>4. CASE /\ Atomic!IdHits(r) = {}
           /\ r.ids \cap Identity = {} => Atomic!AfHits(r) = {}
           /\ L = {}
           /\ \E k \in r.ids : IsEntityAnchor(k, r.ids) /\ w = CidOf(k)
  <2>1. PICK k \in r.ids : IsEntityAnchor(k, r.ids) /\ w = CidOf(k)
    BY <1>4
  <2>2. CASE k \in Identity
    BY <1>1, <2>1, <2>2 DEF Claims, Members
  <2>3. CASE k \notin Identity
    <3>1. r.ids \cap Identity = {} /\ k \in Affiliation
      BY <2>1, <2>3 DEF IsEntityAnchor, IsStrongest, StrongKeys
    <3>2. before.owner[k] = NoCid
      <4>1. Atomic!Hits(r.ids \cap Affiliation) = {}
        BY <1>4, <3>1, OwnersThen
      <4>2. before.owner[k] # NoCid => before.owner[k] \in Atomic!Hits(r.ids \cap Affiliation)
        BY <2>1, <3>1, HitsThen
      <4> QED BY <4>1, <4>2
    <3>3. k \in Claims(r, merged)
      BY <1>1, <1>4, <2>1, <3>2 DEF Claims
    <3> QED BY <1>1, <2>1, <3>3 DEF Members
  <2> QED BY <2>2, <2>3
<1>5. \A C : Atomic!IsWinner(w, C) => w \in C
  BY WinnerThen
<1>6. CASE w \in Atomic!IdHits(r) \/ w \in Atomic!AfHits(r)
  BY <1>3, <1>6, OwnersThen
<1> QED BY <1>2, <1>4, <1>5, <1>6 DEF Chosen

\* The anchor is compared.
LEMMA ReadAnchorStands ==
  ASSUME NEW p, Ready(req[p]), ReadAnchor(p)
  PROVE  \E t : Becomes(p, t) /\ Arrives(t, req[p])
<1> DEFINE me == req[p]
           s == [me EXCEPT !.seen = {}]
<1>1. /\ me \in Locals /\ AtCurrent(me) /\ BeforeOK /\ me.rec.ids \subseteq StrongKeys
      /\ me.seen = Members(me.target)
  BY DEF ReadAnchor, Ready, Stands, LocalOK, Locals, AnyRecord, AtCurrent
<1>2. PICK L \in SUBSET Cids : Placed(me, L, me.rec.ids, me.rec.phones)
  BY <1>1 DEF AtCurrent, AtReread
<1>3. Members(me.target) # {} /\ anchor[me.target] \in StrongKeys
  BY <1>1, <1>2, PlacedHolds DEF Placed
<1>4. s \in Locals /\ s.target = me.target /\ s.rec = me.rec
  BY <1>1 DEF Locals
<1>5. PICK a \in StrongKeys :
        /\ Sharpens(a, me.seen, anchor[me.target])
        /\ Becomes(p, IF a = anchor[me.target] THEN Goto(s, "answer", {})
                      ELSE [s EXCEPT !.pc = "anchor", !.item = a])
  BY <1>3, <1>4, KeysAssumption DEF ReadAnchor, Live
<1>6. IsEntityAnchor(a, Members(me.target))
  BY <1>1, <1>3, <1>5 DEF Sharpens
<1> HIDE DEF s
<1>7. CASE a = anchor[me.target]
  <2> DEFINE t == Goto(s, "answer", {})
  <2>1. t.pc = "answer" /\ t.rec = me.rec /\ t.target = me.target
    <3>1. "answer" \in Places /\ {} \in SUBSET (StrongKeys \cup Phones \cup Cids)
      BY DEF Places, HasTarget
    <3> QED BY <1>4, <3>1, GotoFields
  <2>2. Becomes(p, t)
    BY <1>5, <1>7
  <2> HIDE DEF t
  <2>3. AtAnswer(t)
    BY <1>2, <1>6, <1>7, <2>1, PlacedSame DEF AtAnswer, AtReread
  <2> QED BY <2>1, <2>2, <2>3 DEF Arrives, Going, HasTarget, Stands
<1>8. CASE a # anchor[me.target]
  <2> DEFINE t == [s EXCEPT !.pc = "anchor", !.item = a]
  <2>1. t.pc = "anchor" /\ t.rec = me.rec /\ t.target = me.target /\ t.item = a
    BY <1>4 DEF Locals
  <2>2. Becomes(p, t)
    BY <1>5, <1>8
  <2> HIDE DEF t
  <2>3. AtAnchor(t)
    BY <1>2, <1>6, <2>1, PlacedSame DEF AtAnchor, AtReread
  <2> QED BY <2>1, <2>2, <2>3 DEF Arrives, Going, HasTarget, Stands
<1> QED BY <1>7, <1>8

-----------------------------------------------------------------------------
(***************************************************************************)
(* The statements that write.                                              *)
(***************************************************************************)

\* What such a statement has to show.
Reaches(t, s) == t.pc \in Going /\ t.rec = s.rec /\ (UNCHANGED before => Stands(t)')

\* What the tables were does not change.
LEMMA WinnerFrozen ==
  ASSUME UNCHANGED before, NEW s, WinnerFound(s)
  PROVE  WinnerFound(s)'
<1>1. OwnersFound(s)' <=> OwnersFound(s)
  BY Frozen DEF OwnersFound
<1> QED BY <1>1, Frozen DEF WinnerFound, Rivals

\* One more entity is merged into w.
LEMMA MergeGrows ==
  ASSUME BeforeOK, UNCHANGED before, NEW w \in Cids, NEW L, w \notin L, Merged(w, L),
         NEW l \in Cids \ {w},
         owner' = Repointed(owner, {l}, w),
         anchor' = [anchor EXCEPT ![l] = NoKey],
         phoneEdge' = RepointedRows(phoneEdge, {l}, w)
  PROVE  Merged(w, L \cup {l})'
<1>0. /\ before.owner \in [StrongKeys -> Cids \cup {NoCid}]
      /\ before.phoneEdge \subseteq Phones \X Cids
  BY BeforeTables
<1>1. owner' = Repointed(before.owner, L \cup {l}, w)
  BY <1>0 DEF Merged, Repointed
<1>2. anchor' = [c \in Cids |-> IF c \in L \cup {l} THEN NoKey ELSE before.anchor[c]]
  BY DEF Merged
<1>3. phoneEdge' = RepointedRows(before.phoneEdge, L \cup {l}, w)
  <2>1. \A x : x \in phoneEdge <=>
          \E row \in before.phoneEdge : x = <<row[1], IF row[2] \in L THEN w ELSE row[2]>>
    BY DEF Merged, RepointedRows
  <2>2. \A x : x \in phoneEdge' <=>
          \E row \in phoneEdge : x = <<row[1], IF row[2] = l THEN w ELSE row[2]>>
    BY DEF RepointedRows
  <2>3. \A x : x \in RepointedRows(before.phoneEdge, L \cup {l}, w) <=>
          \E row \in before.phoneEdge :
            x = <<row[1], IF row[2] \in L \cup {l} THEN w ELSE row[2]>>
    BY DEF RepointedRows
  <2>4. ASSUME NEW x, x \in phoneEdge'
        PROVE  x \in RepointedRows(before.phoneEdge, L \cup {l}, w)
    <3>1. PICK row \in phoneEdge : x = <<row[1], IF row[2] = l THEN w ELSE row[2]>>
      BY <2>2, <2>4
    <3>2. PICK old \in before.phoneEdge :
            row = <<old[1], IF old[2] \in L THEN w ELSE old[2]>>
      BY <2>1
    <3>3. x = <<old[1], IF old[2] \in L \cup {l} THEN w ELSE old[2]>>
      BY <3>1, <3>2
    <3> QED BY <2>3, <3>3
  <2>5. ASSUME NEW x, x \in RepointedRows(before.phoneEdge, L \cup {l}, w)
        PROVE  x \in phoneEdge'
    <3>1. PICK old \in before.phoneEdge :
            x = <<old[1], IF old[2] \in L \cup {l} THEN w ELSE old[2]>>
      BY <2>3, <2>5
    <3> DEFINE row == <<old[1], IF old[2] \in L THEN w ELSE old[2]>>
    <3>2. row \in phoneEdge
      BY <2>1
    <3>3. x = <<row[1], IF row[2] = l THEN w ELSE row[2]>>
      BY <3>1
    <3> QED BY <2>2, <3>2, <3>3
  <2> QED BY <2>4, <2>5
<1> QED BY <1>1, <1>2, <1>3 DEF Merged

\* The batch of merge_into, while the winner is alive.
LEMMA MergeIntoGrows ==
  ASSUME BeforeOK, NEW p, NEW w \in Cids, before.anchor[w] \in StrongKeys,
         NEW L, w \notin L, Merged(w, L), NEW l \in Cids \ {w}, NEW t,
         MergeInto(p, w, l, t)
  PROVE  Becomes(p, t) /\ (UNCHANGED before => Merged(w, L \cup {l})')
<1>1. Live(w)
  BY KeysAssumption DEF Merged, Live
<1>2. /\ Becomes(p, t)
      /\ owner' = Repointed(owner, {l}, w)
      /\ anchor' = [anchor EXCEPT ![l] = NoKey]
      /\ phoneEdge' = RepointedRows(phoneEdge, {l}, w)
  BY <1>1 DEF MergeInto
<1> QED BY <1>2, MergeGrows

\* Merging another owner of an identity key.
LEMMA UniteStands ==
  ASSUME NEW p, NEW me, me = req[p], Ready(me), Unite(p)
  PROVE  \E t : Becomes(p, t) /\ Reaches(t, me)
<1> DEFINE w == me.target
           L == (me.idHits \ {w}) \ me.todo
<1>1. /\ me \in Locals /\ LocalOK(me) /\ AtUnite(me) /\ BeforeOK /\ WinnerFound(me)
      /\ me.pc = "unite" /\ me.todo \subseteq Cids \ {w} /\ me.todo \subseteq me.idHits
  BY DEF Unite, Ready, Stands, LocalOK, AtUnite
<1>2. PICK c \in me.todo :
        MergeInto(p, w, c, IF me.todo = {c} THEN Goto(me, "members", {}) ELSE Without(me, c))
  BY DEF Unite
<1>3. w \in Cids /\ before.anchor[w] \in StrongKeys /\ w \notin L /\ Merged(w, L) /\ c \in Cids \ {w}
  BY <1>1, WinnerAlive DEF AtUnite
<1> DEFINE t == IF me.todo = {c} THEN Goto(me, "members", {}) ELSE Without(me, c)
<1>4. /\ t.rec = me.rec /\ t.target = w /\ t.idHits = me.idHits /\ t.afHits = me.afHits
      /\ IF me.todo = {c} THEN t.pc = "members" ELSE t.pc = "unite" /\ t.todo = me.todo \ {c}
  <2>1. "members" \in Places /\ {} \in SUBSET (StrongKeys \cup Phones \cup Cids)
    BY DEF Places, HasTarget
  <2> QED BY <1>1, <2>1, GotoFields, WithoutOK
<1>5. MergeInto(p, w, c, t)
  BY <1>2
<1> HIDE DEF t, L
<1>6. Becomes(p, t) /\ (UNCHANGED before => Merged(w, L \cup {c})')
  BY <1>1, <1>3, <1>5, MergeIntoGrows
<1>7. WinnerFound(t)
  BY <1>1, <1>4 DEF WinnerFound, OwnersFound, Rivals
<1>8. ASSUME UNCHANGED before PROVE Stands(t)'
  <2>1. WinnerFound(t)' /\ Merged(w, L \cup {c})'
    BY <1>6, <1>7, <1>8, WinnerFrozen
  <2>2. CASE me.todo = {c}
    <3>1. L \cup {c} = t.idHits \ {t.target}
      BY <1>1, <1>4, <2>2 DEF L
    <3>2. AtMembers(t)'
      BY <1>4, <2>1, <3>1 DEF AtMembers
    <3> QED BY <1>4, <2>2, <3>2 DEF Stands
  <2>3. CASE me.todo # {c}
    <3>1. L \cup {c} = (t.idHits \ {t.target}) \ t.todo /\ t.todo \subseteq t.idHits
      BY <1>1, <1>4, <2>3 DEF L
    <3>2. AtUnite(t)'
      BY <1>4, <2>1, <3>1 DEF AtUnite
    <3> QED BY <1>4, <2>3, <3>2 DEF Stands
  <2> QED BY <2>2, <2>3
<1> QED BY <1>4, <1>6, <1>8 DEF Reaches, Going, HasTarget

\* Merging an owner of a domain.
LEMMA AbsorbStands ==
  ASSUME NEW p, NEW me, me = req[p], Ready(me), Absorb(p)
  PROVE  \E t : Becomes(p, t) /\ Reaches(t, me)
<1> DEFINE w == me.target
           t == [me EXCEPT !.pc = "refresh", !.item = NoKey]
<1>1. /\ me \in Locals /\ AtAbsorb(me) /\ BeforeOK /\ WinnerFound(me)
      /\ me.todo \subseteq me.afHits /\ me.item \in Cids \ {w}
  BY DEF Absorb, Ready, Stands, LocalOK, AtAbsorb
<1>2. PICK first \in Atomic!FirstBearing(w, Compared(me)), L \in SUBSET Cids :
        L \cup {me.item} = Losers(me, first, Compared(me)) /\ Merged(w, L)
  BY <1>1 DEF AtAbsorb
<1>3. w \in Cids /\ before.anchor[w] \in StrongKeys /\ w \notin L
  BY <1>1, <1>2, WinnerAlive DEF Losers
<1>4. MergeInto(p, w, me.item, t)
  BY DEF Absorb
<1>5. /\ t.pc = "refresh" /\ t.rec = me.rec /\ t.target = w /\ t.todo = me.todo
      /\ t.idHits = me.idHits /\ t.afHits = me.afHits
  BY <1>1 DEF Locals
<1> HIDE DEF t
<1>6. Becomes(p, t) /\ (UNCHANGED before => Merged(w, L \cup {me.item})')
  BY <1>1, <1>2, <1>3, <1>4, MergeIntoGrows
<1>7. /\ WinnerFound(t) /\ Compared(t) = Compared(me)
      /\ Losers(t, first, Compared(t)) = L \cup {me.item}
  BY <1>1, <1>2, <1>5 DEF WinnerFound, OwnersFound, Rivals, Losers, Grown, Compared
<1>8. ASSUME UNCHANGED before PROVE Stands(t)'
  <2>1. WinnerFound(t)' /\ Merged(w, L \cup {me.item})'
    BY <1>6, <1>7, <1>8, WinnerFrozen
  <2>2. Losers(t, first, Compared(t))' = L \cup {me.item}
    BY <1>7, <1>8 DEF Losers, Grown, Compared, Atomic!Members
  <2>3. first \in Atomic!FirstBearing(t.target, Compared(t))'
    BY <1>2, <1>5, <1>7, <1>8, Frozen DEF Compared
  <2>4. AtRefresh(t)'
    BY <1>1, <1>5, <2>1, <2>2, <2>3 DEF AtRefresh
  <2> QED BY <1>5, <2>4 DEF Stands
<1> QED BY <1>5, <1>6, <1>8 DEF Reaches, Going, HasTarget

\* Minting.
LEMMA MintStands ==
  ASSUME NEW p, NEW me, me = req[p], Ready(me), Mint(p)
  PROVE  \E t : Becomes(p, t) /\ Reaches(t, me)
<1>1. /\ me \in Locals /\ AtMint(me) /\ BeforeOK /\ Untouched
      /\ me.rec.ids \subseteq StrongKeys /\ me.pc = "mint"
  BY DEF Mint, Ready, Stands, LocalOK, Locals, AnyRecord, AtMint
<1>2. PICK a \in me.rec.ids :
        /\ IsEntityAnchor(a, me.rec.ids)
        /\ anchor' = [anchor EXCEPT ![CidOf(a)] = IF Live(CidOf(a)) THEN @ ELSE a]
        /\ Becomes(p, Looped(Goto([me EXCEPT !.target = CidOf(a)], "mint", {})))
  BY DEF Mint
<1>3. UNCHANGED <<owner, phoneEdge>>
  BY DEF Mint
<1> DEFINE w == CidOf(a)
           s == [me EXCEPT !.target = w]
           u == Goto(s, "mint", {})
           v == [u EXCEPT !.seen = {}, !.idHits = {}, !.afHits = {}]
           t == Goto(v, "attach", u.rec.ids)
<1>4. w \in Cids /\ a \in StrongKeys
  BY <1>1, CidOfType
<1>5. s \in Locals /\ s.target = w /\ s.rec = me.rec
  BY <1>1, <1>4 DEF Locals
<1> HIDE DEF s
<1>6. u \in Locals /\ u.target = w /\ u.rec = me.rec /\ u.todo = {}
  <2>1. "mint" \in Places /\ {} \in SUBSET (StrongKeys \cup Phones \cup Cids)
    BY DEF Places
  <2> QED BY <1>5, <2>1, GotoFields
<1> HIDE DEF u
<1>7. v \in Locals /\ v.target = w /\ v.rec = me.rec
  BY <1>6 DEF Locals
<1>8. Looped(u) = t
  BY <1>6 DEF Looped
<1> HIDE DEF v
<1>9. t.pc = "attach" /\ t.rec = me.rec /\ t.target = w /\ t.todo = me.rec.ids
  BY <1>1, <1>6, <1>7, GotoFields DEF Places, HasTarget
<1>10. Becomes(p, t)
  BY <1>2, <1>8 DEF u, s
<1> HIDE DEF t
<1>11. ASSUME UNCHANGED before PROVE Stands(t)'
  <2>1. Chosen(me.rec, w, {})
    BY <1>1, <1>2 DEF AtMint, Chosen
  <2>2. Chosen(me.rec, w, {})'
    BY <1>11, <2>1, Frozen
  <2>3. Merged(w, {})
    BY <1>1, MergedNone
  <2>4. owner' = [k \in StrongKeys |-> Repointed(before.owner, {}, w)[k]]
    BY <1>3, <2>3, BeforeTables, <1>1 DEF Merged, Repointed
  <2>5. /\ \A c \in Cids \ {w} : anchor'[c] = before.anchor[c]
        /\ anchor'[w] \in StrongKeys
    BY <1>1, <1>2, <1>4, BeforeTables DEF Untouched, Live
  <2>6. phoneEdge' = RepointedRows(before.phoneEdge, {}, w)
    BY <1>3, <2>3 DEF Merged
  <2>7. Placed(t, {}, {}, {})'
    BY <1>9, <1>11, <2>2, <2>4, <2>5, <2>6 DEF Placed
  <2>8. AtAttach(t)'
    <3>1. t.rec.ids \ t.todo = {} /\ {} \in SUBSET Cids
      BY <1>9
    <3> QED BY <2>7, <3>1 DEF AtAttach
  <2> QED BY <1>9, <2>8 DEF Stands
<1> QED BY <1>9, <1>10, <1>11 DEF Reaches, Going, HasTarget


\* AttachedStands and PhonedStands, also of the tables that a write leaves.
AttachedGoes ==
  \A s \in Locals : s.todo \subseteq s.rec.ids /\ AtAttach(s) => Arrives(Attached(s), s)

PhonedGoes == \A s \in Locals : AtPhones(s) => Arrives(Phoned(s), s)

\* Both hold,
LEMMA LoopsGo == AttachedGoes /\ PhonedGoes
BY AttachedStands, PhonedStands DEF AttachedGoes, PhonedGoes

\* and in the next state.
LEMMA LoopsGoNext == AttachedGoes' /\ PhonedGoes'
BY LoopsGo, PTL

\* Attaching a key.
LEMMA WriteKeyStands ==
  ASSUME NEW p, NEW me, me = req[p], Ready(me), WriteKey(p)
  PROVE  \E t : Becomes(p, t) /\ Reaches(t, me)
<1> DEFINE s == [me EXCEPT !.item = NoKey]
           w == me.target
<1>1. /\ me \in Locals /\ LocalOK(me) /\ AtWrite(me) /\ BeforeOK /\ TypeOK
      /\ me.todo \subseteq me.rec.ids /\ me.item \in me.rec.ids /\ me.rec.ids \subseteq StrongKeys
      /\ w \in Cids
  BY DEF WriteKey, Ready, RowsInv, Stands, LocalOK, Locals, AnyRecord, HasTarget
<1>2. PICK L \in SUBSET Cids :
        /\ Placed(me, L, me.rec.ids \ (me.todo \cup {me.item}), {})
        /\ me.item \notin me.todo
        /\ me.item \in Claims(me.rec, Repointed(before.owner, L, w))
  BY <1>1 DEF AtWrite
<1>3. Live(w)
  BY <1>2, KeysAssumption DEF Placed, Live
<1>4. /\ owner' = [owner EXCEPT ![me.item] = w]
      /\ Becomes(p, Attached(s))
      /\ UNCHANGED <<anchor, phoneEdge>>
  BY <1>3 DEF WriteKey
<1>5. s \in Locals /\ s.rec = me.rec /\ s.todo = me.todo /\ s.target = w
  BY <1>1 DEF Locals
<1> HIDE DEF s
<1>6. ASSUME UNCHANGED before PROVE AtAttach(s)'
  <2> DEFINE A == me.rec.ids \ (me.todo \cup {me.item})
             K == Claims(me.rec, Repointed(before.owner, L, w))
             merged == Repointed(before.owner, L, w)
  <2>1. owner = [k \in StrongKeys |-> IF k \in A \cap K THEN w ELSE merged[k]]
    BY <1>2 DEF Placed
  <2>2. me.item \in K /\ A \cup {me.item} = s.rec.ids \ s.todo /\ me.item \in StrongKeys
    BY <1>1, <1>2, <1>5
  <2> HIDE DEF A, K, merged
  <2>3. owner' = [k \in StrongKeys |-> IF k \in (A \cup {me.item}) \cap K THEN w ELSE merged[k]]
    BY <1>4, <2>1, <2>2
  <2>4. Chosen(me.rec, w, L)'
    BY <1>2, <1>6, Frozen DEF Placed
  <2>5. Placed(s, L, s.rec.ids \ s.todo, {})'
    <3>1. /\ K' = K /\ merged' = merged
      BY <1>6 DEF K, merged
    <3>2. /\ w \notin L
          /\ \A c \in Cids \ {w} : anchor[c] = IF c \in L THEN NoKey ELSE before.anchor[c]
          /\ anchor[w] \in StrongKeys
          /\ phoneEdge = RepointedRows(before.phoneEdge, L, w) \cup ({} \X {w})
      BY <1>2 DEF Placed
    <3> QED BY <1>4, <1>5, <1>6, <2>2, <2>3, <2>4, <3>1, <3>2 DEF Placed, K, merged
  <2> QED BY <2>5 DEF AtAttach
<1>7. ASSUME UNCHANGED before PROVE Arrives(Attached(s), s)'
  BY <1>1, <1>5, <1>6, <1>7, LoopsGoNext DEF AttachedGoes
<1>8. Attached(s).pc \in Going /\ Attached(s).rec = me.rec
  BY <1>1, <1>5, AttachedFields DEF Going, HasTarget
<1>9. UNCHANGED before => Stands(Attached(s))'
  BY <1>7 DEF Arrives
<1> QED BY <1>4, <1>8, <1>9 DEF Reaches

\* Recording a phone.
LEMMA WritePhoneStands ==
  ASSUME NEW p, NEW me, me = req[p], Ready(me), WritePhone(p)
  PROVE  \E t : Becomes(p, t) /\ Reaches(t, me)
<1> DEFINE s == [me EXCEPT !.item = NoKey]
           w == me.target
           P == me.rec.phones \ (me.todo \cup {me.item})
<1>1. /\ me \in Locals /\ AtDial(me) /\ me.item \in me.rec.phones
      /\ me.todo \subseteq me.rec.phones
  BY DEF WritePhone, Ready, Stands, LocalOK
<1>2. PICK L \in SUBSET Cids : Placed(me, L, me.rec.ids, P)
  BY <1>1 DEF AtDial
<1>3. Live(w)
  BY <1>2, KeysAssumption DEF Placed, Live
<1>4. /\ phoneEdge' = phoneEdge \cup {<<me.item, w>>}
      /\ Becomes(p, Phoned(s))
      /\ UNCHANGED <<anchor, owner>>
  BY <1>3 DEF WritePhone
<1>5. s \in Locals /\ s.rec = me.rec /\ s.todo = me.todo /\ s.target = w
  BY <1>1 DEF Locals
<1>6. P \cup {me.item} = s.rec.phones \ s.todo
  BY <1>1, <1>5 DEF AtDial
<1> HIDE DEF s, P
<1>7. ASSUME UNCHANGED before PROVE AtPhones(s)'
  <2>1. Chosen(me.rec, w, L)'
    BY <1>2, <1>7, Frozen DEF Placed
  <2>2. phoneEdge' = RepointedRows(before.phoneEdge, L, w) \cup ((P \cup {me.item}) \X {w})
    BY <1>2, <1>4 DEF Placed
  <2>3. Placed(s, L, s.rec.ids, P \cup {me.item})'
    BY <1>2, <1>4, <1>5, <1>7, <2>1, <2>2 DEF Placed
  <2> QED BY <1>6, <2>3 DEF AtPhones
<1>8. ASSUME UNCHANGED before PROVE Arrives(Phoned(s), s)'
  BY <1>5, <1>7, <1>8, LoopsGoNext DEF PhonedGoes
<1>9. Phoned(s).pc \in Going /\ Phoned(s).rec = me.rec
  BY <1>5, PhonedFields DEF Going, HasTarget
<1>10. UNCHANGED before => Stands(Phoned(s))'
  BY <1>8 DEF Arrives
<1> QED BY <1>4, <1>9, <1>10 DEF Reaches

\* Writing the anchor.
LEMMA SetAnchorStands ==
  ASSUME NEW p, NEW me, me = req[p], Ready(me), SetAnchor(p)
  PROVE  \E t : Becomes(p, t) /\ Reaches(t, me)
<1> DEFINE t == [me EXCEPT !.pc = "answer", !.item = NoKey]
           w == me.target
<1>1. /\ me \in Locals /\ AtAnchor(me) /\ TypeOK /\ w \in Cids /\ me.item \in StrongKeys
  BY DEF SetAnchor, Ready, RowsInv, Stands, LocalOK, HasTarget
<1>2. PICK L \in SUBSET Cids : Placed(me, L, me.rec.ids, me.rec.phones)
  BY <1>1 DEF AtAnchor, AtReread
<1>3. Live(w)
  BY <1>2, KeysAssumption DEF Placed, Live
<1>4. /\ anchor' = [anchor EXCEPT ![w] = me.item]
      /\ Becomes(p, t)
      /\ UNCHANGED <<owner, phoneEdge>>
  BY <1>3 DEF SetAnchor
<1>5. t.pc = "answer" /\ t.rec = me.rec /\ t.target = w
  BY <1>1 DEF Locals
<1> HIDE DEF t
<1>6. /\ anchor'[w] = me.item
      /\ \A c \in Cids \ {w} : anchor'[c] = anchor[c]
  BY <1>1, <1>4 DEF TypeOK
<1>7. ASSUME UNCHANGED before PROVE Stands(t)'
  <2>1. Chosen(me.rec, w, L)'
    BY <1>2, <1>7, Frozen DEF Placed
  <2>2. Placed(t, L, t.rec.ids, t.rec.phones)'
    BY <1>1, <1>2, <1>4, <1>5, <1>6, <1>7, <2>1 DEF Placed
  <2>3. Members(w)' = Members(w)
    BY <1>4 DEF Members
  <2>4. AtAnswer(t)'
    BY <1>1, <1>5, <1>6, <2>2, <2>3 DEF AtAnchor, AtAnswer, AtReread
  <2> QED BY <1>5, <2>4 DEF Stands
<1> QED BY <1>4, <1>5, <1>7 DEF Reaches, Going, HasTarget


-----------------------------------------------------------------------------
(***************************************************************************)
(* From the first statement to the answer.                                 *)
(***************************************************************************)

\* Every statement but the answer's leaves the request where it stands next.
LEMMA StepStands ==
  ASSUME NEW p \in Requests, NEW me, me = req[p], Ready(me), Step(p), ~ Answer(p)
  PROVE  \E t : Becomes(p, t) /\ Reaches(t, me)
<1>1. Ready(req[p])
  OBVIOUS
<1>2. CASE \/ Find(p) \/ ReadRank(p) \/ ReadWinner(p) \/ Compare(p) \/ Refresh(p) \/ Adopt(p)
           \/ FindOwner(p) \/ FindPhone(p) \/ Reread(p) \/ ReadAnchor(p)
  <2>1. UNCHANGED vars
    BY <1>2 DEF Find, ReadRank, ReadWinner, Compare, Refresh, Adopt, FindOwner, FindPhone, Reread,
                ReadAnchor
  <2>2. \E t : Becomes(p, t) /\ Arrives(t, req[p])
    BY <1>1, <1>2, FindStands, ReadRankStands, ReadWinnerStands, CompareStands, RefreshStands,
       AdoptStands, FindOwnerStands, FindPhoneStands, RereadStands, ReadAnchorStands
  <2>3. PICK t : Becomes(p, t) /\ Arrives(t, me)
    BY <2>2
  <2>4. Stands(t) /\ t.pc \in Going /\ t.rec = me.rec
    BY <2>3 DEF Arrives
  <2>5. UNCHANGED before => Stands(t)'
    BY <2>1, <2>4, StandsFrozen
  <2> QED BY <2>3, <2>4, <2>5 DEF Reaches
<1>3. CASE \/ Unite(p) \/ Absorb(p) \/ Mint(p) \/ WriteKey(p) \/ WritePhone(p) \/ SetAnchor(p)
  BY <1>3, UniteStands, AbsorbStands, MintStands, WriteKeyStands, WritePhoneStands, SetAnchorStands
<1> QED BY <1>2, <1>3 DEF Step

\* The record is attached as a whole.
Whole(s) ==
  /\ Live(s.target)
  /\ s.rec.ids \cap Identity \subseteq Members(s.target)
  /\ s.rec.ids \subseteq Known
  /\ IsEntityAnchor(anchor[s.target], Members(s.target))

\* The answered record is attached as a whole.
LEMMA AnswerWhole ==
  ASSUME NEW s, Ready(s), AtAnswer(s), s.target \in Cids
  PROVE  Whole(s)
<1> DEFINE w == s.target
<1>1. BeforeOK /\ s.rec.ids \subseteq StrongKeys /\ IsEntityAnchor(anchor[w], Members(w))
  BY DEF Ready, LocalOK, Locals, AnyRecord, AtAnswer
<1>2. PICK L \in SUBSET Cids : Placed(s, L, s.rec.ids, s.rec.phones)
  BY DEF AtAnswer, AtReread
<1> DEFINE merged == Repointed(before.owner, L, w)
<1>3. \A k \in s.rec.ids :
        owner[k] = IF k \in s.rec.ids \cap Claims(s.rec, merged) THEN w ELSE merged[k]
  BY <1>1, <1>2, PlacedOwner
<1>4. \A k \in s.rec.ids : k \in Identity => owner[k] = w
  BY <1>3 DEF Claims
<1>5. \A k \in s.rec.ids : owner[k] # NoCid
  BY <1>3, KeysAssumption DEF Claims
<1>6. Live(w)
  BY <1>2, KeysAssumption DEF Placed, Live
<1> QED BY <1>1, <1>4, <1>5, <1>6 DEF Whole, Members, Known

\* What an answered request has done since it began is one Commit of its record.
LEMMA AnswerCommits ==
  ASSUME NEW s, Ready(s), AtAnswer(s), s.target \in Cids, UNCHANGED vars, before' = Tables'
  PROVE  Atomic!CommitStep
<1> DEFINE w == s.target
           r == s.rec
<1>1. /\ BeforeOK /\ RowsInv /\ r.ids \subseteq StrongKeys
      /\ IsEntityAnchor(anchor[w], Members(w)) /\ r \in Records
  BY DEF Ready, Began, LocalOK, Locals, AnyRecord, AtAnswer
<1>2. PICK L \in SUBSET Cids : Placed(s, L, r.ids, r.phones)
  BY DEF AtAnswer, AtReread
<1>3. /\ before.owner' = owner /\ before.anchor' = anchor /\ before.phoneEdge' = phoneEdge
      /\ before.nameIndex' = {} /\ before.unique' = [n \in Names |-> NoCid]
  BY <1>1 DEF Tables, vars, RowsInv, NoNames
<1>4. Members(w) # {}
  BY <1>1, <1>2, PlacedHolds
<1>5. Atomic!CommitTo(r, w, L)
  <2> DEFINE merged == Repointed(before.owner, L, w)
  <2>1. before.owner' =
          [k \in StrongKeys |-> IF k \in Claims(r, merged) THEN w ELSE merged[k]]
    BY <1>2, <1>3 DEF Placed, Claims
  <2>2. Atomic!Members(w)' = Members(w)
    BY <1>3 DEF Atomic!Members, Members, Atomic!StrongKeys, StrongKeys
  <2>3. anchor[w] \in StrongKeys /\ Atomic!Sharpens(anchor[w], Members(w), before.anchor[w])
    BY <1>1, <1>2, <1>4 DEF Placed, Atomic!Sharpens, Atomic!IsEntityAnchor, Atomic!IsStrongest,
                            Atomic!Stronger, IsEntityAnchor, IsStrongest, Stronger
  <2>4. before.anchor' = Atomic!MergedAnchors(w, L, anchor[w])
    <3>1. anchor \in [Cids -> StrongKeys \cup {NoKey}]
      BY <1>1 DEF RowsInv, TypeOK
    <3>2. \A c \in Cids :
            anchor[c] = IF c \in L THEN NoKey ELSE IF c = w THEN anchor[w] ELSE before.anchor[c]
      BY <1>2 DEF Placed
    <3>3. anchor = [c \in Cids |-> IF c \in L THEN NoKey
                                   ELSE IF c = w THEN anchor[w] ELSE before.anchor[c]]
      BY <3>1, <3>2
    <3> QED BY <1>3, <3>3 DEF Atomic!MergedAnchors, Atomic!Cids, Atomic!StrongKeys, Cids, StrongKeys
  <2>5. before.phoneEdge' = Atomic!RepointedRows(before.phoneEdge, L, w) \cup (r.phones \X {w})
    BY <1>2, <1>3 DEF Placed, RepointedRows, Atomic!RepointedRows
  <2>6. before.nameIndex' = Atomic!RepointedRows(before.nameIndex, L, w)
    BY <1>1, <1>3 DEF BeforeOK, Atomic!RepointedRows
  <2>7. before.unique' = Atomic!Repointed(before.unique, L, w)
    <3>1. NoCid \notin L
      BY KeysAssumption
    <3> QED BY <1>1, <1>3, <3>1 DEF BeforeOK, Atomic!Repointed
  <2> QED BY <2>1, <2>2, <2>3, <2>4, <2>5, <2>6, <2>7
         DEF Atomic!CommitTo, Atomic!Claims, Claims, Atomic!Repointed, Repointed,
             Atomic!StrongKeys, StrongKeys
<1>6. Chosen(r, w, L)
  BY <1>2 DEF Placed
<1>7. Atomic!CommitByIdentity(r) \/ Atomic!CommitByAffiliation(r) \/ Atomic!CommitNew(r)
  <2>1. \A C : Atomic!IsWinner(w, C) => w \in C
    BY WinnerThen
  <2>2. CASE /\ Atomic!IsWinner(w, Atomic!IdHits(r))
             /\ L = Atomic!AbsorbedByIdentity(r) \ {w}
    BY <1>5, <2>1, <2>2 DEF Atomic!CommitByIdentity
  <2>3. CASE /\ r.ids \cap Identity = {}
             /\ Atomic!IsWinner(w, Atomic!AfHits(r))
             /\ \E first \in Atomic!FirstBearing(w, Atomic!AfHits(r)) :
                  L = Atomic!AbsorbedByAffiliation(r, w, first) \ {w}
    BY <1>5, <2>1, <2>3 DEF Atomic!CommitByAffiliation
  <2>4. CASE /\ Atomic!IdHits(r) = {}
             /\ r.ids \cap Identity = {} => Atomic!AfHits(r) = {}
             /\ L = {}
             /\ \E k \in r.ids : IsEntityAnchor(k, r.ids) /\ w = CidOf(k)
    BY <1>5, <2>4 DEF Atomic!CommitNew, Atomic!CidOf, CidOf, Atomic!IsEntityAnchor,
                      Atomic!IsStrongest, Atomic!Stronger, IsEntityAnchor, IsStrongest, Stronger
  <2> QED BY <1>6, <2>2, <2>3, <2>4 DEF Chosen
<1>8. PICK strict \in Strict : ~ Atomic!Refused(r, strict)
  BY DEF Ready, Began, Refused, Atomic!Refused
<1> QED BY <1>1, <1>7, <1>8 DEF Atomic!CommitStep, Atomic!Commit


\* Between two requests the tables are in order.
LEMMA RestsOK ==
  ASSUME RowsInv, before = Tables
  PROVE  BeforeOK
BY DEF RowsInv, NoNames, Tables, BeforeOK, TypeOK, NoDanglingRow, Live, Atomic!TypeOK,
       Atomic!NoDanglingRow, Atomic!Live, Cids, StrongKeys, Atomic!Cids, Atomic!StrongKeys

RestsAlways == RowsInv /\ before = Tables => BeforeOK

\* It holds,
LEMMA RestsNow == RestsAlways
BY RestsOK DEF RestsAlways

\* and in the next state.
LEMMA RestsNext == RestsAlways'
BY RestsNow, PTL

\* A request at rest after a step.
LEMMA RestsAfter ==
  ASSUME RowsInv', before' = Tables'
  PROVE  BeforeOK'
BY RestsNext DEF RestsAlways

\* Only a running request takes a step.
LEMMA StepRuns ==
  ASSUME NEW p, Step(p)
  PROVE  Running(p)
BY DEF Step, Running, Find, ReadRank, Unite, ReadWinner, Compare, Absorb, Refresh, Adopt, Mint,
       FindOwner, WriteKey, FindPhone, WritePhone, Reread, ReadAnchor, SetAnchor, Answer

\* When one request moves, the others are where they were.
LEMMA OthersRest ==
  ASSUME LocalsInv, NEW p \in Requests, NEW s, Becomes(p, s)
  PROVE  req'[p] = s /\ \A other \in Requests \ {p} : req'[other] = req[other]
BY DEF LocalsInv, Becomes

\* A request begins in untouched tables.
LEMMA BeginSolo ==
  ASSUME SoloInv, NEW p \in Requests, NEW r \in Records, ~ Busy, Begin(p, r),
         before' = IF Busy' THEN before ELSE Tables'
  PROVE  SoloInv' /\ UNCHANGED before
<1> DEFINE s == Goto(AtRest("idle", r, NoCid), "find", r.ids)
<1>1. /\ RowsInv /\ LocalsInv /\ BeforeOK /\ before = Tables /\ AloneNeverFails
      /\ \A k \in Requests : ~ Running(k)
  BY DEF SoloInv, Busy
<1>2. r \in AnyRecord /\ r.ids \subseteq StrongKeys
  BY RecordsAssumption DEF AnyRecord
<1>3. Becomes(p, s) /\ LocalOK(s) /\ UNCHANGED vars
  BY <1>2, BeginLocals
<1>4. /\ s.pc = "find" /\ s.rec = r /\ s.todo = r.ids /\ s.target = NoCid
      /\ s.idHits = {} /\ s.afHits = {} /\ s \in Locals
  BY <1>3 DEF LocalOK, Goto, AtRest
<1>5. Began(s)
  BY <1>4 DEF Began, Begin
<1> HIDE DEF s
<1>6. req'[p] = s /\ \A other \in Requests \ {p} : req'[other] = req[other]
  BY <1>1, <1>3, OthersRest
<1>7. Running(p)' /\ \A other \in Requests \ {p} : ~ Running(other)'
  BY <1>1, <1>4, <1>6 DEF Running
<1>8. Busy' /\ UNCHANGED before
  BY <1>7 DEF Busy
<1>9. RowsInv' /\ LocalsInv'
  BY <1>1, <1>3, ReadsRows, BecomesLocals
<1>10. BeforeOK'
  BY <1>1, <1>8 DEF BeforeOK, Atomic!TypeOK, Atomic!NoDanglingRow, Atomic!Live
<1>11. Stands(s)
  <2>1. \A K : K = {} => Atomic!Hits(K) = {}
    BY HitsThen
  <2>2. (s.rec.ids \ s.todo) \cap Identity = {} /\ (s.rec.ids \ s.todo) \cap Affiliation = {}
    BY <1>4
  <2>3. AtFind(s)
    BY <1>1, <1>4, <2>1, <2>2 DEF AtFind, Untouched, Tables
  <2> QED BY <1>4, <2>3 DEF Stands
<1>12. Stands(s)'
  BY <1>3, <1>8, <1>11, StandsFrozen
<1>13. Began(s)'
  BY <1>5 DEF Began, Refused
<1>14. \A k \in Requests, t \in Locals : Running(k)' /\ req'[k] = t => Began(t)' /\ Stands(t)'
  BY <1>6, <1>7, <1>12, <1>13
<1>15. AloneNeverFails'
  BY <1>1, <1>4, <1>6 DEF AloneNeverFails
<1>16. (\A j, k \in Requests : j = k) => AnsweredIsWhole'
  BY <1>4, <1>6 DEF AnsweredIsWhole
<1> QED BY <1>7, <1>8, <1>9, <1>10, <1>14, <1>15, <1>16 DEF SoloInv

\* What the invariant says of the request that runs.
LEMMA RunsReady ==
  ASSUME SoloInv, NEW p \in Requests, Running(p)
  PROVE  /\ Ready(req[p]) /\ req[p] \in Locals /\ LocalsInv /\ RowsInv /\ AloneNeverFails
         /\ \A other \in Requests \ {p} : ~ Running(other)
<1>1. LocalsInv /\ RowsInv /\ BeforeOK /\ AloneNeverFails /\ LocalOK(req[p])
  BY DEF SoloInv, LocalsInv
<1>2. PICK s \in Locals : s = req[p]
  BY <1>1 DEF LocalOK
<1>3. Began(s) /\ Stands(s)
  BY <1>2 DEF SoloInv
<1>4. Ready(s)
  BY <1>1, <1>2, <1>3 DEF Ready
<1> QED BY <1>1, <1>2, <1>4 DEF SoloInv

\* A statement before the answer.
LEMMA StepSolo ==
  ASSUME SoloInv, NEW p \in Requests, Step(p), ~ Answer(p),
         before' = IF Busy' THEN before ELSE Tables'
  PROVE  SoloInv' /\ UNCHANGED before
<1>1. Running(p)
  BY StepRuns
<1>2. PICK me : me = req[p]
  OBVIOUS
<1>3. /\ Ready(me) /\ LocalOK(req[p]) /\ LocalsInv /\ RowsInv /\ BeforeOK /\ AloneNeverFails
      /\ \A other \in Requests \ {p} : ~ Running(other)
  BY <1>1, <1>2, RunsReady DEF SoloInv, LocalsInv
<1>4. PICK t : Becomes(p, t) /\ Reaches(t, me)
  BY <1>2, <1>3, StepStands
<1>5. req'[p] = t /\ \A other \in Requests \ {p} : req'[other] = req[other]
  BY <1>3, <1>4, OthersRest
<1>6. t.pc \in Going /\ t.rec = me.rec
  BY <1>4 DEF Reaches
<1>7. Running(p)' /\ \A other \in Requests \ {p} : ~ Running(other)'
  BY <1>3, <1>5, <1>6 DEF Running, Going, HasTarget
<1>8. Busy' /\ UNCHANGED before
  BY <1>7 DEF Busy
<1>9. RowsInv'
  BY <1>3, StepRows
<1>10. LocalsInv'
  <2>1. PICK s : LocalOK(s) /\ Becomes(p, s)
    BY <1>3, StepLocals DEF RowsInv
  <2> QED BY <1>3, <2>1, BecomesLocals
<1>11. BeforeOK'
  BY <1>3, <1>8 DEF BeforeOK, Atomic!TypeOK, Atomic!NoDanglingRow, Atomic!Live
<1>12. Stands(t)'
  BY <1>4, <1>8 DEF Reaches
<1>13. Began(t)'
  BY <1>3, <1>6 DEF Ready, Began, Refused
<1>14. \A k \in Requests, s \in Locals : Running(k)' /\ req'[k] = s => Began(s)' /\ Stands(s)'
  BY <1>5, <1>7, <1>12, <1>13
<1>15. AloneNeverFails'
  BY <1>3, <1>5, <1>6 DEF AloneNeverFails, Going, HasTarget
<1>16. (\A j, k \in Requests : j = k) => AnsweredIsWhole'
  BY <1>5, <1>6 DEF AnsweredIsWhole, Going, HasTarget
<1> QED BY <1>7, <1>8, <1>9, <1>10, <1>11, <1>14, <1>15, <1>16 DEF SoloInv

\* When the request that ran no longer does, the tables are at rest.
LEMMA EndSolo ==
  ASSUME SoloInv, NEW p \in Requests, Running(p), NEW s, LocalOK(s), Becomes(p, s),
         s.pc \in {"done", "crashed"}, UNCHANGED vars,
         before' = IF Busy' THEN before ELSE Tables',
         s.pc = "done" => s.target \in Cids /\ Whole(s)
  PROVE  SoloInv' /\ before' = Tables'
<1>1. /\ LocalsInv /\ RowsInv /\ AloneNeverFails
      /\ \A other \in Requests \ {p} : ~ Running(other)
  BY RunsReady
<1>2. req'[p] = s /\ \A other \in Requests \ {p} : req'[other] = req[other]
  BY <1>1, OthersRest
<1>3. \A k \in Requests : ~ Running(k)'
  BY <1>1, <1>2 DEF Running
<1>4. ~ Busy' /\ before' = Tables'
  BY <1>3 DEF Busy
<1>5. RowsInv' /\ LocalsInv'
  BY <1>1, ReadsRows, BecomesLocals
<1>6. BeforeOK'
  BY <1>4, <1>5, RestsAfter
<1>7. AloneNeverFails'
  BY <1>1, <1>2 DEF AloneNeverFails
<1>8. ASSUME \A j, k \in Requests : j = k PROVE AnsweredIsWhole'
  <2>1. \A k \in Requests : req'[k] = s
    BY <1>2, <1>8
  <2>2. UNCHANGED <<owner, anchor>>
    BY DEF vars
  <2> QED BY <2>1, <2>2 DEF AnsweredIsWhole, Whole, Members, Known
<1> QED BY <1>3, <1>4, <1>5, <1>6, <1>7, <1>8 DEF SoloInv

\* The answer: one Commit since the request began.
LEMMA AnswerSolo ==
  ASSUME SoloInv, NEW p \in Requests, Answer(p), before' = IF Busy' THEN before ELSE Tables'
  PROVE  SoloInv' /\ Atomic!CommitStep
<1>1. PICK me : me = req[p]
  OBVIOUS
<1>2. Running(p) /\ me.pc = "answer" /\ UNCHANGED vars
  BY <1>1 DEF Answer, Running
<1>3. Ready(me) /\ me \in Locals /\ LocalOK(me)
  BY <1>1, <1>2, RunsReady DEF Ready
<1>4. AtAnswer(me) /\ me.target \in Cids /\ me.rec \in AnyRecord
  BY <1>2, <1>3 DEF Ready, Stands, LocalOK, HasTarget, Locals
<1>5. Whole(me)
  BY <1>3, <1>4, AnswerWhole
<1> DEFINE s == AtRest("done", me.rec, me.target)
<1>6. Becomes(p, s)
  BY <1>1, <1>5 DEF Answer, Whole
<1>7. LocalOK(s) /\ s.pc = "done" /\ s.rec = me.rec /\ s.target = me.target
  <2>1. LocalOK(s)
    BY <1>4, AtRestOK
  <2> QED BY <2>1 DEF AtRest
<1> HIDE DEF s
<1>8. Whole(s)
  BY <1>5, <1>7 DEF Whole
<1>9. SoloInv' /\ before' = Tables'
  BY <1>2, <1>4, <1>6, <1>7, <1>8, EndSolo
<1> QED BY <1>2, <1>3, <1>4, <1>9, AnswerCommits

\* A crash leaves tables without a dangling row.
LEMMA CrashSolo ==
  ASSUME SoloInv, NEW p \in Requests, Crash(p), before' = IF Busy' THEN before ELSE Tables'
  PROVE  SoloInv' /\ Interrupted
<1> DEFINE s == AtRest("crashed", req[p].rec, NoCid)
<1>1. Running(p) /\ Becomes(p, s) /\ UNCHANGED vars
  BY DEF Crash
<1>2. LocalsInv /\ req[p].rec \in AnyRecord
  BY DEF SoloInv, LocalsInv, LocalOK, Locals
<1>3. LocalOK(s)
  BY <1>2, AtRestOK
<1>4. s.pc = "crashed"
  BY DEF AtRest
<1>5. PICK u : u = s
  OBVIOUS
<1> HIDE DEF s
<1>6. SoloInv'
  BY <1>1, <1>3, <1>4, <1>5, EndSolo
<1>7. req'[p] = s
  BY <1>1, <1>2, OthersRest
<1> QED BY <1>4, <1>6, <1>7 DEF Interrupted

\* The invariant is inductive, and the tables between requests move by whole commits.
LEMMA SoloInduction ==
  ASSUME SoloInv, [SoloNext]_<<allVars, before>>
  PROVE  SoloInv' /\ [Interrupted \/ Atomic!CommitStep]_before
<1>1. CASE SoloNext
  <2>1. before' = IF Busy' THEN before ELSE Tables'
    BY <1>1 DEF SoloNext
  <2>2. ASSUME NEW p \in Requests, NEW r \in Records, ~ Busy, Begin(p, r)
        PROVE  SoloInv' /\ UNCHANGED before
    BY <2>1, <2>2, BeginSolo
  <2>3. ASSUME NEW p \in Requests, Step(p)
        PROVE  SoloInv' /\ (UNCHANGED before \/ Atomic!CommitStep)
    BY <2>1, <2>3, StepSolo, AnswerSolo
  <2>4. ASSUME NEW p \in Requests, Crash(p)
        PROVE  SoloInv' /\ Interrupted
    BY <2>1, <2>4, CrashSolo
  <2> QED BY <1>1, <2>2, <2>3, <2>4 DEF SoloNext
<1>2. CASE UNCHANGED <<allVars, before>>
  <2>1. UNCHANGED <<owner, anchor, phoneEdge, nameIndex, unique, req, before, vars>>
    BY <1>2 DEF allVars, vars
  <2>2. RowsInv' /\ LocalsInv' /\ BeforeOK'
    BY <2>1, ReadsRows DEF SoloInv, LocalsInv, LocalOK, BeforeOK, Atomic!TypeOK,
                           Atomic!NoDanglingRow, Atomic!Live
  <2>3. \A s \in Locals : Began(s) /\ Stands(s) => Began(s)' /\ Stands(s)'
    BY <2>1, StandsFrozen DEF Began, Refused
  <2>4. /\ \A k \in Requests : Running(k)' <=> Running(k)
        /\ Busy' <=> Busy
        /\ Tables' = Tables
        /\ AloneNeverFails' <=> AloneNeverFails
        /\ AnsweredIsWhole' <=> AnsweredIsWhole
    BY <2>1 DEF Running, Busy, Tables, AloneNeverFails, AnsweredIsWhole, Members, Known
  <2> QED BY <2>1, <2>2, <2>3, <2>4 DEF SoloInv
<1> QED BY <1>1, <1>2

\* Nothing runs at first.
LEMMA SoloStarts ==
  ASSUME SoloInit
  PROVE  SoloInv /\ Atomic!Init
<1>1. /\ owner = [k \in StrongKeys |-> NoCid] /\ anchor = [c \in Cids |-> NoKey]
      /\ phoneEdge = {} /\ nameIndex = {} /\ unique = [n \in Names |-> NoCid]
      /\ req = [p \in Requests |-> AtRest("idle", NoRecord, NoCid)] /\ before = Tables
  BY DEF SoloInit, D1Init, EvidenceInit, Init
<1>2. RowsInv
  BY <1>1 DEF RowsInv, NoNames, TypeOK, NoDanglingRow
<1>3. LocalOK(AtRest("idle", NoRecord, NoCid))
  BY AtRestOK DEF NoRecord, AnyRecord
<1>4. LocalsInv
  BY <1>1, <1>3 DEF LocalsInv, LocalOK
<1>5. \A p \in Requests : req[p].pc = "idle"
  BY <1>1 DEF AtRest
<1>6. AloneNeverFails /\ AnsweredIsWhole /\ (\A p \in Requests : ~ Running(p))
  BY <1>5 DEF AloneNeverFails, AnsweredIsWhole, Running
<1>7. SoloInv
  BY <1>1, <1>2, <1>4, <1>6, RestsOK DEF SoloInv
<1>8. Atomic!Init
  BY <1>1 DEF Tables, Atomic!Init, Atomic!Cids, Atomic!StrongKeys, Cids, StrongKeys
<1> QED BY <1>7, <1>8

\* One request at a time, the statements of commit_record_with_opts on D1 implement the
\* whole commit of Crosswalk, whatever the tables an earlier crash left.
THEOREM SoloImplementsCommit == SoloSpec => ImplementsCommit
<1>1. SoloInit => SoloInv /\ Atomic!Init
  BY SoloStarts
<1>2. SoloInv /\ [SoloNext]_<<allVars, before>> =>
        SoloInv' /\ [Interrupted \/ Atomic!CommitStep]_before
  BY SoloInduction
<1> QED BY <1>1, <1>2, PTL DEF SoloSpec, ImplementsCommit

\* Alone, a request is refused by no foreign key and misses no entity, so
\* commit_record_with_opts ends in an error only when a statement is lost.
THEOREM AloneIsAnswered == SoloSpec => []AloneNeverFails
<1>1. SoloInit => SoloInv
  BY SoloStarts
<1>2. SoloInv /\ [SoloNext]_<<allVars, before>> => SoloInv'
  BY SoloInduction
<1>3. SoloInv => AloneNeverFails
  BY DEF SoloInv
<1> QED BY <1>1, <1>2, <1>3, PTL DEF SoloSpec

\* A client that repeats its request until it is answered finds its record attached as
\* a whole, whatever its earlier attempts left in the tables of store/d1.rs.
THEOREM AnswersAreWhole ==
  (\A j, k \in Requests : j = k) => (SoloSpec => []AnsweredIsWhole)
<1> SUFFICES ASSUME \A j, k \in Requests : j = k PROVE SoloSpec => []AnsweredIsWhole
  OBVIOUS
<1>1. SoloInit => SoloInv
  BY SoloStarts
<1>2. SoloInv /\ [SoloNext]_<<allVars, before>> => SoloInv'
  BY SoloInduction
<1>3. SoloInv => AnsweredIsWhole
  BY DEF SoloInv
<1> QED BY <1>1, <1>2, <1>3, PTL DEF SoloSpec

-----------------------------------------------------------------------------
(***************************************************************************)
(* One client at a time that repeats what it did not finish: what each     *)
(* statement does to the grain of the entities.                            *)
(***************************************************************************)

\* Identity keys on one entity are connected by evidence.
OwnersConnected ==
  \A X \in SUBSET Identity, j, k \in Identity :
    Partition!Closed(X) /\ owner[j] # NoCid /\ owner[j] = owner[k] /\ j \in X => k \in X

\* The record was asserted, and evidence connects it with what c holds.
Evident(r) == r.ids \cap Identity # {} => r.ids \cap Identity \in asserted

Bound(r, c) ==
  \A X \in SUBSET Identity, j \in r.ids \cap Identity, k \in IdMembers(c) :
    Partition!Closed(X) => (j \in X <=> k \in X)

\* An entity minted from a key that is not attached yet is one that the record mints.
MintLeft(r) ==
  \A a \in StrongKeys :
    Live(CidOf(a)) /\ a \notin Known => IsEntityAnchor(a, r.ids) /\ Bound(r, CidOf(a))

GrainOf(s) ==
  /\ s.pc \in Going \cup {"crashed"} => Evident(s.rec) /\ MintLeft(s.rec)
  /\ s.pc \in {"idle", "done"} => \A a \in StrongKeys : Live(CidOf(a)) => a \in Known
  /\ s.pc = "absorb" => ~ IdentityConflict(Members(s.target), Members(s.item))

GrainInv ==
  /\ SoloInv /\ OwnersConnected
  /\ \A p \in Requests, s \in Locals : req[p] = s => GrainOf(s)

\* Evidence is added, so a set that no evidence leaves was one before.
LEMMA ClosedBefore ==
  ASSUME asserted \subseteq asserted', NEW X, Partition!Closed(X)'
  PROVE  Partition!Closed(X)
BY DEF Partition!Closed

\* What is connected with one key of the record is connected with all.
LEMMA BoundByKey ==
  ASSUME OwnersConnected, NEW r, Evident(r), NEW c \in Cids, NEW i \in r.ids \cap Identity,
         owner[i] = c
  PROVE  Bound(r, c)
<1> SUFFICES ASSUME NEW X \in SUBSET Identity, NEW j \in r.ids \cap Identity,
                    NEW k \in IdMembers(c), Partition!Closed(X)
             PROVE  j \in X <=> k \in X
  BY DEF Bound
<1>1. j \in X <=> i \in X
  BY DEF Evident, Partition!Closed
<1>2. k \in Identity /\ owner[k] = c /\ c # NoCid
  BY KeysAssumption DEF IdMembers, Members
<1>3. i \in X <=> k \in X
  BY <1>2 DEF OwnersConnected
<1> QED BY <1>1, <1>3

\* Where no node is written and no entity comes or goes, the grain stays.
LEMMA GrainFrozen ==
  ASSUME UNCHANGED owner, \A c \in Cids : Live(c)' <=> Live(c), asserted \subseteq asserted'
  PROVE  /\ OwnersConnected => OwnersConnected'
         /\ \A r : Evident(r) => Evident(r)'
         /\ \A r : MintLeft(r) => MintLeft(r)'
<1>1. \A c : IdMembers(c)' = IdMembers(c)
  BY DEF IdMembers, Members
<1>2. Known' = Known
  BY DEF Known
<1>3. OwnersConnected => OwnersConnected'
  BY ClosedBefore DEF OwnersConnected
<1>4. \A r, c : Bound(r, c) => Bound(r, c)'
  BY <1>1, ClosedBefore DEF Bound
<1>5. \A r : MintLeft(r) => MintLeft(r)'
  BY <1>2, <1>4, CidOfType DEF MintLeft
<1> QED BY <1>3, <1>5 DEF Evident

\* The entity c joins w: what evidence connects with the two stays connected.
LEMMA MergeGrain ==
  ASSUME TypeOK, OwnersConnected, NEW r, MintLeft(r), Evident(r),
         NEW w \in Cids, NEW c \in Cids \ {w}, Bound(r, w), Bound(r, c),
         \/ r.ids \cap Identity # {}
         \/ IdMembers(w) = {} \/ IdMembers(c) = {},
         owner' = Repointed(owner, {c}, w), anchor' = [anchor EXCEPT ![c] = NoKey],
         asserted' = asserted
  PROVE  OwnersConnected' /\ MintLeft(r)' /\ Evident(r)'
<1>1. /\ Identity \subseteq StrongKeys /\ NoCid \notin Cids
      /\ owner \in [StrongKeys -> Cids \cup {NoCid}]
  BY KeysAssumption DEF StrongKeys, TypeOK
<1>2. \A k \in StrongKeys : owner'[k] = IF owner[k] = c THEN w ELSE owner[k]
  BY <1>1 DEF Repointed
<1>3. \A X : Partition!Closed(X)' <=> Partition!Closed(X)
  BY DEF Partition!Closed
<1>4. Known' = Known
  BY <1>1, <1>2 DEF Known
<1>5. \A d : \A k : k \in IdMembers(d) <=> k \in Identity /\ owner[k] = d
  BY <1>1 DEF IdMembers, Members
<1>6. \A d : \A k : k \in IdMembers(d)' <=> k \in Identity /\ owner'[k] = d
  BY <1>1 DEF IdMembers, Members
<1>7. OwnersConnected'
  <2> SUFFICES ASSUME NEW X \in SUBSET Identity, NEW j \in Identity, NEW k \in Identity,
                      Partition!Closed(X), owner'[j] # NoCid, owner'[j] = owner'[k], j \in X
               PROVE  k \in X
    BY <1>3 DEF OwnersConnected
  <2>1. CASE owner[j] = owner[k]
    BY <1>1, <1>2, <2>1 DEF OwnersConnected
  <2>2. CASE owner[j] # owner[k]
    <3>1. \/ owner[j] = w /\ owner[k] = c
          \/ owner[j] = c /\ owner[k] = w
      BY <1>1, <1>2, <2>2
    <3>2. r.ids \cap Identity # {}
      BY <1>5, <3>1
    <3>3. PICK i : i \in r.ids \cap Identity
      BY <3>2
    <3>4. (i \in X <=> j \in X) /\ (i \in X <=> k \in X)
      BY <1>5, <3>1, <3>3 DEF Bound
    <3> QED BY <3>4
  <2> QED BY <2>1, <2>2
<1>8. MintLeft(r)'
  <2> SUFFICES ASSUME NEW a \in StrongKeys, Live(CidOf(a))', a \notin Known
               PROVE  IsEntityAnchor(a, r.ids) /\ Bound(r, CidOf(a))'
    BY <1>4 DEF MintLeft
  <2>1. CidOf(a) \in Cids
    BY CidOfType
  <2>2. Live(CidOf(a)) /\ CidOf(a) # c
    BY <2>1 DEF Live, TypeOK
  <2>3. IsEntityAnchor(a, r.ids) /\ Bound(r, CidOf(a))
    BY <2>2 DEF MintLeft
  <2>4. \A k : k \in IdMembers(CidOf(a))' => k \in IdMembers(CidOf(a)) \/ k \in IdMembers(c)
    BY <1>1, <1>2, <1>5, <1>6
  <2>5. Bound(r, CidOf(a))'
    BY <1>3, <2>3, <2>4 DEF Bound
  <2> QED BY <2>3, <2>5
<1> QED BY <1>7, <1>8 DEF Evident

\* A winner chosen by a record with identity keys holds one of them.
LEMMA WinnerHolds ==
  ASSUME BeforeOK, NEW s, WinnerFound(s), s.rec.ids \subseteq StrongKeys,
         s.rec.ids \cap Identity # {}, NEW L, Merged(s.target, L)
  PROVE  /\ \E k \in s.rec.ids \cap Identity : owner[k] = s.target
         /\ \A c \in s.idHits \ L : \E k \in s.rec.ids \cap Identity : owner[k] = c
<1>1. before.owner \in [StrongKeys -> Cids \cup {NoCid}]
  BY BeforeTables
<1>2. s.idHits = Atomic!Hits(s.rec.ids \cap Identity) /\ s.idHits # {} /\ s.target \in s.idHits
  BY OwnersThen, WinnerThen DEF WinnerFound, OwnersFound, Rivals
<1>3. \A c \in s.idHits : \E k \in s.rec.ids \cap Identity : before.owner[k] = c
  BY <1>2, HitsThen
<1>4. \A k \in StrongKeys : owner[k] = IF before.owner[k] \in L THEN s.target ELSE before.owner[k]
  BY <1>1 DEF Merged, Repointed
<1> QED BY <1>2, <1>3, <1>4

\* What a statement leaves of the grain.
Grained(r) == OwnersConnected /\ MintLeft(r) /\ Evident(r)

\* Merging another owner of an identity key: both hold one of the record.
LEMMA UniteGrain ==
  ASSUME NEW p, NEW me, me = req[p], Ready(me), Grained(me.rec), Unite(p)
  PROVE  Grained(me.rec)'
<1> DEFINE w == me.target
           L == (me.idHits \ {w}) \ me.todo
           r == me.rec
<1>1. /\ me \in Locals /\ BeforeOK /\ WinnerFound(me) /\ Merged(w, L) /\ TypeOK
      /\ me.pc = "unite" /\ me.todo \subseteq Cids \ {w} /\ me.todo \subseteq me.idHits
      /\ r.ids \subseteq StrongKeys
  BY DEF Unite, Ready, Stands, LocalOK, AtUnite, Locals, AnyRecord, RowsInv
<1>2. PICK c \in me.todo :
        MergeInto(p, w, c, IF me.todo = {c} THEN Goto(me, "members", {}) ELSE Without(me, c))
  BY DEF Unite
<1>3. w \in Cids /\ before.anchor[w] \in StrongKeys /\ w \notin L /\ c \in Cids \ {w}
  BY <1>1, WinnerAlive
<1>4. Live(w)
  BY <1>1, <1>3, KeysAssumption DEF Merged, Live
<1>5. /\ owner' = Repointed(owner, {c}, w) /\ anchor' = [anchor EXCEPT ![c] = NoKey]
      /\ asserted' = asserted
  BY <1>2, <1>4 DEF MergeInto
<1>6. r.ids \cap Identity # {}
  <2>1. c \in Atomic!Hits(r.ids \cap Identity)
    BY <1>1, OwnersThen DEF WinnerFound, OwnersFound
  <2> QED BY <2>1, HitsThen
<1>7. c \in me.idHits \ L
  BY <1>1
<1>8. PICK i, j \in r.ids \cap Identity : owner[i] = w /\ owner[j] = c
  BY <1>1, <1>6, <1>7, WinnerHolds
<1>9. Bound(r, w) /\ Bound(r, c)
  BY <1>3, <1>8, BoundByKey DEF Grained
<1> QED BY <1>1, <1>3, <1>5, <1>6, <1>9, MergeGrain DEF Grained

\* Merging an owner of a domain: one of the two holds no identity key.
LEMMA AbsorbGrain ==
  ASSUME NEW p, NEW me, me = req[p], Ready(me), Grained(me.rec), Absorb(p),
         ~ IdentityConflict(Members(me.target), Members(me.item))
  PROVE  Grained(me.rec)'
<1> DEFINE w == me.target
           c == me.item
           r == me.rec
<1>1. /\ me \in Locals /\ LocalOK(me) /\ BeforeOK /\ AtAbsorb(me) /\ WinnerFound(me) /\ TypeOK
      /\ me.pc = "absorb" /\ r.ids \subseteq StrongKeys /\ w \in Cids /\ c \in Cids \ {w}
  BY DEF Absorb, Ready, Stands, LocalOK, AtAbsorb, Locals, AnyRecord, RowsInv, HasTarget
<1>2. PICK L \in SUBSET Cids : Merged(w, L) /\ L \subseteq Cids \ {w}
  BY <1>1 DEF AtAbsorb, Losers
<1>3. Live(w)
  BY <1>1, <1>2, WinnerAlive, KeysAssumption DEF Merged, Live
<1>4. /\ owner' = Repointed(owner, {c}, w) /\ anchor' = [anchor EXCEPT ![c] = NoKey]
      /\ asserted' = asserted
  BY <1>3 DEF Absorb, MergeInto
<1>5. IdMembers(w) = {} \/ IdMembers(c) = {}
  BY <1>1 DEF IdentityConflict, IdMembers, Members
<1>6. Bound(r, w) /\ Bound(r, c)
  <2>1. CASE r.ids \cap Identity = {}
    BY <2>1 DEF Bound
  <2>2. CASE r.ids \cap Identity # {}
    <3>1. PICK i \in r.ids \cap Identity : owner[i] = w
      BY <1>1, <1>2, <2>2, WinnerHolds
    <3>2. IdMembers(c) = {}
      BY <1>1, <1>5, <3>1 DEF IdMembers, Members
    <3> QED BY <1>1, <3>1, <3>2, BoundByKey DEF Grained, Bound
  <2> QED BY <2>1, <2>2
<1> QED BY <1>1, <1>4, <1>5, <1>6, MergeGrain DEF Grained

\* Minting: the id is free, or an earlier attempt of this record minted it.
LEMMA MintGrain ==
  ASSUME HashInjective, NEW p, NEW me, me = req[p], Ready(me), Grained(me.rec), Mint(p)
  PROVE  Grained(me.rec)'
<1> DEFINE r == me.rec
<1>1. /\ TypeOK /\ NoDanglingRow /\ AtMint(me) /\ r.ids \subseteq StrongKeys
      /\ NoKey \notin StrongKeys
  BY KeysAssumption DEF Mint, Ready, Stands, LocalOK, Locals, AnyRecord, RowsInv
<1>2. PICK a \in r.ids :
        /\ IsEntityAnchor(a, r.ids)
        /\ anchor' = [anchor EXCEPT ![CidOf(a)] = IF Live(CidOf(a)) THEN @ ELSE a]
        /\ UNCHANGED <<owner, asserted>>
  BY DEF Mint
<1>3. CidOf(a) \in Cids /\ NoCid \notin Cids
  BY <1>1, CidOfType, KeysAssumption
<1>4. \A c \in Cids : Live(c)' => Live(c) \/ c = CidOf(a)
  BY <1>1, <1>2, <1>3 DEF Live, TypeOK
<1>5. \A c : Bound(r, c) => Bound(r, c)'
  BY <1>2 DEF Bound, IdMembers, Members, Partition!Closed
<1>6. OwnersConnected' /\ Evident(r)'
  BY <1>2 DEF Grained, OwnersConnected, Evident, Partition!Closed
<1>7. a \notin Known => Bound(r, CidOf(a))
  <2>1. CASE Live(CidOf(a))
    BY <1>1, <2>1 DEF Grained, MintLeft
  <2>2. CASE ~ Live(CidOf(a))
    <3>1. IdMembers(CidOf(a)) = {}
      BY <1>1, <1>3, <2>2 DEF NoDanglingRow, IdMembers, Members
    <3> QED BY <3>1 DEF Bound
  <2> QED BY <2>1, <2>2
<1>8. MintLeft(r)'
  <2> SUFFICES ASSUME NEW b \in StrongKeys, Live(CidOf(b))', b \notin Known
               PROVE  IsEntityAnchor(b, r.ids) /\ Bound(r, CidOf(b))'
    BY <1>2 DEF MintLeft, Known
  <2>1. CASE CidOf(b) = CidOf(a)
    <3>1. b = a
      BY <1>1, <2>1 DEF HashInjective, CidOf
    <3> QED BY <1>2, <1>5, <1>7, <3>1
  <2>2. CASE CidOf(b) # CidOf(a)
    <3>1. Live(CidOf(b))
      BY <1>4, <2>2, CidOfType
    <3> QED BY <1>5, <3>1 DEF Grained, MintLeft
  <2> QED BY <2>1, <2>2
<1> QED BY <1>6, <1>8 DEF Grained

\* Where the record is placed, evidence connects it with all that its target holds.
LEMMA PlacedBound ==
  ASSUME NEW s, Ready(s), s.target \in Cids, Grained(s.rec), NEW L, NEW A, NEW P,
         Placed(s, L, A, P)
  PROVE  Bound(s.rec, s.target)
<1> DEFINE w == s.target
           r == s.rec
<1>1. /\ BeforeOK /\ r.ids \subseteq StrongKeys /\ OwnersConnected /\ Evident(r) /\ MintLeft(r)
      /\ NoCid \notin Cids /\ NoKey \notin StrongKeys
  BY KeysAssumption DEF Ready, LocalOK, Locals, AnyRecord, Grained
<1>2. before.owner \in [StrongKeys -> Cids \cup {NoCid}]
  BY <1>1, BeforeTables
<1>3. /\ w \notin L /\ Chosen(r, w, L) /\ Live(w)
      /\ owner = [k \in StrongKeys |->
                    IF k \in A \cap Claims(r, Repointed(before.owner, L, w)) THEN w
                    ELSE Repointed(before.owner, L, w)[k]]
  BY <1>1 DEF Placed, Live
<1>4. \A k \in StrongKeys : \/ owner[k] = w
                            \/ owner[k] = before.owner[k]
  BY <1>2, <1>3 DEF Repointed
<1>5. \A c : c \in Atomic!IdHits(r) <=>
        \E k \in r.ids \cap Identity : before.owner[k] # NoCid /\ before.owner[k] = c
  <2>1. Atomic!IdHits(r) = Atomic!Hits(r.ids \cap Identity)
    BY OwnersThen
  <2>2. (r.ids \cap Identity) \cap StrongKeys = r.ids \cap Identity
    BY <1>1
  <2> QED BY <2>1, <2>2, HitsThen
<1>6. CASE r.ids \cap Identity = {}
  BY <1>6 DEF Bound
<1>7. CASE w \in Atomic!IdHits(r)
  <2>1. PICK k \in r.ids \cap Identity : k \in StrongKeys /\ before.owner[k] = w
    BY <1>1, <1>5, <1>7
  <2>2. owner[k] = w
    BY <1>4, <2>1
  <2> QED BY <1>1, <2>1, <2>2, BoundByKey
<1>8. CASE r.ids \cap Identity # {} /\ Atomic!IdHits(r) = {}
  <2>1. PICK a \in r.ids : IsEntityAnchor(a, r.ids) /\ w = CidOf(a)
    BY <1>3, <1>8, WinnerThen DEF Chosen
  <2>2. a \in r.ids \cap Identity
    BY <1>8, <2>1 DEF IsEntityAnchor, IsStrongest
  <2>3. before.owner[a] = NoCid
    BY <1>1, <1>2, <1>5, <1>8, <2>2
  <2>4. CASE owner[a] = w
    BY <1>1, <2>2, <2>4, BoundByKey
  <2>5. CASE owner[a] # w
    <3>1. a \notin Known
      BY <1>1, <1>4, <2>2, <2>3, <2>5 DEF Known
    <3> QED BY <1>1, <1>3, <2>1, <2>2, <3>1 DEF MintLeft
  <2> QED BY <2>4, <2>5
<1> QED BY <1>3, <1>6, <1>7, <1>8, WinnerThen DEF Chosen

\* Attaching a key of the record to its target.
LEMMA WriteKeyGrain ==
  ASSUME NEW p, NEW me, me = req[p], Ready(me), Grained(me.rec), WriteKey(p)
  PROVE  Grained(me.rec)'
<1> DEFINE w == me.target
           r == me.rec
           k == me.item
<1>1. /\ AtWrite(me) /\ TypeOK /\ k \in r.ids /\ r.ids \subseteq StrongKeys
      /\ w \in Cids /\ NoCid \notin Cids /\ Identity \subseteq StrongKeys
  BY KeysAssumption DEF WriteKey, Ready, RowsInv, Stands, LocalOK, Locals, AnyRecord, HasTarget,
                        StrongKeys
<1>2. PICK L \in SUBSET Cids : Placed(me, L, me.rec.ids \ (me.todo \cup {me.item}), {})
  BY <1>1 DEF AtWrite
<1>3. Live(w) /\ Bound(r, w)
  <2>1. Live(w)
    BY <1>2, KeysAssumption DEF Placed, Live
  <2> QED BY <1>1, <1>2, <2>1, PlacedBound
<1>4. owner' = [owner EXCEPT ![k] = w] /\ UNCHANGED <<anchor, asserted>>
  BY <1>3 DEF WriteKey
<1>5. \A j \in StrongKeys : owner'[j] = IF j = k THEN w ELSE owner[j]
  BY <1>1, <1>4 DEF TypeOK
<1>6. \A X : Partition!Closed(X)' <=> Partition!Closed(X)
  BY <1>4 DEF Partition!Closed
<1>7. \A d, j : j \in IdMembers(d) <=> j \in Identity /\ owner[j] = d
  BY <1>1 DEF IdMembers, Members
<1>8. \A d, j : j \in IdMembers(d)' <=> j \in Identity /\ owner'[j] = d
  BY <1>1 DEF IdMembers, Members
<1>9. OwnersConnected'
  <2> SUFFICES ASSUME NEW X \in SUBSET Identity, NEW i \in Identity, NEW j \in Identity,
                      Partition!Closed(X), owner'[i] # NoCid, owner'[i] = owner'[j], i \in X
               PROVE  j \in X
    BY <1>6 DEF OwnersConnected
  <2>1. CASE i # k /\ j # k
    BY <1>1, <1>5, <2>1 DEF OwnersConnected, Grained
  <2>2. CASE i = k \/ j = k
    <3>1. i = j \/ (i = k /\ j \in IdMembers(w)) \/ (j = k /\ i \in IdMembers(w))
      BY <1>1, <1>5, <1>7, <2>2
    <3> QED BY <1>1, <1>3, <3>1 DEF Bound
  <2> QED BY <2>1, <2>2
<1>10. MintLeft(r)'
  <2> SUFFICES ASSUME NEW a \in StrongKeys, Live(CidOf(a))', a \notin Known'
               PROVE  IsEntityAnchor(a, r.ids) /\ Bound(r, CidOf(a))'
    BY DEF MintLeft
  <2>1. a \notin Known /\ Live(CidOf(a))
    BY <1>1, <1>4, <1>5 DEF Known, Live
  <2>2. IsEntityAnchor(a, r.ids) /\ Bound(r, CidOf(a))
    BY <2>1 DEF MintLeft, Grained
  <2>3. \A j : j \in IdMembers(CidOf(a))' => j \in IdMembers(CidOf(a)) \/ j \in r.ids \cap Identity
    BY <1>1, <1>5, <1>7, <1>8
  <2>4. \A X : Partition!Closed(X) =>
          \A i, j \in r.ids \cap Identity : i \in X <=> j \in X
    BY DEF Grained, Evident, Partition!Closed
  <2>5. Bound(r, CidOf(a))'
    BY <1>6, <2>2, <2>3, <2>4 DEF Bound
  <2> QED BY <2>2, <2>5
<1> QED BY <1>4, <1>9, <1>10 DEF Grained, Evident

\* The other statements.
LEMMA StepGrain ==
  ASSUME HashInjective, NEW p, NEW me, me = req[p], Ready(me), Grained(me.rec), Step(p),
         me.pc = "absorb" => ~ IdentityConflict(Members(me.target), Members(me.item))
  PROVE  Grained(me.rec)'
<1>1. CASE \/ Find(p) \/ ReadRank(p) \/ ReadWinner(p) \/ Compare(p) \/ Refresh(p) \/ Adopt(p)
           \/ FindOwner(p) \/ FindPhone(p) \/ Reread(p) \/ ReadAnchor(p) \/ Answer(p)
           \/ WritePhone(p)
  <2>1. UNCHANGED <<owner, anchor, asserted>>
    BY <1>1 DEF Find, ReadRank, ReadWinner, Compare, Refresh, Adopt, FindOwner, FindPhone, Reread,
                ReadAnchor, Answer, WritePhone, vars
  <2> QED BY <2>1, GrainFrozen DEF Grained, Live
<1>2. CASE SetAnchor(p)
  <2>1. me.item \in StrongKeys /\ TypeOK /\ NoKey \notin StrongKeys /\ UNCHANGED <<owner, asserted>>
    BY <1>2, KeysAssumption DEF SetAnchor, Ready, LocalOK, RowsInv
  <2>2. \A c \in Cids : Live(c)' <=> Live(c)
    BY <1>2, <2>1 DEF SetAnchor, Live, TypeOK
  <2> QED BY <2>1, <2>2, GrainFrozen DEF Grained
<1>3. CASE Absorb(p)
  BY <1>3, AbsorbGrain DEF Absorb
<1> QED BY <1>1, <1>2, <1>3, UniteGrain, MintGrain, WriteKeyGrain DEF Step

\* No jump leads to a merge that is decided.
LEMMA JumpsElsewhere ==
  ASSUME NEW s \in Locals, s.pc # "absorb"
  PROVE  /\ Found(s).pc # "absorb" /\ Ranked(s).pc # "absorb"
         /\ Looped(s).pc # "absorb" /\ Attached(s).pc # "absorb" /\ Phoned(s).pc # "absorb"
         /\ \A pc \in Places \ {"absorb"} : Goto(s, pc, {}).pc # "absorb"
<1>1. Found(s).pc # "absorb" /\ Attached(s).pc # "absorb"
  BY DEF Found, Attached, Goto, Locals
<1>2. Ranked(s).pc # "absorb" /\ Looped(s).pc # "absorb" /\ Phoned(s).pc # "absorb"
  BY DEF Ranked, Looped, Phoned, Goto, Locals
<1>3. \A pc \in Places \ {"absorb"} : Goto(s, pc, {}).pc # "absorb"
  BY DEF Goto, Locals
<1> QED BY <1>1, <1>2, <1>3

\* Only a comparison leads there, of the members as they are.
LEMMA AbsorbDecided ==
  ASSUME LocalsInv, TypeOK, NEW p \in Requests, LocalOK(req[p]), Step(p),
         req[p].pc = "compare" => req[p].seen = Members(req[p].target),
         req'[p].pc = "absorb"
  PROVE  ~ IdentityConflict(Members(req'[p].target), Members(req'[p].item)) /\ UNCHANGED owner
<1> DEFINE me == req[p]
<1>0. /\ me \in Locals /\ me.rec.ids \subseteq StrongKeys
      /\ me.idHits \subseteq Cids /\ me.afHits \subseteq Cids
      /\ "answer" \in Places \ {"absorb"} /\ "members" \in Places \ {"absorb"}
      /\ "mint" \in Places \ {"absorb"} /\ "adopt" \in Places \ {"absorb"}
  BY DEF LocalOK, Locals, AnyRecord, Places, HasTarget
<1>t. \A t : Becomes(p, t) => t.pc = "absorb" /\ req'[p] = t
  BY DEF LocalsInv, Becomes
<1>f. Failed(me).pc # "absorb"
  BY DEF Failed, AtRest
<1>w. \A x : Without(me, x) \in Locals /\ Without(me, x).pc = me.pc
  BY WithoutOK DEF LocalOK
<1>1. ~ Find(p)
  <2> SUFFICES ASSUME Find(p) PROVE FALSE
    OBVIOUS
  <2>1. PICK k \in me.todo :
          \/ Becomes(p, Found([Without(me, k) EXCEPT !.idHits = @ \cup Hits({k})]))
          \/ Becomes(p, Found([Without(me, k) EXCEPT !.afHits = @ \cup Hits({k})]))
    BY DEF Find
  <2> DEFINE s == Without(me, k)
  <2>2. s \in Locals /\ s.pc = "find" /\ Hits({k}) \subseteq Cids
    BY <1>w, HitsType DEF Find
  <2> HIDE DEF s
  <2>3. /\ [s EXCEPT !.idHits = @ \cup Hits({k})] \in Locals
        /\ [s EXCEPT !.afHits = @ \cup Hits({k})] \in Locals
        /\ [s EXCEPT !.idHits = @ \cup Hits({k})].pc = "find"
        /\ [s EXCEPT !.afHits = @ \cup Hits({k})].pc = "find"
    BY <2>2 DEF Locals
  <2> QED BY <1>t, <2>1, <2>3, JumpsElsewhere DEF s
<1>2. ~ ReadRank(p)
  <2> SUFFICES ASSUME ReadRank(p) PROVE FALSE
    OBVIOUS
  <2>1. PICK c \in me.todo :
          LET s == Without(me, c)
              r == Rank[anchor[c]]
              wins == s.target = NoCid \/ r < s.best
                        \/ (r = s.best /\ CidBefore(c, s.target))
          IN  IF ~ Live(c) THEN Becomes(p, Failed(me))
              ELSE Becomes(p, Ranked(IF wins THEN [s EXCEPT !.target = c, !.best = r] ELSE s))
    BY DEF ReadRank
  <2> DEFINE s == Without(me, c)
             t == [s EXCEPT !.target = c, !.best = Rank[anchor[c]]]
  <2>2. Live(c)
    BY <1>f, <1>t, <2>1
  <2>3. s \in Locals /\ s.pc = "rank" /\ c \in Cids
    BY <1>w DEF ReadRank, LocalOK
  <2>4. Rank[anchor[c]] \in Nat
    BY <2>2, <2>3, KeysAssumption DEF TypeOK, Live
  <2>5. Becomes(p, Ranked(t)) \/ Becomes(p, Ranked(s))
    BY <2>1, <2>2
  <2> HIDE DEF s
  <2>6. t \in Locals /\ t.pc = "rank"
    BY <2>3, <2>4 DEF Locals
  <2> HIDE DEF t
  <2> QED BY <1>t, <2>3, <2>5, <2>6, JumpsElsewhere
<1>3. ~ Unite(p)
  <2> SUFFICES ASSUME Unite(p) PROVE FALSE
    OBVIOUS
  <2>1. \/ Becomes(p, Failed(me)) \/ Becomes(p, Goto(me, "members", {}))
        \/ \E c : Becomes(p, Without(me, c))
    BY DEF Unite, MergeInto
  <2> QED BY <1>0, <1>f, <1>t, <1>w, <2>1, JumpsElsewhere DEF Unite
<1>4. ~ ReadWinner(p)
  <2> DEFINE s == [me EXCEPT !.seen = Members(me.target), !.todo = me.afHits \ {me.target}]
  <2>1. s \in Locals /\ s.pc = me.pc
    BY <1>0, MembersType DEF Locals
  <2> QED BY <1>t, <2>1, JumpsElsewhere DEF ReadWinner
<1>5. ~ Absorb(p)
  <2>1. [me EXCEPT !.pc = "refresh", !.item = NoKey].pc = "refresh"
    BY <1>0 DEF Locals
  <2> QED BY <1>f, <1>t, <2>1 DEF Absorb, MergeInto
<1>6. ~ Refresh(p)
  <2> DEFINE s == [me EXCEPT !.seen = Members(me.target)]
  <2>1. s \in Locals /\ s.pc = me.pc
    BY <1>0, MembersType DEF Locals
  <2> QED BY <1>t, <2>1, JumpsElsewhere DEF Refresh
<1>7. ~ Adopt(p)
  <2> SUFFICES ASSUME Adopt(p) PROVE FALSE
    OBVIOUS
  <2>1. PICK c \in me.todo :
          \/ Becomes(p, Looped(Goto([Without(me, c) EXCEPT !.target = c], "adopt", {})))
          \/ Becomes(p, Goto(Without(me, c), "mint", {}))
          \/ Becomes(p, Without(me, c))
    BY DEF Adopt
  <2> DEFINE s == Without(me, c)
             t == [s EXCEPT !.target = c]
  <2>2. s \in Locals /\ s.pc = "adopt" /\ c \in Cids
    BY <1>w DEF Adopt, LocalOK
  <2> HIDE DEF s
  <2>3. t \in Locals
    BY <2>2 DEF Locals
  <2> HIDE DEF t
  <2>4. Goto(t, "adopt", {}) \in Locals /\ Goto(t, "adopt", {}).pc = "adopt"
    BY <1>0, <2>3, GotoFields
  <2> QED BY <1>0, <1>t, <2>1, <2>2, <2>4, JumpsElsewhere DEF s, t
<1>8. ~ Mint(p)
  <2> SUFFICES ASSUME Mint(p) PROVE FALSE
    OBVIOUS
  <2>1. PICK a \in me.rec.ids :
          Becomes(p, Looped(Goto([me EXCEPT !.target = CidOf(a)], "mint", {})))
    BY DEF Mint
  <2> DEFINE t == [me EXCEPT !.target = CidOf(a)]
  <2>2. t \in Locals
    BY <1>0, CidOfType DEF Locals
  <2> HIDE DEF t
  <2>3. Goto(t, "mint", {}) \in Locals /\ Goto(t, "mint", {}).pc = "mint"
    BY <1>0, <2>2, GotoFields
  <2> QED BY <1>t, <2>1, <2>3, JumpsElsewhere DEF t
<1>9. ~ FindOwner(p)
  <2> SUFFICES ASSUME FindOwner(p) PROVE FALSE
    OBVIOUS
  <2>1. PICK k \in me.todo :
          \/ Becomes(p, Attached(Without(me, k)))
          \/ Becomes(p, [Without(me, k) EXCEPT !.pc = "write", !.item = k])
    BY DEF FindOwner
  <2>2. [Without(me, k) EXCEPT !.pc = "write", !.item = k].pc = "write"
    BY <1>w DEF Locals
  <2> QED BY <1>t, <1>w, <2>1, <2>2, JumpsElsewhere DEF FindOwner
<1>10. ~ WriteKey(p) /\ ~ WritePhone(p)
  <2> DEFINE s == [me EXCEPT !.item = NoKey]
  <2>1. s \in Locals /\ s.pc = me.pc
    BY <1>0 DEF Locals
  <2> QED BY <1>f, <1>t, <2>1, JumpsElsewhere DEF WriteKey, WritePhone
<1>11. ~ FindPhone(p)
  <2> SUFFICES ASSUME FindPhone(p) PROVE FALSE
    OBVIOUS
  <2>1. PICK ph \in me.todo :
          \/ Becomes(p, Phoned(Without(me, ph)))
          \/ Becomes(p, [Without(me, ph) EXCEPT !.pc = "dial", !.item = ph])
    BY DEF FindPhone
  <2>2. [Without(me, ph) EXCEPT !.pc = "dial", !.item = ph].pc = "dial"
    BY <1>w DEF Locals
  <2> QED BY <1>t, <1>w, <2>1, <2>2, JumpsElsewhere DEF FindPhone
<1>12. ~ Reread(p) /\ ~ SetAnchor(p) /\ ~ Answer(p)
  <2>1. /\ [me EXCEPT !.pc = "current", !.seen = Members(me.target)].pc = "current"
        /\ [me EXCEPT !.pc = "answer", !.item = NoKey].pc = "answer"
        /\ AtRest("done", me.rec, me.target).pc = "done"
    BY <1>0 DEF Locals, AtRest
  <2> QED BY <1>f, <1>t, <2>1 DEF Reread, SetAnchor, Answer
<1>13. ~ ReadAnchor(p)
  <2> DEFINE s == [me EXCEPT !.seen = {}]
  <2>1. s \in Locals /\ s.pc = me.pc
    BY <1>0 DEF Locals
  <2>2. \/ ~ ReadAnchor(p)
        \/ Becomes(p, Failed(me))
        \/ Becomes(p, Goto(s, "answer", {}))
        \/ \E a \in StrongKeys : Becomes(p, [s EXCEPT !.pc = "anchor", !.item = a])
    BY DEF ReadAnchor
  <2> HIDE DEF s
  <2>3. \A a : [s EXCEPT !.pc = "anchor", !.item = a].pc = "anchor"
    BY <2>1 DEF Locals
  <2>4. me.pc = "current" => Goto(s, "answer", {}).pc # "absorb"
    BY <1>0, <2>1, JumpsElsewhere
  <2> QED BY <1>f, <1>t, <2>2, <2>3, <2>4 DEF ReadAnchor
<1>14. Compare(p)
  BY <1>1, <1>2, <1>3, <1>4, <1>5, <1>6, <1>7, <1>8, <1>9, <1>10, <1>11, <1>12, <1>13 DEF Step
<1>15. PICK c \in me.todo :
         LET s == Without(me, c)
         IN  Becomes(p, IF IdentityConflict(s.seen, Members(c)) THEN Looped(s)
                        ELSE [s EXCEPT !.pc = "absorb", !.item = c])
  BY <1>14 DEF Compare
<1> DEFINE s == Without(me, c)
<1>16. s \in Locals /\ s.pc = "compare" /\ s.seen = Members(s.target) /\ UNCHANGED owner
  <2>1. me.pc = "compare" /\ me.seen = Members(me.target) /\ UNCHANGED owner
    BY <1>14 DEF Compare, vars
  <2>2. s.seen = me.seen /\ s.target = me.target
    BY WithoutOK
  <2>3. Members(s.target) = Members(me.target)
    BY <2>2
  <2> QED BY <1>w, <2>1, <2>2, <2>3
<1>17. \/ Becomes(p, Looped(s))
       \/ /\ ~ IdentityConflict(s.seen, Members(c))
          /\ Becomes(p, [s EXCEPT !.pc = "absorb", !.item = c])
  BY <1>15
<1> HIDE DEF s
<1>18. /\ ~ IdentityConflict(s.seen, Members(c))
       /\ req'[p] = [s EXCEPT !.pc = "absorb", !.item = c]
  BY <1>t, <1>16, <1>17, JumpsElsewhere
<1>19. req'[p].target = s.target /\ req'[p].item = c
  BY <1>16, <1>18 DEF Locals
<1> QED BY <1>16, <1>18, <1>19

\* A request begins: its record is evidence, and what an earlier attempt of it left stays.
LEMMA BeginGrain ==
  ASSUME GrainInv, NEW p \in Requests, NEW r \in Records, ~ Running(p),
         req[p].pc = "crashed" => r = req[p].rec, Begin(p, r)
  PROVE  OwnersConnected' /\ (\A s \in Locals : req'[p] = s => GrainOf(s)')
<1> DEFINE s == Goto(AtRest("idle", r, NoCid), "find", r.ids)
<1>1. LocalsInv /\ AloneNeverFails /\ r \in AnyRecord
  BY RecordsAssumption DEF GrainInv, SoloInv, AnyRecord
<1>2. Becomes(p, s) /\ LocalOK(s) /\ UNCHANGED vars
  BY <1>1, BeginLocals
<1>3. s.pc = "find" /\ s.rec = r
  BY DEF Goto, AtRest
<1>4. req'[p] = s
  BY <1>1, <1>2, OthersRest
<1> HIDE DEF s
<1>5. asserted' = asserted \cup ({r.ids \cap Identity} \ {{}}) /\ UNCHANGED <<owner, anchor>>
  BY <1>2 DEF Begin, Shown, vars
<1>6. MintLeft(r)
  <2>1. PICK me \in Locals : req[p] = me
    BY <1>1 DEF LocalsInv
  <2>2. GrainOf(me) /\ me.pc \in {"idle", "done", "crashed"}
    BY <1>1, <2>1 DEF GrainInv, Running, AloneNeverFails, Locals
  <2>3. CASE me.pc = "crashed"
    BY <2>1, <2>2, <2>3 DEF GrainOf
  <2>4. CASE me.pc \in {"idle", "done"}
    BY <2>2, <2>4 DEF GrainOf, MintLeft
  <2> QED BY <2>2, <2>3, <2>4
<1>7. OwnersConnected' /\ MintLeft(r)'
  BY <1>5, <1>6, GrainFrozen DEF GrainInv, Live
<1>8. Evident(r)'
  BY <1>5 DEF Evident
<1>9. GrainOf(s)'
  BY <1>3, <1>7, <1>8 DEF GrainOf
<1> QED BY <1>4, <1>7, <1>9

\* What the invariant says of the request that runs.
LEMMA RunsGrained ==
  ASSUME GrainInv, NEW p \in Requests, Running(p)
  PROVE  /\ Ready(req[p]) /\ LocalsInv /\ TypeOK /\ LocalOK(req[p]) /\ Grained(req[p].rec)
         /\ req[p].pc = "absorb" =>
              ~ IdentityConflict(Members(req[p].target), Members(req[p].item))
<1>1. Ready(req[p]) /\ req[p] \in Locals /\ LocalsInv /\ RowsInv /\ AloneNeverFails
  BY RunsReady DEF GrainInv
<1>2. PICK me \in Locals : me = req[p]
  BY <1>1
<1>3. GrainOf(me) /\ OwnersConnected
  BY <1>2 DEF GrainInv
<1>4. me.pc \in Going
  BY <1>1, <1>2 DEF Running, Locals, Places, Going, AloneNeverFails
<1> QED BY <1>1, <1>2, <1>3, <1>4 DEF GrainOf, Grained, Ready, RowsInv

\* A statement of a request.
LEMMA StepKeepsGrain ==
  ASSUME HashInjective, GrainInv, SoloInv', \A j, k \in Requests : j = k,
         NEW p \in Requests, Step(p)
  PROVE  OwnersConnected' /\ (\A s \in Locals : req'[p] = s => GrainOf(s)')
<1>1. PICK me : me = req[p]
  OBVIOUS
<1>2. /\ Ready(me) /\ LocalsInv /\ TypeOK /\ LocalOK(req[p]) /\ Grained(me.rec)
      /\ me.pc = "absorb" => ~ IdentityConflict(Members(me.target), Members(me.item))
  BY <1>1, StepRuns, RunsGrained
<1>3. Grained(me.rec)'
  BY <1>1, <1>2, StepGrain
<1>4. SUFFICES ASSUME NEW s \in Locals, req'[p] = s PROVE GrainOf(s)'
  BY <1>3 DEF Grained
<1>5. CASE Answer(p)
  <2>1. LocalsInv /\ s.pc # "failed" /\ AnsweredIsWhole'
    BY <1>2, <1>4 DEF SoloInv, AloneNeverFails
  <2>2. req'[p] = AtRest("done", me.rec, me.target) \/ req'[p] = Failed(me)
    BY <1>1, <1>2, <1>5, OthersRest DEF Answer, LocalsInv, Becomes
  <2>3. s.pc = "done" /\ s.rec = me.rec
    BY <1>4, <2>1, <2>2 DEF AtRest, Failed
  <2>4. me.rec.ids \subseteq Known'
    BY <1>4, <2>1, <2>3 DEF AnsweredIsWhole
  <2>5. \A a \in StrongKeys : Live(CidOf(a))' => a \in Known'
    BY <1>3, <2>4, EntityAnchorIn DEF Grained, MintLeft
  <2> QED BY <2>3, <2>5 DEF GrainOf, Going, HasTarget
<1>6. CASE ~ Answer(p)
  <2>1. PICK t : Becomes(p, t) /\ Reaches(t, me)
    BY <1>1, <1>2, <1>6, StepStands
  <2>2. s.pc \in Going /\ s.rec = me.rec
    BY <1>2, <1>4, <2>1, OthersRest DEF Reaches
  <2>3. me.pc = "compare" => me.seen = Members(me.target)
    BY <1>2 DEF Ready, Stands, AtCompare
  <2>4. s.pc = "absorb" => ~ IdentityConflict(Members(s.target)', Members(s.item)')
    <3>1. s.pc = "absorb" =>
            ~ IdentityConflict(Members(s.target), Members(s.item)) /\ UNCHANGED owner
      BY <1>1, <1>2, <1>4, <2>3, AbsorbDecided
    <3> QED BY <3>1 DEF Members
  <2> QED BY <1>3, <2>2, <2>4 DEF GrainOf, Grained, Going, HasTarget
<1> QED BY <1>5, <1>6

\* A crash.
LEMMA CrashKeepsGrain ==
  ASSUME GrainInv, NEW p \in Requests, Crash(p)
  PROVE  OwnersConnected' /\ (\A s \in Locals : req'[p] = s => GrainOf(s)')
<1>1. PICK me : me = req[p]
  OBVIOUS
<1>2. Running(p) /\ Becomes(p, AtRest("crashed", me.rec, NoCid)) /\ UNCHANGED <<vars, asserted>>
  BY <1>1 DEF Crash
<1>3. LocalsInv /\ Grained(me.rec)
  BY <1>1, <1>2, RunsGrained
<1>4. Grained(me.rec)'
  BY <1>2, <1>3, GrainFrozen DEF Grained, Live, vars
<1>5. req'[p] = AtRest("crashed", me.rec, NoCid)
  BY <1>2, <1>3, OthersRest
<1>6. req'[p].pc = "crashed" /\ req'[p].rec = me.rec
  BY <1>5 DEF AtRest
<1>7. \A s \in Locals : req'[p] = s => GrainOf(s)'
  BY <1>4, <1>6 DEF GrainOf, Grained
<1> QED BY <1>4, <1>7 DEF Grained

\* Connected owners are the grain of the entities.
LEMMA ConnectedGrain == OwnersConnected => EntityGrain
<1> SUFFICES ASSUME OwnersConnected, NEW b \in Blocks, NEW X \in SUBSET Identity,
                    Partition!Closed(X), X \cap b # {}
             PROVE  b \subseteq X
  BY DEF EntityGrain, Partition!NoFalseMerge
<1>1. PICK c \in LiveCids : b = IdMembers(c)
  BY DEF Blocks
<1>2. c # NoCid /\ \A k \in b : k \in Identity /\ owner[k] = c
  BY <1>1, KeysAssumption DEF LiveCids, IdMembers, Members
<1> QED BY <1>2 DEF OwnersConnected

\* One client that repeats a request until it is answered, dying anywhere between two
\* statements, never joins two things by a domain: what commit_record_with_opts leaves
\* half done on D1 is taken up by the same record, whose evidence it is.
THEOREM RepeatsKeepGrain ==
  HashInjective /\ ~ GiveUp /\ (\A j, k \in Requests : j = k) => (SoloSpec => []EntityGrain)
<1> SUFFICES ASSUME HashInjective, ~ GiveUp, \A j, k \in Requests : j = k
             PROVE  SoloSpec => []EntityGrain
  OBVIOUS
<1>1. SoloInit => GrainInv
  <2> SUFFICES ASSUME SoloInit PROVE GrainInv
    OBVIOUS
  <2>1. /\ owner = [k \in StrongKeys |-> NoCid] /\ anchor = [c \in Cids |-> NoKey]
        /\ req = [p \in Requests |-> AtRest("idle", NoRecord, NoCid)]
    BY DEF SoloInit, D1Init, EvidenceInit, Init
  <2>2. OwnersConnected
    BY <2>1, KeysAssumption DEF OwnersConnected, StrongKeys
  <2>3. \A a \in StrongKeys : ~ Live(CidOf(a))
    BY <2>1, CidOfType DEF Live
  <2>4. \A p \in Requests : req[p].pc = "idle"
    BY <2>1 DEF AtRest
  <2> QED BY <2>2, <2>3, <2>4, SoloStarts DEF GrainInv, GrainOf, Going, HasTarget
<1>2. GrainInv /\ [SoloNext]_<<allVars, before>> => GrainInv'
  <2> SUFFICES ASSUME GrainInv, [SoloNext]_<<allVars, before>> PROVE GrainInv'
    OBVIOUS
  <2>1. SoloInv'
    BY SoloInduction DEF GrainInv
  <2>2. ASSUME NEW p \in Requests,
               OwnersConnected' /\ (\A s \in Locals : req'[p] = s => GrainOf(s)')
        PROVE  GrainInv'
    BY <2>1, <2>2 DEF GrainInv
  <2>3. ASSUME NEW p \in Requests, NEW r \in Records, ~ Busy,
               req[p].pc = "crashed" => GiveUp \/ r = req[p].rec, Begin(p, r)
        PROVE  GrainInv'
    BY <2>2, <2>3, BeginGrain DEF Busy
  <2>4. ASSUME NEW p \in Requests, Step(p)
        PROVE  GrainInv'
    BY <2>1, <2>2, <2>4, StepKeepsGrain
  <2>5. ASSUME NEW p \in Requests, Crash(p)
        PROVE  GrainInv'
    BY <2>2, <2>5, CrashKeepsGrain
  <2>6. CASE UNCHANGED <<allVars, before>>
    <3>1. UNCHANGED <<owner, anchor, asserted, req>>
      BY <2>6 DEF allVars, vars
    <3>2. OwnersConnected' /\ \A r : MintLeft(r) /\ Evident(r) => MintLeft(r)' /\ Evident(r)'
      BY <3>1, GrainFrozen DEF GrainInv, Live
    <3>3. \A s \in Locals : GrainOf(s) => GrainOf(s)'
      BY <3>1, <3>2 DEF GrainOf, Live, Known, Members
    <3> QED BY <2>1, <3>1, <3>2, <3>3 DEF GrainInv
  <2> QED BY <2>3, <2>4, <2>5, <2>6 DEF SoloNext
<1>3. GrainInv => EntityGrain
  BY ConnectedGrain DEF GrainInv
<1> QED BY <1>1, <1>2, <1>3, PTL DEF SoloSpec


-----------------------------------------------------------------------------
(***************************************************************************)
(* Requests with one record at the same time: the entity they all aim at.  *)
(***************************************************************************)

\* The keys that decide about the target: those of the record that were resolved.
Core(K, r) == (IF r.ids \cap Identity # {} THEN r.ids \cap Identity ELSE r.ids) \cap K

\* Of two resolved keys, whose entity wins.
Before(g, k) == Rank[g] < Rank[k] \/ (Rank[g] = Rank[k] /\ Hash[g] < Hash[k])

\* g is the key whose entity is the target, resolved before or minted.
Goal(K, r, g) ==
  IF Core(K, r) = {}
    THEN IsEntityAnchor(g, r.ids)
    ELSE g \in Core(K, r) /\ \A k \in Core(K, r) \ {g} : Before(g, k)

\* An owner of the keys S that were resolved, or the target.
Near(S, K, g, c) == c = CidOf(g) \/ \E k \in S \cap K : c = CidOf(k)

\* Keys of the record move, to the target only, and the first key of the core is there.
TablesAimed(K, r, g) ==
  /\ \A k \in StrongKeys : \/ owner[k] = IF k \in K THEN CidOf(k) ELSE NoCid
                           \/ k \in r.ids /\ owner[k] = CidOf(g)
  /\ Core(K, r) # {} => /\ owner[g] = CidOf(g)
                        /\ anchor[CidOf(g)] \in StrongKeys
                        /\ Rank[anchor[CidOf(g)]] <= Rank[g]
  /\ \A k \in K \ {g} : Live(CidOf(k)) => anchor[CidOf(k)] = k

\* The tables, seen from the record r.
Aim(K, r, g) ==
  /\ K \in SUBSET StrongKeys /\ r \in AnyRecord /\ g \in r.ids
  /\ Goal(K, r, g) /\ TablesAimed(K, r, g)

\* The owners found.
HitsAimed(K, r, g, s) ==
  /\ \A c \in s.idHits : Near(Core(K, r), K, g, c)
  /\ \A c \in s.afHits : Near(r.ids, K, g, c)
  /\ r.ids \cap Identity = {} => s.idHits = {}

\* While the owners are looked up and ranked: the target is not lost.
RankAimed(K, r, g, s) ==
  /\ \A c \in s.todo : Near(Core(K, r), K, g, c)
  /\ s.target = NoCid \/ Near(Core(K, r), K, g, s.target)
  /\ Core(K, r) # {} => CidOf(g) \in s.todo \/ (s.target = CidOf(g) /\ s.best <= Rank[g])
  /\ \A k \in Core(K, r) \ {g} : s.target = CidOf(k) => s.best = Rank[k]

FindAimed(K, r, g, s) ==
  /\ s.target = NoCid
  /\ Core(K, r) # {} =>
       g \in s.todo \/ CidOf(g) \in IF r.ids \cap Identity # {} THEN s.idHits ELSE s.afHits

\* What the locals of a request with the record r say of the target.
LocalsAimed(K, r, g, s) ==
  /\ s.rec = r
  /\ HitsAimed(K, r, g, s)
  /\ s.pc = "find" => FindAimed(K, r, g, s)
  /\ s.pc = "rank" => RankAimed(K, r, g, s)
  /\ s.pc \in {"adopt", "mint"} => Core(K, r) = {}
  /\ s.pc \in {"adopt", "unite", "compare", "absorb", "refresh"} =>
       \A c \in s.todo : Near(r.ids, K, g, c)
  /\ s.pc = "absorb" => Near(r.ids, K, g, s.item)
  /\ s.pc \in HasTarget \cup {"done"} => s.target = CidOf(g)
  /\ s.pc = "current" /\ Core(K, r) # {} => g \in s.seen /\ s.seen \subseteq r.ids
  /\ s.pc = "anchor" /\ Core(K, r) # {} => Rank[s.item] <= Rank[g]

\* All requests have the record r, or have not begun.
Alike(r) == \A p \in Requests : req[p].pc = "idle" \/ req[p].rec = r

Begun == \E p \in Requests : req[p].pc # "idle"

AnswerInv ==
  /\ ~ Begun => \E K \in SUBSET StrongKeys : Resolved(K)
  /\ \A r \in AnyRecord :
       Begun /\ Alike(r) =>
         \E K \in SUBSET StrongKeys, g \in r.ids :
           /\ Aim(K, r, g)
           /\ \A p \in Requests : req[p].pc # "idle" => LocalsAimed(K, r, g, req[p])

\* Of a request that is aimed.
Aimed(K, r, g, s) == RowsInv /\ LocalOK(s) /\ Aim(K, r, g) /\ LocalsAimed(K, r, g, s)

\* Where a statement takes its request.
Keeps(p, K, r, g) == (\E t : Becomes(p, t) /\ LocalsAimed(K, r, g, t)) /\ Aim(K, r, g)'

\* The keys and entities it is about.
LEMMA AimTypes ==
  ASSUME NEW K, NEW r, NEW g, Aim(K, r, g)
  PROVE  /\ g \in StrongKeys /\ r.ids \subseteq StrongKeys /\ K \subseteq StrongKeys
         /\ CidOf(g) \in Cids /\ CidOf(g) # NoCid
         /\ Core(K, r) \subseteq r.ids \cap K
         /\ Core(K, r) # {} => g \in Core(K, r)
<1>1. g \in StrongKeys /\ r.ids \subseteq StrongKeys /\ K \subseteq StrongKeys
  BY DEF Aim, AnyRecord
<1>2. CidOf(g) \in Cids /\ CidOf(g) # NoCid
  BY <1>1, CidOfType, KeysAssumption
<1>3. Core(K, r) \subseteq r.ids \cap K
  BY DEF Core
<1> QED BY <1>1, <1>2, <1>3 DEF Aim, Goal

\* No two keys have one id.
LEMMA CidsApart ==
  ASSUME HashInjective, NEW j \in StrongKeys, NEW k \in StrongKeys, CidOf(j) = CidOf(k)
  PROVE  j = k
BY DEF HashInjective, CidOf

\* An owner near the record holds keys of the record only.
LEMMA NearHolds ==
  ASSUME HashInjective, NEW K, NEW r, NEW g, Aim(K, r, g),
         NEW c, c # NoCid, Near(r.ids, K, g, c), NEW k \in StrongKeys, owner[k] = c
  PROVE  k \in r.ids
<1>1. /\ k \in r.ids \/ (k \in K /\ CidOf(k) = c)
      /\ g \in StrongKeys /\ r.ids \subseteq StrongKeys /\ g \in r.ids
  BY AimTypes DEF Aim, TablesAimed
<1> QED BY <1>1, CidsApart DEF Near

\* What the keys K are near to is near the record.
LEMMA CoreNear ==
  ASSUME NEW K, NEW r, NEW g, NEW c, Near(Core(K, r), K, g, c)
  PROVE  /\ Near(r.ids, K, g, c)
         /\ Core(K, r) = {} => c = CidOf(g)
BY DEF Near, Core

\* A statement that only reads leaves the tables as they were.
LEMMA ReadsAim ==
  ASSUME NEW K, NEW r, NEW g, Aim(K, r, g), UNCHANGED <<owner, anchor>>
  PROVE  Aim(K, r, g)'
BY DEF Aim, TablesAimed, Live

\* A request that fails has nothing left to say.
LEMMA FailedAimed ==
  ASSUME NEW K, NEW r, NEW g, NEW s, s.rec = r
  PROVE  LocalsAimed(K, r, g, Failed(s))
BY DEF Failed, AtRest, LocalsAimed, HitsAimed, HasTarget

\* Nor has one that has its target and is past the merges.
LEMMA LandsAimed ==
  ASSUME NEW K, NEW r, NEW g, NEW s, LocalsAimed(K, r, g, s), NEW t,
         t.rec = r, t.idHits \subseteq s.idHits, t.afHits \subseteq s.afHits,
         t.target = CidOf(g), t.pc \in HasTarget \ {"current", "anchor"},
         t.pc \in {"unite", "compare", "absorb", "refresh"} =>
           \A c \in t.todo : Near(r.ids, K, g, c),
         t.pc = "absorb" => Near(r.ids, K, g, t.item)
  PROVE  LocalsAimed(K, r, g, t)
<1>1. HitsAimed(K, r, g, t)
  BY DEF LocalsAimed, HitsAimed
<1> QED BY <1>1 DEF LocalsAimed, HasTarget

\* The jump into the loop over the domains' owners or past it.
LEMMA LoopedFields ==
  ASSUME NEW s \in Locals, s.todo \subseteq Cids
  PROVE  LET t == Looped(s)
         IN  /\ t.rec = s.rec /\ t.target = s.target
             /\ t.idHits \subseteq s.idHits /\ t.afHits \subseteq s.afHits
             /\ \/ t.pc = "attach" /\ t.todo = s.rec.ids
                \/ t.pc = "compare" /\ t.todo = s.todo
<1>1. CASE s.todo = {}
  <2> DEFINE u == [s EXCEPT !.seen = {}, !.idHits = {}, !.afHits = {}]
  <2>1. u \in Locals /\ u.rec = s.rec /\ u.target = s.target /\ u.idHits = {} /\ u.afHits = {}
    BY DEF Locals
  <2>2. s.rec.ids \in SUBSET (StrongKeys \cup Phones \cup Cids) /\ "attach" \in Places
    BY DEF Locals, AnyRecord, Places, HasTarget
  <2> HIDE DEF u
  <2>3. /\ Goto(u, "attach", s.rec.ids).rec = s.rec
        /\ Goto(u, "attach", s.rec.ids).target = s.target
        /\ Goto(u, "attach", s.rec.ids).idHits = {}
        /\ Goto(u, "attach", s.rec.ids).afHits = {}
        /\ Goto(u, "attach", s.rec.ids).pc = "attach"
        /\ Goto(u, "attach", s.rec.ids).todo = s.rec.ids
    BY <2>1, <2>2, GotoFields
  <2> QED BY <1>1, <2>3 DEF Looped, u
<1>2. CASE s.todo # {}
  <2>1. s.todo \in SUBSET (StrongKeys \cup Phones \cup Cids) /\ "compare" \in Places
    BY DEF Places, HasTarget
  <2>2. /\ Goto(s, "compare", s.todo).rec = s.rec
        /\ Goto(s, "compare", s.todo).target = s.target
        /\ Goto(s, "compare", s.todo).idHits = s.idHits
        /\ Goto(s, "compare", s.todo).afHits = s.afHits
        /\ Goto(s, "compare", s.todo).pc = "compare"
        /\ Goto(s, "compare", s.todo).todo = s.todo
    BY <2>1, GotoFields
  <2> QED BY <1>2, <2>2 DEF Looped
<1> QED BY <1>1, <1>2

\* Jumping there with owners that are near.
LEMMA LoopedAimed ==
  ASSUME NEW K, NEW r, NEW g, NEW s \in Locals, LocalsAimed(K, r, g, s),
         NEW u \in Locals, u.rec = r, u.idHits \subseteq s.idHits, u.afHits \subseteq s.afHits,
         u.target = CidOf(g), u.todo \subseteq Cids, \A c \in u.todo : Near(r.ids, K, g, c)
  PROVE  LocalsAimed(K, r, g, Looped(u))
<1> DEFINE t == Looped(u)
<1>1. /\ t.rec = r /\ t.target = CidOf(g)
      /\ t.idHits \subseteq s.idHits /\ t.afHits \subseteq s.afHits
      /\ t.pc = "attach" \/ (t.pc = "compare" /\ t.todo = u.todo)
  BY LoopedFields
<1> HIDE DEF t
<1>2. LocalsAimed(K, r, g, t)
  BY <1>1, LandsAimed DEF HasTarget
<1> QED BY <1>2 DEF t

\* After the lookups.
LEMMA FoundAimed ==
  ASSUME NEW K, NEW r, NEW g, Aim(K, r, g), NEW s \in Locals, s.pc = "find",
         LocalsAimed(K, r, g, s)
  PROVE  LocalsAimed(K, r, g, Found(s))
<1>1. /\ s.rec = r /\ HitsAimed(K, r, g, s) /\ FindAimed(K, r, g, s)
      /\ s.idHits \in SUBSET (StrongKeys \cup Phones \cup Cids)
      /\ s.afHits \in SUBSET (StrongKeys \cup Phones \cup Cids)
      /\ {} \in SUBSET (StrongKeys \cup Phones \cup Cids)
  BY DEF LocalsAimed, Locals
<1>2. ASSUME NEW C \in SUBSET (StrongKeys \cup Phones \cup Cids),
             \A c \in C : Near(Core(K, r), K, g, c),
             Core(K, r) # {} => CidOf(g) \in C
      PROVE  LocalsAimed(K, r, g, Goto(s, "rank", C))
  <2> DEFINE t == Goto(s, "rank", C)
  <2>1. /\ t.pc = "rank" /\ t.todo = C /\ t.rec = r /\ t.target = NoCid
        /\ t.idHits = s.idHits /\ t.afHits = s.afHits
    BY <1>1, GotoFields DEF Places, FindAimed
  <2> HIDE DEF t
  <2>2. \A k \in Core(K, r) : CidOf(k) # NoCid
    BY CidOfType, KeysAssumption, AimTypes
  <2>3. HitsAimed(K, r, g, t) /\ RankAimed(K, r, g, t)
    BY <1>1, <1>2, <2>1, <2>2 DEF HitsAimed, RankAimed
  <2> QED BY <2>1, <2>3 DEF LocalsAimed, HasTarget, t
<1>3. ASSUME NEW pc \in {"adopt", "mint"}, NEW C \in SUBSET (StrongKeys \cup Phones \cup Cids),
             Core(K, r) = {}, \A c \in C : Near(r.ids, K, g, c)
      PROVE  LocalsAimed(K, r, g, Goto(s, pc, C))
  <2> DEFINE t == Goto(s, pc, C)
  <2>1. /\ t.pc = pc /\ t.todo = C /\ t.rec = r
        /\ t.idHits = s.idHits /\ t.afHits = s.afHits
    BY <1>1, GotoFields DEF Places
  <2> HIDE DEF t
  <2>2. HitsAimed(K, r, g, t)
    BY <1>1, <2>1 DEF HitsAimed
  <2> QED BY <1>3, <2>1, <2>2 DEF LocalsAimed, HasTarget, t
<1>4. CASE s.todo # {}
  BY <1>4 DEF Found
<1>5. CASE s.todo = {} /\ s.idHits # {}
  <2>1. Core(K, r) # {} => CidOf(g) \in s.idHits
    BY <1>1, <1>5 DEF FindAimed, HitsAimed
  <2>2. LocalsAimed(K, r, g, Goto(s, "rank", s.idHits))
    BY <1>1, <1>2, <2>1 DEF HitsAimed
  <2> QED BY <1>5, <2>2 DEF Found
<1>6. CASE s.todo = {} /\ s.idHits = {} /\ s.afHits = {}
  <2>1. Core(K, r) = {}
    BY <1>1, <1>6 DEF FindAimed
  <2>2. LocalsAimed(K, r, g, Goto(s, "mint", {}))
    BY <1>1, <1>3, <2>1
  <2> QED BY <1>6, <2>2 DEF Found
<1>7. CASE s.todo = {} /\ s.idHits = {} /\ s.afHits # {}
  <2>1. CASE r.ids \cap Identity # {}
    <3>1. Core(K, r) = {}
      BY <1>1, <1>7, <2>1 DEF FindAimed
    <3>2. LocalsAimed(K, r, g, Goto(s, "adopt", s.afHits))
      BY <1>1, <1>3, <3>1 DEF HitsAimed
    <3> QED BY <1>1, <1>7, <2>1, <3>2 DEF Found
  <2>2. CASE r.ids \cap Identity = {}
    <3>1. Core(K, r) = r.ids \cap K
      BY <2>2 DEF Core
    <3>2. \A c : Near(r.ids, K, g, c) => Near(Core(K, r), K, g, c)
      BY <3>1 DEF Near
    <3>3. Core(K, r) # {} => CidOf(g) \in s.afHits
      BY <1>1, <1>7, <2>2 DEF FindAimed
    <3>4. LocalsAimed(K, r, g, Goto(s, "rank", s.afHits))
      BY <1>1, <1>2, <3>2, <3>3 DEF HitsAimed
    <3> QED BY <1>1, <1>7, <2>2, <3>4 DEF Found
  <2> QED BY <2>1, <2>2
<1> QED BY <1>4, <1>5, <1>6, <1>7

\* Looking up a key finds an owner that is near, or the goal.
LEMMA FindKeepsAim ==
  ASSUME NEW p, NEW me, me = req[p], NEW K, NEW r, NEW g, Aimed(K, r, g, me), Find(p)
  PROVE  Keeps(p, K, r, g)
<1>1. PICK k \in me.todo :
        LET s == Without(me, k) IN
        Becomes(p, Found(IF k \in Identity
          THEN [s EXCEPT !.idHits = @ \cup Hits({k})]
          ELSE [s EXCEPT !.afHits = @ \cup Hits({k})]))
  BY DEF Find
<1> DEFINE s == Without(me, k)
           t == IF k \in Identity THEN [s EXCEPT !.idHits = @ \cup Hits({k})]
                ELSE [s EXCEPT !.afHits = @ \cup Hits({k})]
<1>2. /\ LocalOK(me) /\ Aim(K, r, g) /\ LocalsAimed(K, r, g, me) /\ me.pc = "find"
      /\ me.rec = r /\ k \in r.ids /\ k \in StrongKeys /\ HitsAimed(K, r, g, me)
      /\ FindAimed(K, r, g, me)
  BY AimTypes DEF Find, Aimed, LocalsAimed, LocalOK
<1>3. LocalOK(s) /\ s.pc = "find" /\ s.rec = r /\ s.todo = me.todo \ {k}
        /\ s.target = me.target /\ s.idHits = me.idHits /\ s.afHits = me.afHits
  BY <1>2, WithoutOK
<1>4. Hits({k}) \subseteq Cids /\ Hits({k}) = IF owner[k] = NoCid THEN {} ELSE {owner[k]}
  BY <1>2, HitsType DEF Aimed, RowsInv, Hits, Known
<1> HIDE DEF s
<1>5. /\ t \in Locals /\ t.pc = "find" /\ t.rec = r /\ t.todo = me.todo \ {k}
      /\ t.target = me.target
      /\ t.idHits = IF k \in Identity THEN me.idHits \cup Hits({k}) ELSE me.idHits
      /\ t.afHits = IF k \in Identity THEN me.afHits ELSE me.afHits \cup Hits({k})
  BY <1>3, <1>4 DEF LocalOK, Locals
<1>6. k \in Affiliation <=> k \notin Identity
  BY <1>2, KeysAssumption DEF StrongKeys
<1> HIDE DEF t
<1>7. owner[k] # NoCid => owner[k] = CidOf(g) \/ (k \in K /\ owner[k] = CidOf(k))
  BY <1>2 DEF Aim, TablesAimed
<1>8. HitsAimed(K, r, g, t)
  <2>1. k \in Identity /\ k \in K => k \in Core(K, r) \cap K
    BY <1>2 DEF Core
  <2>2. \A c \in Hits({k}) : Near(r.ids, K, g, c)
                             /\ (k \in Identity => Near(Core(K, r), K, g, c))
    BY <1>2, <1>4, <1>7, <2>1 DEF Near
  <2> QED BY <1>2, <1>5, <2>2 DEF HitsAimed
<1>9. FindAimed(K, r, g, t)
  <2>1. ASSUME Core(K, r) # {}, k = g
        PROVE  CidOf(g) \in IF r.ids \cap Identity # {} THEN t.idHits ELSE t.afHits
    <3>1. owner[g] = CidOf(g) /\ CidOf(g) # NoCid /\ g \in Core(K, r)
      BY <1>2, <2>1, AimTypes DEF Aim, TablesAimed
    <3>2. CidOf(g) \in Hits({k})
      BY <1>4, <2>1, <3>1
    <3>3. r.ids \cap Identity # {} <=> g \in Identity
      BY <1>2, <2>1, <3>1 DEF Core
    <3> QED BY <1>5, <2>1, <3>2, <3>3
  <2> QED BY <1>2, <1>5, <2>1 DEF FindAimed
<1>10. LocalsAimed(K, r, g, t)
  BY <1>5, <1>8, <1>9 DEF LocalsAimed, HasTarget
<1>11. LocalsAimed(K, r, g, Found(t))
  BY <1>2, <1>5, <1>10, FoundAimed
<1>12. Aim(K, r, g)'
  BY <1>2, ReadsAim DEF Find, vars
<1> QED BY <1>1, <1>11, <1>12 DEF Keeps, t, s

\* When the ranks are read the target is the goal's entity.
LEMMA RankedAimed ==
  ASSUME NEW K, NEW r, NEW g, Aim(K, r, g), NEW s \in Locals, s.pc = "rank",
         LocalsAimed(K, r, g, s), s.target # NoCid
  PROVE  LocalsAimed(K, r, g, Ranked(s))
<1>1. s.rec = r /\ HitsAimed(K, r, g, s) /\ RankAimed(K, r, g, s)
  BY DEF LocalsAimed
<1>2. CASE s.todo # {}
  BY <1>2 DEF Ranked
<1>3. CASE s.todo = {}
  <2> DEFINE u == [s EXCEPT !.best = 0]
             others == s.idHits \ {s.target}
             t == Goto(u, IF others = {} THEN "members" ELSE "unite", others)
  <2>1. u \in Locals /\ u.rec = r /\ u.target = s.target /\ u.idHits = s.idHits
        /\ u.afHits = s.afHits
    BY <1>1 DEF Locals
  <2>2. others \in SUBSET (StrongKeys \cup Phones \cup Cids)
    BY DEF Locals
  <2>3. /\ t.pc = IF others = {} THEN "members" ELSE "unite"
        /\ t.rec = r /\ t.todo = others /\ t.target = s.target
        /\ t.idHits = s.idHits /\ t.afHits = s.afHits
    <3> HIDE DEF u, others
    <3> QED BY <2>1, <2>2, GotoFields DEF Places, HasTarget
  <2>4. Ranked(s) = t
    BY <1>3 DEF Ranked
  <2> HIDE DEF t
  <2>5. s.target = CidOf(g)
    BY <1>1, <1>3, CoreNear DEF RankAimed
  <2>6. \A c \in t.todo : Near(r.ids, K, g, c)
    BY <1>1, <2>3, CoreNear DEF HitsAimed
  <2>7. LocalsAimed(K, r, g, t)
    BY <2>3, <2>5, <2>6, LandsAimed DEF HasTarget
  <2> QED BY <2>4, <2>7
<1> QED BY <1>2, <1>3

\* Reading a rank: a key of the core is read with its own rank, the goal with one that
\* is no weaker, so nothing beats it.
LEMMA ReadRankKeepsAim ==
  ASSUME NEW p, NEW me, me = req[p], NEW K, NEW r, NEW g, Aimed(K, r, g, me), ReadRank(p)
  PROVE  Keeps(p, K, r, g)
<1>1. /\ LocalOK(me) /\ me \in Locals /\ Aim(K, r, g) /\ LocalsAimed(K, r, g, me)
      /\ me.pc = "rank" /\ me.rec = r /\ HitsAimed(K, r, g, me) /\ RankAimed(K, r, g, me)
      /\ TypeOK /\ TablesAimed(K, r, g) /\ me.todo \subseteq Cids
  BY DEF ReadRank, Aimed, LocalsAimed, LocalOK, RowsInv, Aim
<1>2. PICK c \in me.todo :
        LET s == Without(me, c)
            rk == Rank[anchor[c]]
            wins == s.target = NoCid \/ rk < s.best
                      \/ (rk = s.best /\ CidBefore(c, s.target))
        IN  IF ~ Live(c) THEN Becomes(p, Failed(me))
            ELSE Becomes(p, Ranked(IF wins THEN [s EXCEPT !.target = c, !.best = rk] ELSE s))
  BY <1>1 DEF ReadRank
<1>3. Aim(K, r, g)'
  BY <1>1, ReadsAim DEF ReadRank, vars
<1>4. CASE ~ Live(c)
  BY <1>1, <1>2, <1>3, <1>4, FailedAimed DEF Keeps
<1>5. CASE Live(c)
  <2> DEFINE s == Without(me, c)
             rk == Rank[anchor[c]]
             wins == s.target = NoCid \/ rk < s.best \/ (rk = s.best /\ CidBefore(c, s.target))
             t == IF wins THEN [s EXCEPT !.target = c, !.best = rk] ELSE s
  <2>1. /\ s \in Locals /\ s.pc = "rank" /\ s.rec = r /\ s.todo = me.todo \ {c}
        /\ s.target = me.target /\ s.best = me.best
        /\ s.idHits = me.idHits /\ s.afHits = me.afHits
    BY <1>1, WithoutOK DEF LocalOK
  <2>2. rk \in Nat /\ c \in Cids /\ NoCid \notin Cids /\ me.best \in Nat
    BY <1>1, <1>5, KeysAssumption DEF TypeOK, Live, Locals
  <2>3. Becomes(p, Ranked(t))
    BY <1>2, <1>5
  <2> HIDE DEF s
  <2>4. /\ t \in Locals /\ t.pc = "rank" /\ t.rec = r /\ t.todo = me.todo \ {c}
        /\ t.target = IF wins THEN c ELSE me.target
        /\ t.best = IF wins THEN rk ELSE me.best
        /\ t.idHits = me.idHits /\ t.afHits = me.afHits
    <3> HIDE DEF wins, rk
    <3> QED BY <2>1, <2>2 DEF Locals
  <2>5. t.target # NoCid
    BY <2>1, <2>2, <2>4
  <2> HIDE DEF t
  <2>6. Near(Core(K, r), K, g, c)
    BY <1>1 DEF RankAimed
  <2>7. \A k \in Core(K, r) \ {g} : c = CidOf(k) => rk = Rank[k]
    BY <1>1, <1>5, AimTypes DEF TablesAimed
  <2>8. Core(K, r) # {} /\ c = CidOf(g) => rk <= Rank[g]
    BY <1>1 DEF TablesAimed
  <2>9. \A k \in Core(K, r) \ {g} :
          /\ Rank[g] \in Nat /\ Rank[k] \in Nat /\ Before(g, k)
          /\ Rank[g] = Rank[k] =>
               CidBefore(CidOf(g), CidOf(k)) /\ ~ CidBefore(CidOf(k), CidOf(g))
    <3> SUFFICES ASSUME NEW k \in Core(K, r) \ {g}
                 PROVE  /\ Rank[g] \in Nat /\ Rank[k] \in Nat /\ Before(g, k)
                        /\ Rank[g] = Rank[k] =>
                             CidBefore(CidOf(g), CidOf(k)) /\ ~ CidBefore(CidOf(k), CidOf(g))
      OBVIOUS
    <3>1. g \in StrongKeys /\ k \in StrongKeys /\ Before(g, k)
      BY <1>1, AimTypes DEF Aim, Goal
    <3> QED BY <3>1, KeysAssumption DEF Before, CidBefore, CidOf
  <2>10. Core(K, r) # {} => CidOf(g) \in t.todo \/ (t.target = CidOf(g) /\ t.best <= Rank[g])
    <3> SUFFICES ASSUME Core(K, r) # {}, CidOf(g) \notin t.todo
                 PROVE  t.target = CidOf(g) /\ t.best <= Rank[g]
      OBVIOUS
    <3>0. Rank[g] \in Nat
      BY <1>1, AimTypes, KeysAssumption
    <3>1. CASE c = CidOf(g)
      <4>1. rk <= Rank[g]
        BY <2>8, <3>1
      <4>2. CASE wins
        BY <2>4, <3>1, <4>1, <4>2
      <4>3. CASE ~ wins
        <5>1. me.target # NoCid /\ ~ (rk < me.best) /\ ~ (rk = me.best /\ CidBefore(c, me.target))
          BY <2>1, <4>3
        <5>2. CASE me.target = CidOf(g)
          BY <2>2, <2>4, <3>0, <4>1, <4>3, <5>1, <5>2
        <5>3. ASSUME NEW k \in Core(K, r) \ {g}, me.target = CidOf(k) PROVE FALSE
          <6>1. me.best = Rank[k]
            BY <1>1, <5>3 DEF RankAimed
          <6>2. /\ Rank[k] \in Nat /\ (Rank[g] < Rank[k] \/ Rank[g] = Rank[k])
                /\ Rank[g] = Rank[k] => CidBefore(c, me.target)
            BY <2>9, <3>1, <5>3 DEF Before
          <6> QED BY <2>2, <3>0, <4>1, <5>1, <6>1, <6>2
        <5>4. Near(Core(K, r), K, g, me.target)
          BY <1>1, <5>1 DEF RankAimed
        <5>5. me.target = CidOf(g) \/ \E k \in Core(K, r) \ {g} : me.target = CidOf(k)
          BY <5>4 DEF Near
        <5> QED BY <5>2, <5>3, <5>5
      <4> HIDE DEF wins
      <4> QED BY <4>2, <4>3
    <3>2. CASE c # CidOf(g)
      <4>1. me.target = CidOf(g) /\ me.best <= Rank[g]
        BY <1>1, <2>4, <3>2 DEF RankAimed
      <4>2. PICK k \in Core(K, r) \ {g} : c = CidOf(k)
        BY <2>6, <3>2 DEF Near
      <4>3. rk = Rank[k]
        BY <2>7, <4>2
      <4>4. /\ Rank[k] \in Nat /\ (Rank[g] < Rank[k] \/ Rank[g] = Rank[k])
            /\ Rank[g] = Rank[k] => ~ CidBefore(c, me.target)
        BY <2>9, <4>1, <4>2 DEF Before
      <4>5. me.target # NoCid
        BY <1>1, <4>1, AimTypes
      <4>6. ~ (rk < me.best) /\ ~ (rk = me.best /\ CidBefore(c, me.target))
        BY <2>2, <3>0, <4>1, <4>3, <4>4
      <4>7. ~ wins
        BY <2>1, <4>5, <4>6
      <4> HIDE DEF wins
      <4> QED BY <2>4, <4>1, <4>7
    <3> QED BY <3>1, <3>2
  <2> HIDE DEF wins, rk
  <2>11. RankAimed(K, r, g, t)
    BY <1>1, <2>4, <2>6, <2>7, <2>10 DEF RankAimed
  <2>12. HitsAimed(K, r, g, t)
    BY <1>1, <2>4 DEF HitsAimed
  <2>13. LocalsAimed(K, r, g, t)
    BY <2>4, <2>11, <2>12 DEF LocalsAimed, HasTarget
  <2>14. LocalsAimed(K, r, g, Ranked(t))
    BY <1>1, <2>4, <2>5, <2>13, RankedAimed
  <2> QED BY <1>3, <2>3, <2>14 DEF Keeps
<1> QED BY <1>4, <1>5

-----------------------------------------------------------------------------
\* A merge of an owner that is near moves keys of the record to the target.
LEMMA MergeKeepsAim ==
  ASSUME HashInjective, NEW p, NEW K, NEW r, NEW g, RowsInv, Aim(K, r, g),
         NEW l \in Cids \ {CidOf(g)}, Near(r.ids, K, g, l),
         NEW t, NEW next, LocalsAimed(K, r, g, next), req[p] = t, t.rec = r,
         MergeInto(p, CidOf(g), l, next)
  PROVE  Keeps(p, K, r, g)
<1>1. CASE ~ Live(CidOf(g)) /\ Referenced(l)
  <2>1. Becomes(p, Failed(t)) /\ UNCHANGED <<owner, anchor>>
    BY <1>1 DEF MergeInto, vars
  <2> QED BY <2>1, FailedAimed, ReadsAim DEF Keeps
<1>2. CASE ~ (~ Live(CidOf(g)) /\ Referenced(l))
  <2>1. /\ Becomes(p, next)
        /\ owner' = Repointed(owner, {l}, CidOf(g))
        /\ anchor' = [anchor EXCEPT ![l] = NoKey]
    BY <1>2 DEF MergeInto
  <2>2. \A k \in StrongKeys : owner'[k] = IF owner[k] = l THEN CidOf(g) ELSE owner[k]
    BY <2>1 DEF Repointed, RowsInv, TypeOK
  <2>3. \A c \in Cids : anchor'[c] = IF c = l THEN NoKey ELSE anchor[c]
    BY <2>1 DEF RowsInv, TypeOK
  <2>4. \A k \in StrongKeys : owner[k] = l => k \in r.ids
    BY NearHolds, KeysAssumption
  <2>5. g \in StrongKeys /\ CidOf(g) \in Cids /\ \A k \in K : k \in StrongKeys /\ CidOf(k) \in Cids
    BY AimTypes, CidOfType
  <2>6. TablesAimed(K, r, g)'
    <3>1. \A k \in StrongKeys : \/ owner'[k] = IF k \in K THEN CidOf(k) ELSE NoCid
                                \/ k \in r.ids /\ owner'[k] = CidOf(g)
      BY <2>2, <2>4 DEF Aim, TablesAimed
    <3>2. Core(K, r) # {} => /\ owner'[g] = CidOf(g)
                             /\ anchor'[CidOf(g)] \in StrongKeys
                             /\ Rank[anchor'[CidOf(g)]] <= Rank[g]
      BY <2>2, <2>3, <2>5 DEF Aim, TablesAimed
    <3>3. \A k \in K \ {g} : anchor'[CidOf(k)] # NoKey => anchor'[CidOf(k)] = k
      BY <2>3, <2>5 DEF Aim, TablesAimed, Live
    <3> QED BY <3>1, <3>2, <3>3 DEF TablesAimed, Live
  <2> QED BY <2>1, <2>6 DEF Keeps, Aim
<1> QED BY <1>1, <1>2

\* The target of a request that has one.
LEMMA AimedTarget ==
  ASSUME NEW K, NEW r, NEW g, NEW s, Aimed(K, r, g, s), s.pc \in HasTarget
  PROVE  /\ s \in Locals /\ s.rec = r /\ s.target = CidOf(g) /\ CidOf(g) \in Cids
         /\ Aim(K, r, g) /\ LocalsAimed(K, r, g, s) /\ LocalOK(s) /\ RowsInv
         /\ r.ids \subseteq StrongKeys
BY AimTypes DEF Aimed, LocalsAimed, LocalOK

\* The owners of the identity keys.
LEMMA UniteKeepsAim ==
  ASSUME HashInjective, NEW p, NEW me, me = req[p], NEW K, NEW r, NEW g, Aimed(K, r, g, me),
         Unite(p)
  PROVE  Keeps(p, K, r, g)
<1>1. /\ me \in Locals /\ me.rec = r /\ me.target = CidOf(g) /\ Aim(K, r, g)
      /\ LocalsAimed(K, r, g, me) /\ LocalOK(me) /\ RowsInv /\ me.pc = "unite"
      /\ me.todo \subseteq Cids \ {CidOf(g)} /\ \A c \in me.todo : Near(r.ids, K, g, c)
  BY AimedTarget DEF Unite, HasTarget, LocalOK, LocalsAimed
<1>2. PICK c \in me.todo :
        MergeInto(p, CidOf(g), c,
          IF me.todo = {c} THEN Goto(me, "members", {}) ELSE Without(me, c))
  BY <1>1 DEF Unite
<1> DEFINE t == IF me.todo = {c} THEN Goto(me, "members", {}) ELSE Without(me, c)
<1>3. /\ t.rec = r /\ t.target = CidOf(g) /\ t.idHits = me.idHits /\ t.afHits = me.afHits
      /\ t.pc = "members" \/ (t.pc = "unite" /\ t.todo = me.todo \ {c})
  <2>1. "members" \in Places /\ {} \in SUBSET (StrongKeys \cup Phones \cup Cids)
    BY DEF Places, HasTarget
  <2> QED BY <1>1, <2>1, GotoFields, WithoutOK
<1>4. MergeInto(p, CidOf(g), c, t)
  BY <1>2
<1> HIDE DEF t
<1>5. LocalsAimed(K, r, g, t)
  BY <1>1, <1>3, LandsAimed DEF HasTarget
<1>6. Near(r.ids, K, g, c) /\ c \in Cids \ {CidOf(g)}
  BY <1>1
<1> QED BY <1>1, <1>4, <1>5, <1>6, MergeKeepsAim

\* An owner of a domain.
LEMMA AbsorbKeepsAim ==
  ASSUME HashInjective, NEW p, NEW me, me = req[p], NEW K, NEW r, NEW g, Aimed(K, r, g, me),
         Absorb(p)
  PROVE  Keeps(p, K, r, g)
<1>1. /\ me \in Locals /\ me.rec = r /\ me.target = CidOf(g) /\ Aim(K, r, g)
      /\ LocalsAimed(K, r, g, me) /\ LocalOK(me) /\ RowsInv /\ me.pc = "absorb"
      /\ me.item \in Cids \ {CidOf(g)} /\ Near(r.ids, K, g, me.item)
      /\ \A c \in me.todo : Near(r.ids, K, g, c)
  BY AimedTarget DEF Absorb, HasTarget, LocalOK, LocalsAimed
<1> DEFINE t == [me EXCEPT !.pc = "refresh", !.item = NoKey]
<1>2. MergeInto(p, CidOf(g), me.item, t)
  BY <1>1 DEF Absorb
<1>3. /\ t.rec = r /\ t.target = CidOf(g) /\ t.idHits = me.idHits /\ t.afHits = me.afHits
      /\ t.pc = "refresh" /\ t.todo = me.todo
  BY <1>1 DEF Locals
<1> HIDE DEF t
<1>4. LocalsAimed(K, r, g, t)
  BY <1>1, <1>3, LandsAimed DEF HasTarget
<1> QED BY <1>1, <1>2, <1>4, MergeKeepsAim

\* The loop over the domains' owners: the winner's members,
LEMMA ReadWinnerKeepsAim ==
  ASSUME NEW p, NEW me, me = req[p], NEW K, NEW r, NEW g, Aimed(K, r, g, me), ReadWinner(p)
  PROVE  Keeps(p, K, r, g)
<1>1. /\ me \in Locals /\ me.rec = r /\ me.target = CidOf(g) /\ Aim(K, r, g)
      /\ LocalsAimed(K, r, g, me) /\ HitsAimed(K, r, g, me)
  BY AimedTarget DEF ReadWinner, HasTarget, LocalsAimed
<1> DEFINE s == [me EXCEPT !.seen = Members(me.target), !.todo = me.afHits \ {me.target}]
<1>2. /\ s \in Locals /\ s.rec = r /\ s.target = CidOf(g) /\ s.todo \subseteq Cids
      /\ s.idHits = me.idHits /\ s.afHits = me.afHits /\ s.todo \subseteq me.afHits
  BY <1>1, MembersType DEF Locals
<1>3. Becomes(p, Looped(s)) /\ UNCHANGED <<owner, anchor>>
  BY DEF ReadWinner, vars
<1> HIDE DEF s
<1>4. \A c \in s.todo : Near(r.ids, K, g, c)
  BY <1>1, <1>2 DEF HitsAimed
<1>5. LocalsAimed(K, r, g, Looped(s))
  BY <1>1, <1>2, <1>4, LoopedAimed
<1> QED BY <1>1, <1>3, <1>5, ReadsAim DEF Keeps

\* one owner against them,
LEMMA CompareKeepsAim ==
  ASSUME NEW p, NEW me, me = req[p], NEW K, NEW r, NEW g, Aimed(K, r, g, me), Compare(p)
  PROVE  Keeps(p, K, r, g)
<1>1. /\ me \in Locals /\ me.rec = r /\ me.target = CidOf(g) /\ Aim(K, r, g)
      /\ LocalsAimed(K, r, g, me) /\ LocalOK(me) /\ me.todo \subseteq Cids
      /\ \A c \in me.todo : Near(r.ids, K, g, c)
  BY AimedTarget DEF Compare, HasTarget, LocalsAimed, LocalOK
<1>2. PICK c \in me.todo :
        \/ Becomes(p, Looped(Without(me, c)))
        \/ Becomes(p, [Without(me, c) EXCEPT !.pc = "absorb", !.item = c])
  BY DEF Compare
<1> DEFINE s == Without(me, c)
           t == [s EXCEPT !.pc = "absorb", !.item = c]
<1>3. /\ s \in Locals /\ s.rec = r /\ s.target = CidOf(g) /\ s.todo = me.todo \ {c}
      /\ s.idHits = me.idHits /\ s.afHits = me.afHits
  BY <1>1, WithoutOK DEF LocalOK
<1>4. Becomes(p, Looped(s)) \/ Becomes(p, t)
  BY <1>2
<1> HIDE DEF s
<1>5. LocalsAimed(K, r, g, Looped(s))
  BY <1>1, <1>3, LoopedAimed
<1>6. /\ t.rec = r /\ t.target = CidOf(g) /\ t.todo = me.todo \ {c} /\ t.pc = "absorb"
      /\ t.item = c /\ t.idHits = me.idHits /\ t.afHits = me.afHits
  BY <1>3 DEF Locals
<1> HIDE DEF t
<1>7. LocalsAimed(K, r, g, t)
  BY <1>1, <1>6, LandsAimed DEF HasTarget
<1>8. Aim(K, r, g)'
  BY <1>1, ReadsAim DEF Compare, vars
<1> QED BY <1>4, <1>5, <1>7, <1>8 DEF Keeps

\* and the members again after a merge.
LEMMA RefreshKeepsAim ==
  ASSUME NEW p, NEW me, me = req[p], NEW K, NEW r, NEW g, Aimed(K, r, g, me), Refresh(p)
  PROVE  Keeps(p, K, r, g)
<1>1. /\ me \in Locals /\ me.rec = r /\ me.target = CidOf(g) /\ Aim(K, r, g)
      /\ LocalsAimed(K, r, g, me) /\ me.todo \subseteq Cids
      /\ \A c \in me.todo : Near(r.ids, K, g, c)
  BY AimedTarget DEF Refresh, HasTarget, LocalsAimed, LocalOK
<1> DEFINE s == [me EXCEPT !.seen = Members(me.target)]
<1>2. /\ s \in Locals /\ s.rec = r /\ s.target = CidOf(g) /\ s.todo = me.todo
      /\ s.idHits = me.idHits /\ s.afHits = me.afHits
  BY <1>1, MembersType DEF Locals
<1>3. Becomes(p, Looped(s)) /\ UNCHANGED <<owner, anchor>>
  BY DEF Refresh, vars
<1> HIDE DEF s
<1>4. LocalsAimed(K, r, g, Looped(s))
  BY <1>1, <1>2, LoopedAimed
<1> QED BY <1>1, <1>3, <1>4, ReadsAim DEF Keeps

\* Whoever is adopted holds a key of the record that was not resolved: the target.
LEMMA AdoptKeepsAim ==
  ASSUME NEW p, NEW me, me = req[p], NEW K, NEW r, NEW g, Aimed(K, r, g, me), Adopt(p)
  PROVE  Keeps(p, K, r, g)
<1>1. /\ me \in Locals /\ me.rec = r /\ Aim(K, r, g) /\ HitsAimed(K, r, g, me)
      /\ LocalsAimed(K, r, g, me) /\ LocalOK(me) /\ me.todo \subseteq Cids
      /\ me.pc = "adopt" /\ Core(K, r) = {} /\ \A c \in me.todo : Near(r.ids, K, g, c)
  BY DEF Adopt, Aimed, LocalsAimed, LocalOK
<1>2. PICK c \in me.todo :
        LET s == Without(me, c)
        IN  Becomes(p, IF IdMembers(c) \cap me.rec.ids # {}
                         THEN Looped(Goto([s EXCEPT !.target = c], "adopt", {}))
                       ELSE IF s.todo = {} THEN Goto(s, "mint", {}) ELSE s)
  BY <1>1, WithoutOK DEF Adopt
<1> DEFINE s == Without(me, c)
<1>3. /\ LocalOK(s) /\ s \in Locals /\ s.rec = r /\ s.todo = me.todo \ {c} /\ s.pc = "adopt"
      /\ s.idHits = me.idHits /\ s.afHits = me.afHits
  BY <1>1, WithoutOK DEF LocalOK
<1>4. Aim(K, r, g)' /\ "mint" \in Places /\ "adopt" \in Places
      /\ {} \in SUBSET (StrongKeys \cup Phones \cup Cids)
  BY <1>1, ReadsAim DEF Adopt, vars, Places
<1>5. CASE IdMembers(c) \cap r.ids # {}
  <2>1. PICK k \in r.ids \cap Identity : owner[k] = c /\ k \in StrongKeys
    BY <1>5 DEF IdMembers, Members
  <2>2. k \notin K
    BY <1>1, <2>1 DEF Core
  <2>3. c = CidOf(g)
    BY <1>1, <2>1, <2>2, KeysAssumption DEF Aim, TablesAimed
  <2> DEFINE v == [s EXCEPT !.target = c]
             u == Goto(v, "adopt", {})
  <2>4. Becomes(p, Looped(u))
    BY <1>1, <1>2, <1>5
  <2> HIDE DEF s
  <2>5. /\ v \in Locals /\ v.rec = r /\ v.target = c /\ v.idHits = me.idHits
        /\ v.afHits = me.afHits
    BY <1>1, <1>3 DEF Locals
  <2> HIDE DEF v
  <2>6. /\ u \in Locals /\ u.rec = r /\ u.target = CidOf(g) /\ u.todo = {}
        /\ u.idHits = me.idHits /\ u.afHits = me.afHits
    BY <1>4, <2>3, <2>5, GotoFields
  <2> HIDE DEF u
  <2>7. LocalsAimed(K, r, g, Looped(u))
    BY <1>1, <2>6, LoopedAimed
  <2> QED BY <1>4, <2>4, <2>7 DEF Keeps
<1>6. CASE IdMembers(c) \cap r.ids = {}
  <2> DEFINE t == IF s.todo = {} THEN Goto(s, "mint", {}) ELSE s
  <2>1. Becomes(p, t)
    BY <1>1, <1>2, <1>6
  <2> HIDE DEF s
  <2>2. /\ t.rec = r /\ t.idHits = me.idHits /\ t.afHits = me.afHits
        /\ t.todo \subseteq me.todo /\ t.pc \in {"mint", "adopt"}
    BY <1>3, <1>4, GotoFields
  <2> HIDE DEF t
  <2>3. LocalsAimed(K, r, g, t)
    BY <1>1, <2>2 DEF LocalsAimed, HitsAimed, HasTarget
  <2> QED BY <1>4, <2>1, <2>3 DEF Keeps
<1> QED BY <1>5, <1>6

\* A set of keys has one anchor.
LEMMA OneAnchor ==
  ASSUME NEW S \in SUBSET StrongKeys, NEW a, NEW b, IsEntityAnchor(a, S), IsEntityAnchor(b, S)
  PROVE  a = b
<1>1. a \in StrongKeys /\ b \in StrongKeys
  BY EntityAnchorIn
<1>2. a # b => Stronger(a, b) /\ Stronger(b, a)
  BY DEF IsEntityAnchor, IsStrongest
<1>3. /\ Rank[a] \in Nat /\ Rank[b] \in Nat /\ Pos[a] \in Nat /\ Pos[b] \in Nat
  BY <1>1, KeysAssumption
<1> QED BY <1>2, <1>3 DEF Stronger

\* The mint is of the goal.
LEMMA MintKeepsAim ==
  ASSUME HashInjective, NEW p, NEW me, me = req[p], NEW K, NEW r, NEW g, Aimed(K, r, g, me),
         Mint(p)
  PROVE  Keeps(p, K, r, g)
<1>1. /\ me \in Locals /\ me.rec = r /\ Aim(K, r, g) /\ LocalsAimed(K, r, g, me)
      /\ Core(K, r) = {} /\ TypeOK
  BY DEF Mint, Aimed, LocalsAimed, LocalOK, RowsInv
<1>2. g \in StrongKeys /\ CidOf(g) \in Cids /\ r.ids \subseteq StrongKeys /\ K \subseteq StrongKeys
      /\ IsEntityAnchor(g, r.ids)
  BY <1>1, AimTypes DEF Aim, Goal
<1>3. PICK a \in me.rec.ids :
        /\ IsEntityAnchor(a, me.rec.ids)
        /\ anchor' = [anchor EXCEPT ![CidOf(a)] = IF Live(CidOf(a)) THEN @ ELSE a]
        /\ Becomes(p, Looped(Goto([me EXCEPT !.target = CidOf(a)], "mint", {})))
        /\ UNCHANGED owner
  BY DEF Mint
<1>4. a = g
  BY <1>1, <1>2, <1>3, OneAnchor
<1> DEFINE v == [me EXCEPT !.target = CidOf(a)]
           u == Goto(v, "mint", {})
<1>5. /\ v \in Locals /\ v.rec = r /\ v.target = CidOf(g) /\ v.idHits = me.idHits
      /\ v.afHits = me.afHits
  BY <1>1, <1>2, <1>4 DEF Locals
<1>6. Becomes(p, Looped(u))
  BY <1>3
<1> HIDE DEF v
<1>7. /\ u \in Locals /\ u.rec = r /\ u.target = CidOf(g) /\ u.todo = {}
      /\ u.idHits = me.idHits /\ u.afHits = me.afHits
  <2>1. "mint" \in Places /\ {} \in SUBSET (StrongKeys \cup Phones \cup Cids)
    BY DEF Places
  <2> QED BY <1>5, <2>1, GotoFields
<1> HIDE DEF u
<1>8. LocalsAimed(K, r, g, Looped(u))
  BY <1>1, <1>7, LoopedAimed
<1>9. \A k \in K \ {g} : CidOf(k) \in Cids /\ CidOf(k) # CidOf(g)
  BY <1>2, CidOfType, CidsApart
<1>10. \A k \in K \ {g} : anchor'[CidOf(k)] = anchor[CidOf(k)]
  BY <1>1, <1>3, <1>4, <1>9 DEF TypeOK
<1>11. Aim(K, r, g)'
  BY <1>1, <1>3, <1>10 DEF Aim, TablesAimed, Live
<1> QED BY <1>6, <1>8, <1>11 DEF Keeps

-----------------------------------------------------------------------------
\* Each key: whether it is attached,
LEMMA FindOwnerKeepsAim ==
  ASSUME NEW p, NEW me, me = req[p], NEW K, NEW r, NEW g, Aimed(K, r, g, me), FindOwner(p)
  PROVE  Keeps(p, K, r, g)
<1>1. /\ me \in Locals /\ me.rec = r /\ me.target = CidOf(g) /\ Aim(K, r, g)
      /\ LocalsAimed(K, r, g, me) /\ LocalOK(me) /\ me.todo \subseteq r.ids
  BY AimedTarget DEF FindOwner, HasTarget, LocalOK
<1>2. PICK k \in me.todo :
        \/ Becomes(p, Attached(Without(me, k)))
        \/ Becomes(p, [Without(me, k) EXCEPT !.pc = "write", !.item = k])
  BY DEF FindOwner
<1> DEFINE s == Without(me, k)
           t == [s EXCEPT !.pc = "write", !.item = k]
           u == Attached(s)
<1>3. /\ s \in Locals /\ s.rec = r /\ s.target = CidOf(g) /\ s.todo \subseteq s.rec.ids
      /\ s.idHits = me.idHits /\ s.afHits = me.afHits
  BY <1>1, WithoutOK DEF LocalOK
<1>4. Becomes(p, u) \/ Becomes(p, t)
  BY <1>2
<1> HIDE DEF s
<1>5. /\ t.rec = r /\ t.target = CidOf(g) /\ t.pc = "write"
      /\ t.idHits = me.idHits /\ t.afHits = me.afHits
  BY <1>3 DEF Locals
<1>6. /\ u.rec = r /\ u.target = CidOf(g) /\ u.pc \in {"attach", "phones", "reread"}
      /\ u.idHits = me.idHits /\ u.afHits = me.afHits
  BY <1>3, AttachedFields
<1> HIDE DEF t, u
<1>7. LocalsAimed(K, r, g, t) /\ LocalsAimed(K, r, g, u)
  BY <1>1, <1>5, <1>6, LandsAimed DEF HasTarget
<1>8. Aim(K, r, g)'
  BY <1>1, ReadsAim DEF FindOwner, vars
<1> QED BY <1>4, <1>7, <1>8 DEF Keeps

\* and the write of one that is not.
LEMMA WriteKeyKeepsAim ==
  ASSUME NEW p, NEW me, me = req[p], NEW K, NEW r, NEW g, Aimed(K, r, g, me), WriteKey(p)
  PROVE  Keeps(p, K, r, g)
<1>1. /\ me \in Locals /\ me.rec = r /\ me.target = CidOf(g) /\ Aim(K, r, g)
      /\ LocalsAimed(K, r, g, me) /\ LocalOK(me) /\ me.todo \subseteq r.ids
      /\ me.item \in r.ids /\ TypeOK
  BY AimedTarget DEF WriteKey, HasTarget, LocalOK, RowsInv
<1> DEFINE s == [me EXCEPT !.item = NoKey]
           t == Attached(s)
<1>2. CASE ~ Live(me.target)
  <2>1. Becomes(p, Failed(me)) /\ UNCHANGED <<owner, anchor>>
    BY <1>2 DEF WriteKey
  <2> QED BY <1>1, <2>1, FailedAimed, ReadsAim DEF Keeps
<1>3. CASE Live(me.target)
  <2>1. /\ owner' = [owner EXCEPT ![me.item] = CidOf(g)] /\ anchor' = anchor
        /\ Becomes(p, t)
    BY <1>1, <1>3 DEF WriteKey
  <2>2. /\ s \in Locals /\ s.rec = r /\ s.target = CidOf(g) /\ s.todo \subseteq s.rec.ids
        /\ s.idHits = me.idHits /\ s.afHits = me.afHits
    BY <1>1 DEF Locals
  <2> HIDE DEF s
  <2>3. /\ t.rec = r /\ t.target = CidOf(g) /\ t.pc \in {"attach", "phones", "reread"}
        /\ t.idHits = me.idHits /\ t.afHits = me.afHits
    BY <2>2, AttachedFields
  <2> HIDE DEF t
  <2>4. LocalsAimed(K, r, g, t)
    BY <1>1, <2>3, LandsAimed DEF HasTarget
  <2>5. \A k \in StrongKeys : owner'[k] = IF k = me.item THEN CidOf(g) ELSE owner[k]
    BY <1>1, <2>1 DEF TypeOK
  <2>6. TablesAimed(K, r, g)'
    <3>1. \A k \in StrongKeys : \/ owner'[k] = IF k \in K THEN CidOf(k) ELSE NoCid
                                \/ k \in r.ids /\ owner'[k] = CidOf(g)
      BY <1>1, <2>5 DEF Aim, TablesAimed
    <3>2. Core(K, r) # {} => owner'[g] = CidOf(g)
      BY <1>1, <2>5, AimTypes DEF Aim, TablesAimed
    <3> QED BY <1>1, <2>1, <3>1, <3>2 DEF Aim, TablesAimed, Live
  <2> QED BY <1>1, <2>1, <2>4, <2>6 DEF Keeps, Aim
<1> QED BY <1>2, <1>3

\* Each phone: whether it is recorded,
LEMMA FindPhoneKeepsAim ==
  ASSUME NEW p, NEW me, me = req[p], NEW K, NEW r, NEW g, Aimed(K, r, g, me), FindPhone(p)
  PROVE  Keeps(p, K, r, g)
<1>1. /\ me \in Locals /\ me.rec = r /\ me.target = CidOf(g) /\ Aim(K, r, g)
      /\ LocalsAimed(K, r, g, me) /\ LocalOK(me)
  BY AimedTarget DEF FindPhone, HasTarget
<1>2. PICK ph \in me.todo :
        \/ Becomes(p, Phoned(Without(me, ph)))
        \/ Becomes(p, [Without(me, ph) EXCEPT !.pc = "dial", !.item = ph])
  BY DEF FindPhone
<1> DEFINE s == Without(me, ph)
           t == [s EXCEPT !.pc = "dial", !.item = ph]
           u == Phoned(s)
<1>3. /\ s \in Locals /\ s.rec = r /\ s.target = CidOf(g)
      /\ s.idHits = me.idHits /\ s.afHits = me.afHits
  BY <1>1, WithoutOK DEF LocalOK
<1>4. Becomes(p, u) \/ Becomes(p, t)
  BY <1>2
<1> HIDE DEF s
<1>5. /\ t.rec = r /\ t.target = CidOf(g) /\ t.pc = "dial"
      /\ t.idHits = me.idHits /\ t.afHits = me.afHits
  BY <1>3 DEF Locals
<1>6. /\ u.rec = r /\ u.target = CidOf(g) /\ u.pc \in {"phones", "reread"}
      /\ u.idHits = me.idHits /\ u.afHits = me.afHits
  BY <1>3, PhonedFields
<1> HIDE DEF t, u
<1>7. LocalsAimed(K, r, g, t) /\ LocalsAimed(K, r, g, u)
  BY <1>1, <1>5, <1>6, LandsAimed DEF HasTarget
<1>8. Aim(K, r, g)'
  BY <1>1, ReadsAim DEF FindPhone, vars
<1> QED BY <1>4, <1>7, <1>8 DEF Keeps

\* and the write of one that is not.
LEMMA WritePhoneKeepsAim ==
  ASSUME NEW p, NEW me, me = req[p], NEW K, NEW r, NEW g, Aimed(K, r, g, me), WritePhone(p)
  PROVE  Keeps(p, K, r, g)
<1>1. /\ me \in Locals /\ me.rec = r /\ me.target = CidOf(g) /\ Aim(K, r, g)
      /\ LocalsAimed(K, r, g, me)
  BY AimedTarget DEF WritePhone, HasTarget
<1> DEFINE s == [me EXCEPT !.item = NoKey]
           u == Phoned(s)
<1>2. Becomes(p, u) \/ Becomes(p, Failed(me))
  BY DEF WritePhone
<1>3. /\ s \in Locals /\ s.rec = r /\ s.target = CidOf(g)
      /\ s.idHits = me.idHits /\ s.afHits = me.afHits
  BY <1>1 DEF Locals
<1> HIDE DEF s
<1>4. /\ u.rec = r /\ u.target = CidOf(g) /\ u.pc \in {"phones", "reread"}
      /\ u.idHits = me.idHits /\ u.afHits = me.afHits
  BY <1>3, PhonedFields
<1> HIDE DEF u
<1>5. LocalsAimed(K, r, g, u) /\ LocalsAimed(K, r, g, Failed(me))
  BY <1>1, <1>4, LandsAimed, FailedAimed DEF HasTarget
<1>6. Aim(K, r, g)'
  BY <1>1, ReadsAim DEF WritePhone
<1> QED BY <1>2, <1>5, <1>6 DEF Keeps

\* The members read last are keys of the record, the goal among them if it was resolved,
LEMMA RereadKeepsAim ==
  ASSUME HashInjective, NEW p, NEW me, me = req[p], NEW K, NEW r, NEW g, Aimed(K, r, g, me),
         Reread(p)
  PROVE  Keeps(p, K, r, g)
<1>1. /\ me \in Locals /\ me.rec = r /\ me.target = CidOf(g) /\ Aim(K, r, g)
      /\ LocalsAimed(K, r, g, me) /\ HitsAimed(K, r, g, me)
  BY AimedTarget DEF Reread, HasTarget, LocalsAimed
<1> DEFINE t == [me EXCEPT !.pc = "current", !.seen = Members(me.target)]
<1>2. Becomes(p, t) /\ UNCHANGED <<owner, anchor>>
  BY DEF Reread, vars
<1>3. /\ t.rec = r /\ t.target = CidOf(g) /\ t.pc = "current" /\ t.seen = Members(CidOf(g))
      /\ t.idHits = me.idHits /\ t.afHits = me.afHits
  BY <1>1 DEF Locals
<1> HIDE DEF t
<1>4. Near(r.ids, K, g, CidOf(g)) /\ CidOf(g) # NoCid /\ g \in StrongKeys
  BY <1>1, AimTypes DEF Near
<1>5. Members(CidOf(g)) \subseteq r.ids
  BY <1>1, <1>4, NearHolds DEF Members
<1>6. Core(K, r) # {} => g \in Members(CidOf(g))
  BY <1>1, <1>4 DEF Members, Aim, TablesAimed
<1>7. HitsAimed(K, r, g, t)
  BY <1>1, <1>3 DEF HitsAimed
<1>8. LocalsAimed(K, r, g, t)
  BY <1>3, <1>5, <1>6, <1>7 DEF LocalsAimed, HasTarget
<1> QED BY <1>1, <1>2, <1>8, ReadsAim DEF Keeps

\* so the anchor over them is no weaker than the goal.
LEMMA ReadAnchorKeepsAim ==
  ASSUME NEW p, NEW me, me = req[p], NEW K, NEW r, NEW g, Aimed(K, r, g, me), ReadAnchor(p)
  PROVE  Keeps(p, K, r, g)
<1>0. me.pc = "current"
  BY DEF ReadAnchor
<1>1. /\ me \in Locals /\ me.rec = r /\ me.target = CidOf(g) /\ Aim(K, r, g)
      /\ LocalsAimed(K, r, g, me) /\ HitsAimed(K, r, g, me)
      /\ Core(K, r) # {} => g \in me.seen /\ me.seen \subseteq r.ids
  BY <1>0, AimedTarget DEF HasTarget, LocalsAimed
<1>2. Aim(K, r, g)'
  BY <1>1, ReadsAim DEF ReadAnchor, vars
<1> DEFINE s == [me EXCEPT !.seen = {}]
           u == Goto(s, "answer", {})
           t(a) == [s EXCEPT !.pc = "anchor", !.item = a]
<1>3. \/ Becomes(p, Failed(me)) \/ Becomes(p, u)
      \/ \E a \in StrongKeys : Sharpens(a, me.seen, anchor[s.target]) /\ Becomes(p, t(a))
  BY DEF ReadAnchor
<1>4. /\ s \in Locals /\ s.rec = r /\ s.target = CidOf(g)
      /\ s.idHits = me.idHits /\ s.afHits = me.afHits
  BY <1>1 DEF Locals
<1> HIDE DEF s
<1>5. /\ u.rec = r /\ u.target = CidOf(g) /\ u.pc = "answer"
      /\ u.idHits = me.idHits /\ u.afHits = me.afHits
  <2>1. "answer" \in Places /\ {} \in SUBSET (StrongKeys \cup Phones \cup Cids)
    BY DEF Places, HasTarget
  <2> QED BY <1>4, <2>1, GotoFields
<1> HIDE DEF u
<1>6. LocalsAimed(K, r, g, u) /\ LocalsAimed(K, r, g, Failed(me))
  BY <1>1, <1>5, LandsAimed, FailedAimed DEF HasTarget
<1>7. ASSUME NEW a \in StrongKeys, Sharpens(a, me.seen, anchor[s.target]), Becomes(p, t(a))
      PROVE  Keeps(p, K, r, g)
  <2>1. /\ t(a).rec = r /\ t(a).target = CidOf(g) /\ t(a).pc = "anchor" /\ t(a).item = a
        /\ t(a).idHits = me.idHits /\ t(a).afHits = me.afHits
    BY <1>4 DEF Locals
  <2>2. Core(K, r) # {} => Rank[a] <= Rank[g]
    <3> SUFFICES ASSUME Core(K, r) # {} PROVE Rank[a] <= Rank[g]
      OBVIOUS
    <3>1. /\ g \in StrongKeys /\ Rank[g] \in Nat /\ Rank[a] \in Nat
          /\ g \in me.seen /\ me.seen \subseteq r.ids /\ g \in Core(K, r)
      BY <1>1, AimTypes, KeysAssumption
    <3>2. IsEntityAnchor(a, me.seen)
      BY <1>7, <3>1 DEF Sharpens
    <3>3. g \in Identity \/ me.seen \cap Identity = {}
      BY <3>1 DEF Core
    <3>4. a = g \/ Stronger(a, g)
      BY <3>1, <3>2, <3>3 DEF IsEntityAnchor, IsStrongest
    <3> QED BY <3>1, <3>4 DEF Stronger
  <2> HIDE DEF t
  <2>3. HitsAimed(K, r, g, t(a))
    BY <1>1, <2>1 DEF HitsAimed
  <2>4. LocalsAimed(K, r, g, t(a))
    BY <2>1, <2>2, <2>3 DEF LocalsAimed, HasTarget
  <2> QED BY <1>2, <1>7, <2>4 DEF Keeps
<1> QED BY <1>2, <1>3, <1>6, <1>7 DEF Keeps

\* The write of it.
LEMMA SetAnchorKeepsAim ==
  ASSUME HashInjective, NEW p, NEW me, me = req[p], NEW K, NEW r, NEW g, Aimed(K, r, g, me),
         SetAnchor(p)
  PROVE  Keeps(p, K, r, g)
<1>1. /\ me \in Locals /\ me.rec = r /\ me.target = CidOf(g) /\ CidOf(g) \in Cids
      /\ Aim(K, r, g) /\ LocalsAimed(K, r, g, me) /\ TypeOK /\ me.item \in StrongKeys
      /\ Core(K, r) # {} => Rank[me.item] <= Rank[g]
  BY AimedTarget DEF SetAnchor, HasTarget, LocalsAimed, LocalOK, RowsInv
<1> DEFINE t == [me EXCEPT !.pc = "answer", !.item = NoKey]
<1>2. /\ Becomes(p, t) /\ owner' = owner
      /\ \/ anchor' = anchor
         \/ anchor' = [anchor EXCEPT ![CidOf(g)] = me.item]
  BY <1>1 DEF SetAnchor
<1>3. /\ t.rec = r /\ t.target = CidOf(g) /\ t.pc = "answer"
      /\ t.idHits = me.idHits /\ t.afHits = me.afHits
  BY <1>1 DEF Locals
<1> HIDE DEF t
<1>4. LocalsAimed(K, r, g, t)
  BY <1>1, <1>3, LandsAimed DEF HasTarget
<1>5. \A k \in K \ {g} : CidOf(k) \in Cids /\ CidOf(k) # CidOf(g)
  BY <1>1, AimTypes, CidOfType, CidsApart
<1>6. \A k \in K \ {g} : anchor'[CidOf(k)] = anchor[CidOf(k)]
  BY <1>1, <1>2, <1>5 DEF TypeOK
<1>7. /\ anchor'[CidOf(g)] = anchor[CidOf(g)] \/ anchor'[CidOf(g)] = me.item
  BY <1>1, <1>2 DEF TypeOK
<1>8. Aim(K, r, g)'
  BY <1>1, <1>2, <1>6, <1>7 DEF Aim, TablesAimed, Live
<1> QED BY <1>2, <1>4, <1>8 DEF Keeps

\* The answer.
LEMMA AnswerKeepsAim ==
  ASSUME NEW p, NEW me, me = req[p], NEW K, NEW r, NEW g, Aimed(K, r, g, me), Answer(p)
  PROVE  Keeps(p, K, r, g)
<1>1. /\ me.rec = r /\ me.target = CidOf(g) /\ Aim(K, r, g)
  BY AimedTarget DEF Answer, HasTarget
<1>2. LocalsAimed(K, r, g, AtRest("done", r, CidOf(g)))
  BY DEF AtRest, LocalsAimed, HitsAimed, HasTarget
<1>3. LocalsAimed(K, r, g, Failed(me))
  BY <1>1, FailedAimed
<1>4. Becomes(p, AtRest("done", r, CidOf(g))) \/ Becomes(p, Failed(me))
  BY <1>1 DEF Answer
<1>5. Aim(K, r, g)'
  BY <1>1, ReadsAim DEF Answer, vars
<1> QED BY <1>2, <1>3, <1>4, <1>5 DEF Keeps

\* So each statement keeps the aim of its request.
LEMMA StepKeepsAim ==
  ASSUME HashInjective, NEW p, NEW me, me = req[p], NEW K, NEW r, NEW g, Aimed(K, r, g, me),
         Step(p)
  PROVE  Keeps(p, K, r, g)
BY FindKeepsAim, ReadRankKeepsAim, UniteKeepsAim, ReadWinnerKeepsAim, CompareKeepsAim,
   AbsorbKeepsAim, RefreshKeepsAim, AdoptKeepsAim, MintKeepsAim, FindOwnerKeepsAim,
   WriteKeyKeepsAim, FindPhoneKeepsAim, WritePhoneKeepsAim, RereadKeepsAim,
   ReadAnchorKeepsAim, SetAnchorKeepsAim, AnswerKeepsAim DEF Step

\* t is what a request with the locals s has become: its record is the same.
Continues(t, s) == t.rec = s.rec /\ t.pc # "idle" /\ DOMAIN t = DOMAIN s

Shaped(s) ==
  /\ DOMAIN s = {"pc", "rec", "todo", "idHits", "afHits", "target", "best", "seen", "item"}
  /\ s.pc # "idle"

\* No jump changes the record of a request.
LEMMA JumpsContinue ==
  ASSUME NEW s, Shaped(s)
  PROVE  /\ Continues(Found(s), s) /\ Continues(Ranked(s), s) /\ Continues(Looped(s), s)
         /\ Continues(Attached(s), s) /\ Continues(Phoned(s), s) /\ Continues(Failed(s), s)
         /\ \A x : Continues(Without(s, x), s)
         /\ \A pc, x : pc # "idle" => Continues(Goto(s, pc, x), s)
<1>1. Continues(Failed(s), s)
  BY DEF Continues, Failed, AtRest, Shaped
<1>2. Continues(Found(s), s)
  BY DEF Continues, Found, Goto, Shaped
<1>3. Continues(Ranked(s), s)
  BY DEF Continues, Ranked, Goto, Shaped
<1>4. Continues(Looped(s), s)
  BY DEF Continues, Looped, Goto, Shaped
<1>5. Continues(Attached(s), s)
  BY DEF Continues, Attached, Goto, Shaped
<1>6. Continues(Phoned(s), s)
  BY DEF Continues, Phoned, Goto, Shaped
<1>7. \A x : Continues(Without(s, x), s)
  BY DEF Continues, Without, Shaped
<1>8. \A pc, x : pc # "idle" => Continues(Goto(s, pc, x), s)
  BY DEF Continues, Goto, Shaped
<1> QED BY <1>1, <1>2, <1>3, <1>4, <1>5, <1>6, <1>7, <1>8

\* Nor does a statement.
LEMMA StepContinues ==
  ASSUME LocalsInv, NEW p \in Requests, NEW me, me = req[p], Step(p)
  PROVE  Continues(req'[p], me)
<1>0. Shaped(me) /\ \A t : Becomes(p, t) => req'[p] = t
  BY StepRuns DEF LocalsInv, Becomes, Shaped, Locals, Running
<1>j. ASSUME NEW s, Continues(s, me)
      PROVE  /\ Continues(Found(s), me) /\ Continues(Ranked(s), me) /\ Continues(Looped(s), me)
             /\ Continues(Attached(s), me) /\ Continues(Phoned(s), me)
  BY <1>0, <1>j, JumpsContinue DEF Continues, Shaped
<1>f. Becomes(p, Failed(me)) => Continues(req'[p], me)
  BY <1>0, JumpsContinue
<1>w. \A x : Continues(Without(me, x), me)
  BY <1>0, JumpsContinue
<1>1. CASE Find(p)
  <2>1. PICK k, H :
          \/ Becomes(p, Found([Without(me, k) EXCEPT !.idHits = H]))
          \/ Becomes(p, Found([Without(me, k) EXCEPT !.afHits = H]))
    <3>1. PICK k \in me.todo :
            \/ Becomes(p, Found([Without(me, k) EXCEPT !.idHits = @ \cup Hits({k})]))
            \/ Becomes(p, Found([Without(me, k) EXCEPT !.afHits = @ \cup Hits({k})]))
      BY <1>1 DEF Find
    <3> QED BY <3>1
  <2> DEFINE s == Without(me, k)
  <2>2. Continues(s, me)
    BY <1>w
  <2> HIDE DEF s
  <2>3. Continues([s EXCEPT !.idHits = H], me) /\ Continues([s EXCEPT !.afHits = H], me)
    BY <1>0, <2>2 DEF Continues, Shaped
  <2> QED BY <1>0, <1>j, <2>1, <2>3 DEF s
<1>2. CASE ReadRank(p)
  <2>1. PICK c, b :
          \/ Becomes(p, Failed(me)) \/ Becomes(p, Ranked(Without(me, c)))
          \/ Becomes(p, Ranked([Without(me, c) EXCEPT !.target = c, !.best = b]))
    BY <1>2 DEF ReadRank
  <2> DEFINE s == Without(me, c)
  <2>2. Continues(s, me)
    BY <1>w
  <2> HIDE DEF s
  <2>3. Continues([s EXCEPT !.target = c, !.best = b], me)
    BY <1>0, <2>2 DEF Continues, Shaped
  <2> QED BY <1>0, <1>f, <1>j, <2>1, <2>2, <2>3 DEF s
<1>3. CASE Unite(p)
  BY <1>0, <1>3, <1>f, <1>w, JumpsContinue DEF Unite, MergeInto
<1>4. CASE ReadWinner(p) \/ Refresh(p)
  <2>1. PICK S, T :
          \/ Becomes(p, Looped([me EXCEPT !.seen = S, !.todo = T]))
          \/ Becomes(p, Looped([me EXCEPT !.seen = S]))
    BY <1>4 DEF ReadWinner, Refresh
  <2>2. /\ Continues([me EXCEPT !.seen = S, !.todo = T], me)
        /\ Continues([me EXCEPT !.seen = S], me)
    BY <1>0 DEF Continues, Shaped
  <2> QED BY <1>0, <1>j, <2>1, <2>2
<1>5. CASE Compare(p)
  <2>1. PICK c :
          \/ Becomes(p, Looped(Without(me, c)))
          \/ Becomes(p, [Without(me, c) EXCEPT !.pc = "absorb", !.item = c])
    BY <1>5 DEF Compare
  <2>2. Continues([Without(me, c) EXCEPT !.pc = "absorb", !.item = c], me)
    BY <1>0, <1>w DEF Continues, Shaped
  <2> QED BY <1>0, <1>j, <1>w, <2>1, <2>2
<1>6. CASE Absorb(p)
  <2>1. Continues([me EXCEPT !.pc = "refresh", !.item = NoKey], me)
    BY <1>0 DEF Continues, Shaped
  <2> QED BY <1>0, <1>6, <1>f, <2>1 DEF Absorb, MergeInto
<1>7. CASE Adopt(p) \/ Mint(p)
  <2>1. PICK c, d :
          \/ Becomes(p, Looped(Goto([Without(me, c) EXCEPT !.target = c], "adopt", {})))
          \/ Becomes(p, Goto(Without(me, c), "mint", {}))
          \/ Becomes(p, Without(me, c))
          \/ Becomes(p, Looped(Goto([me EXCEPT !.target = d], "mint", {})))
    BY <1>7 DEF Adopt, Mint
  <2> DEFINE s == Without(me, c)
  <2>2. Continues(s, me)
    BY <1>w
  <2> HIDE DEF s
  <2>3. /\ Continues([s EXCEPT !.target = c], me) /\ Continues([me EXCEPT !.target = d], me)
    BY <1>0, <2>2 DEF Continues, Shaped
  <2>4. \A u, pc : Continues(u, me) /\ pc # "idle" => Continues(Goto(u, pc, {}), me)
    BY <1>0, JumpsContinue DEF Continues, Shaped
  <2> QED BY <1>0, <1>j, <2>1, <2>2, <2>3, <2>4 DEF s
<1>8. CASE FindOwner(p) \/ FindPhone(p)
  <2>1. PICK k :
          \/ Becomes(p, Attached(Without(me, k)))
          \/ Becomes(p, [Without(me, k) EXCEPT !.pc = "write", !.item = k])
          \/ Becomes(p, Phoned(Without(me, k)))
          \/ Becomes(p, [Without(me, k) EXCEPT !.pc = "dial", !.item = k])
    BY <1>8 DEF FindOwner, FindPhone
  <2>2. /\ Continues([Without(me, k) EXCEPT !.pc = "write", !.item = k], me)
        /\ Continues([Without(me, k) EXCEPT !.pc = "dial", !.item = k], me)
    BY <1>0, <1>w DEF Continues, Shaped
  <2> QED BY <1>0, <1>j, <1>w, <2>1, <2>2
<1>9. CASE WriteKey(p) \/ WritePhone(p)
  <2>1. Continues([me EXCEPT !.item = NoKey], me)
    BY <1>0 DEF Continues, Shaped
  <2> QED BY <1>0, <1>9, <1>f, <1>j, <2>1 DEF WriteKey, WritePhone
<1>10. CASE Reread(p)
  BY <1>0, <1>10 DEF Reread, Continues, Shaped
<1>11. CASE ReadAnchor(p)
  <2>1. PICK a :
          \/ Becomes(p, Failed(me))
          \/ Becomes(p, Goto([me EXCEPT !.seen = {}], "answer", {}))
          \/ Becomes(p, [[me EXCEPT !.seen = {}] EXCEPT !.pc = "anchor", !.item = a])
    BY <1>11 DEF ReadAnchor
  <2> DEFINE s == [me EXCEPT !.seen = {}]
  <2>2. Continues(s, me) /\ Shaped(s)
    BY <1>0 DEF Continues, Shaped
  <2> HIDE DEF s
  <2>3. Continues(Goto(s, "answer", {}), me) /\ Continues([s EXCEPT !.pc = "anchor", !.item = a], me)
    BY <2>2, JumpsContinue DEF Continues, Shaped
  <2> QED BY <1>0, <1>f, <2>1, <2>3 DEF s
<1>12. CASE SetAnchor(p)
  BY <1>0, <1>12 DEF SetAnchor, Continues, Shaped
<1>13. CASE Answer(p)
  BY <1>0, <1>13, <1>f DEF Answer, Continues, Shaped, AtRest
<1> QED BY <1>1, <1>2, <1>3, <1>4, <1>5, <1>6, <1>7, <1>8, <1>9, <1>10, <1>11, <1>12, <1>13
        DEF Step

-----------------------------------------------------------------------------
\* A nonempty set of numbers has a least one.
LEMMA Least ==
  ASSUME NEW S \in SUBSET Nat, S # {}
  PROVE  \E m \in S : \A i \in S : m <= i
<1>1. PICK R : R = OpToRel(<, Nat)
  OBVIOUS
<1>2. IsWellFoundedOn(R, Nat)
  BY <1>1, NatLessThanWellFounded
<1>3. PICK m \in S : \A i \in S : ~ (<<i, m>> \in R)
  BY <1>2, WFMin, Zenon
<1>4. \A i \in S : i < m => <<i, m>> \in R
  BY <1>1 DEF OpToRel
<1>5. \A i \in S : ~ (i < m)
  BY <1>3, <1>4
<1>6. m \in Nat /\ \A i \in S : i \in Nat
  OBVIOUS
<1> QED BY <1>5, <1>6

\* Of some keys one is the first by rank and, among those of its rank, by any numbering.
LEMMA FirstKey ==
  ASSUME NEW S \in SUBSET StrongKeys, S # {}, NEW f \in [StrongKeys -> Nat]
  PROVE  \E g \in S : \A k \in S : Rank[g] < Rank[k] \/ (Rank[g] = Rank[k] /\ f[g] <= f[k])
<1>1. \A k \in S : Rank[k] \in Nat /\ f[k] \in Nat
  BY KeysAssumption
<1> DEFINE ranks == {Rank[k] : k \in S}
<1>2. ranks \in SUBSET Nat /\ ranks # {}
  BY <1>1
<1>3. PICK m \in ranks : \A i \in ranks : m <= i
  BY <1>2, Least
<1> DEFINE best == {k \in S : Rank[k] = m}
           numbers == {f[k] : k \in best}
<1>4. numbers \in SUBSET Nat /\ numbers # {}
  BY <1>1
<1>5. PICK n \in numbers : \A i \in numbers : n <= i
  BY <1>4, Least
<1>6. PICK g \in best : f[g] = n
  OBVIOUS
<1>7. \A k \in S : m <= Rank[k] /\ (Rank[k] = m => f[g] <= f[k])
  BY <1>3, <1>5, <1>6
<1>8. m \in Nat /\ Rank[g] = m
  BY <1>2, <1>6
<1> QED BY <1>1, <1>6, <1>7, <1>8

\* A record has a key that decides.
LEMMA GoalExists ==
  ASSUME HashInjective, NEW K \in SUBSET StrongKeys, NEW r \in AnyRecord, r.ids # {}
  PROVE  \E g \in r.ids : Goal(K, r, g)
<1>1. r.ids \subseteq StrongKeys
  BY DEF AnyRecord
<1>2. CASE Core(K, r) = {}
  <2> DEFINE S == IF r.ids \cap Identity # {} THEN r.ids \cap Identity ELSE r.ids
  <2>1. S \in SUBSET StrongKeys /\ S # {} /\ S \subseteq r.ids
    BY <1>1
  <2>2. Pos \in [StrongKeys -> Nat] /\ \A j, k \in StrongKeys : Pos[j] = Pos[k] => j = k
    BY KeysAssumption
  <2> HIDE DEF S
  <2>3. PICK g \in S : \A k \in S : Rank[g] < Rank[k] \/ (Rank[g] = Rank[k] /\ Pos[g] <= Pos[k])
    BY <2>1, <2>2, FirstKey
  <2>4. \A k \in S : Pos[k] \in Nat
    BY <2>1, <2>2
  <2>5. \A k \in S \ {g} : Pos[k] # Pos[g]
    BY <2>1, <2>2
  <2>6. IsStrongest(g, S)
    BY <2>3, <2>4, <2>5 DEF IsStrongest, Stronger
  <2> QED BY <1>2, <2>1, <2>6 DEF Goal, IsEntityAnchor, S
<1>3. CASE Core(K, r) # {}
  <2>1. Core(K, r) \in SUBSET StrongKeys /\ Core(K, r) \subseteq r.ids
    BY <1>1 DEF Core
  <2>2. Hash \in [StrongKeys -> Nat] /\ \A j, k \in StrongKeys : Hash[j] = Hash[k] => j = k
    BY KeysAssumption DEF HashInjective
  <2>3. PICK g \in Core(K, r) : \A k \in Core(K, r) :
          Rank[g] < Rank[k] \/ (Rank[g] = Rank[k] /\ Hash[g] <= Hash[k])
    BY <1>3, <2>1, <2>2, FirstKey
  <2>4. \A k \in Core(K, r) : Hash[k] \in Nat
    BY <2>1, <2>2
  <2>5. \A k \in Core(K, r) \ {g} : Hash[k] # Hash[g]
    BY <2>1, <2>2
  <2>6. \A k \in Core(K, r) \ {g} : Before(g, k)
    BY <2>3, <2>4, <2>5 DEF Before
  <2> QED BY <1>3, <2>1, <2>6 DEF Goal
<1> QED BY <1>2, <1>3

\* It decides about the tables of keys that were resolved each on its own.
LEMMA ResolvedAims ==
  ASSUME HashInjective, TypeOK, NEW K \in SUBSET StrongKeys, Resolved(K),
         NEW r \in AnyRecord, r.ids # {}
  PROVE  \E g \in r.ids : Aim(K, r, g)
<1>1. PICK g \in r.ids : Goal(K, r, g)
  BY GoalExists
<1>2. \A k \in K : k \in StrongKeys /\ CidOf(k) \in Cids
  BY CidOfType
<1>3. \A k \in K : anchor[CidOf(k)] = k
  <2> SUFFICES ASSUME NEW k \in K PROVE anchor[CidOf(k)] = k
    OBVIOUS
  <2>1. anchor[CidOf(k)] \in K /\ CidOf(anchor[CidOf(k)]) = CidOf(k)
    BY <1>2 DEF Resolved
  <2> QED BY <1>2, <2>1, CidsApart
<1>4. r.ids \subseteq StrongKeys /\ g \in StrongKeys /\ Rank[g] \in Nat
  BY KeysAssumption DEF AnyRecord
<1>5. \A k \in StrongKeys : owner[k] = IF k \in K THEN CidOf(k) ELSE NoCid
  BY DEF Resolved
<1>6. Core(K, r) # {} => g \in K
  BY <1>1 DEF Goal, Core
<1>7. TablesAimed(K, r, g)
  BY <1>3, <1>4, <1>5, <1>6 DEF TablesAimed
<1> QED BY <1>1, <1>7 DEF Aim

\* A request that begins has the goal before it.
LEMMA BeginKeepsAim ==
  ASSUME NEW p, NEW K, NEW r, NEW g, Aim(K, r, g), Begin(p, r)
  PROVE  Keeps(p, K, r, g)
<1> DEFINE s == AtRest("idle", r, NoCid)
           t == Goto(s, "find", r.ids)
<1>1. r \in AnyRecord /\ g \in r.ids /\ r.ids \subseteq StrongKeys
  BY AimTypes DEF Aim
<1>2. Becomes(p, t) /\ UNCHANGED <<owner, anchor>>
  BY <1>1, BeginLocals DEF vars
<1>3. /\ s \in Locals /\ s.rec = r /\ s.target = NoCid /\ s.idHits = {} /\ s.afHits = {}
  BY <1>1, AtRestOK DEF LocalOK, AtRest
<1> HIDE DEF s
<1>4. /\ t.pc = "find" /\ t.rec = r /\ t.todo = r.ids /\ t.target = NoCid
      /\ t.idHits = {} /\ t.afHits = {}
  BY <1>1, <1>3, GotoFields DEF Places
<1> HIDE DEF t
<1>5. LocalsAimed(K, r, g, t)
  BY <1>1, <1>4 DEF LocalsAimed, HitsAimed, FindAimed, HasTarget
<1> QED BY <1>2, <1>5, ReadsAim DEF Keeps

\* One request moves: the aim is kept if it keeps it, and found if it is the first.
LEMMA MoveKeepsAnswers ==
  ASSUME LocalsInv, AnswerInv, NEW p \in Requests, NEW r,
         req'[p].pc # "idle", req'[p].rec = r, req[p].pc = "idle" \/ req[p].rec = r,
         \A other \in Requests \ {p} : req'[other] = req[other],
         \A K, g : Aim(K, r, g) /\ (req[p].pc # "idle" => LocalsAimed(K, r, g, req[p]))
                   => Keeps(p, K, r, g),
         ~ Begun => \E K \in SUBSET StrongKeys, g \in r.ids : Aim(K, r, g)
  PROVE  AnswerInv'
<1>1. Begun'
  BY DEF Begun
<1>2. \A t : Becomes(p, t) => req'[p] = t
  BY DEF LocalsInv, Becomes
<1> DEFINE Aims(K, g) ==
             /\ Aim(K, r, g)
             /\ \A q \in Requests : req[q].pc # "idle" => LocalsAimed(K, r, g, req[q])
<1>3. ASSUME r \in AnyRecord, Alike(r)
      PROVE  (\E K \in SUBSET StrongKeys, g \in r.ids : Aims(K, g))'
  <2>1. PICK K \in SUBSET StrongKeys, g \in r.ids : Aims(K, g)
    <3>1. CASE Begun
      BY <1>3, <3>1 DEF AnswerInv
    <3>2. CASE ~ Begun
      BY <3>2 DEF Begun
    <3> QED BY <3>1, <3>2
  <2>2. Keeps(p, K, r, g)
    BY <2>1
  <2>3. LocalsAimed(K, r, g, req'[p]) /\ Aim(K, r, g)'
    BY <1>2, <2>2 DEF Keeps
  <2>4. \A q \in Requests : req'[q].pc # "idle" => LocalsAimed(K, r, g, req'[q])
    BY <2>1, <2>3
  <2> QED BY <2>3, <2>4
<1>4. ASSUME NEW r1 \in AnyRecord, Alike(r1)'
      PROVE  r1 = r /\ Alike(r)
  BY <1>4 DEF Alike
<1> QED BY <1>1, <1>3, <1>4 DEF AnswerInv

\* So every step keeps what the requests aim at.
LEMMA RaceKeepsAnswers ==
  ASSUME HashInjective, RowsInv, LocalsInv, AnswerInv, [RaceNext]_<<allVars, repeated>>
  PROVE  AnswerInv'
<1>1. ASSUME NEW p \in Requests, NEW r \in AnyRecord, Begin(p, r),
             req[p].pc = "idle" \/ (Begun /\ req[p].rec = r)
      PROVE  AnswerInv'
  <2> DEFINE s == AtRest("idle", r, NoCid)
             t == Goto(s, "find", r.ids)
  <2>1. Becomes(p, t) /\ r.ids # {}
    BY <1>1, BeginLocals DEF Begin, Refused
  <2>2. r.ids \subseteq StrongKeys
    BY DEF AnyRecord
  <2>3. s \in Locals /\ s.rec = r
    BY AtRestOK DEF LocalOK, AtRest
  <2> HIDE DEF s
  <2>4. t.pc = "find" /\ t.rec = r
    BY <2>2, <2>3, GotoFields DEF Places
  <2> HIDE DEF t
  <2>5. req'[p] = t /\ \A other \in Requests \ {p} : req'[other] = req[other]
    BY <2>1, OthersRest
  <2>6. ~ Begun => \E K \in SUBSET StrongKeys, g \in r.ids : Aim(K, r, g)
    <3> SUFFICES ASSUME ~ Begun PROVE \E K \in SUBSET StrongKeys, g \in r.ids : Aim(K, r, g)
      OBVIOUS
    <3>1. PICK K \in SUBSET StrongKeys : Resolved(K)
      BY DEF AnswerInv
    <3>2. \E g \in r.ids : Aim(K, r, g)
      BY <2>1, <3>1, ResolvedAims DEF RowsInv
    <3> QED BY <3>2
  <2>7. \A K, g : Aim(K, r, g) => Keeps(p, K, r, g)
    BY <1>1, BeginKeepsAim
  <2> QED BY <1>1, <2>4, <2>5, <2>6, <2>7, MoveKeepsAnswers
<1>2. CASE \E p \in Requests : First(p)
  BY <1>1, <1>2, RecordsAssumption DEF First, AnyRecord
<1>3. CASE \E p \in Requests : Repeat(p)
  <2>1. PICK p \in Requests : Repeat(p)
    BY <1>3
  <2>2. req[p].rec \in AnyRecord /\ Begun /\ Begin(p, req[p].rec)
    BY <2>1 DEF Repeat, Ended, Begun, LocalsInv, Locals
  <2> QED BY <1>1, <2>2
<1>4. ASSUME NEW p \in Requests, Step(p)
      PROVE  AnswerInv'
  <2>1. PICK r : r = req[p].rec
    OBVIOUS
  <2>2. /\ req'[p].rec = r /\ req'[p].pc # "idle" /\ req[p].pc # "idle" /\ Begun
        /\ LocalOK(req[p])
    BY <1>4, <2>1, StepContinues, StepRuns DEF Continues, Running, Begun, LocalsInv
  <2>3. \A other \in Requests \ {p} : req'[other] = req[other]
    <3>1. PICK t : Becomes(p, t)
      BY <1>4, <2>2, StepLocals DEF RowsInv
    <3> QED BY <3>1, OthersRest
  <2>4. \A K, g : Aim(K, r, g) /\ LocalsAimed(K, r, g, req[p]) => Keeps(p, K, r, g)
    BY <1>4, <2>2, StepKeepsAim DEF Aimed
  <2> QED BY <2>1, <2>2, <2>3, <2>4, MoveKeepsAnswers
<1>5. CASE UNCHANGED <<allVars, repeated>>
  <2>1. UNCHANGED <<owner, anchor, asserted, req>>
    BY <1>5 DEF allVars, vars
  <2> QED BY <2>1 DEF AnswerInv, Begun, Alike, Resolved, Aim, TablesAimed, Live
<1> QED BY <1>2, <1>3, <1>4, <1>5 DEF RaceNext

\* Before the first request nobody has an aim.
LEMMA RaceStartsAnswers == RaceInit => AnswerInv
BY DEF RaceInit, AnswerInv, Begun, AtRest

\* Requests that aim at one entity answer with it.
LEMMA AimedAnswerAlike ==
  ASSUME LocalsInv, AnswerInv, NEW j \in Requests, NEW k \in Requests,
         req[j].pc = "done", req[k].pc = "done", Alike(req[j].rec)
  PROVE  req[j].target = req[k].target
<1>1. req[j].rec \in AnyRecord /\ Begun
  BY DEF LocalsInv, Locals, Begun
<1>2. PICK K \in SUBSET StrongKeys, g \in req[j].rec.ids :
        \A p \in Requests : req[p].pc # "idle" => LocalsAimed(K, req[j].rec, g, req[p])
  BY <1>1 DEF AnswerInv
<1>3. req[j].target = CidOf(g) /\ req[k].target = CidOf(g)
  BY <1>2 DEF LocalsAimed
<1> QED BY <1>3

\* However the statements of any number of requests with one record interleave, and
\* repeated afterwards, over keys that were resolved before in any way, those that are
\* answered have one answer (mint_entity and pick_winner over d1.rs).
THEOREM OneRecordOneAnswer ==
  HashInjective =>
    (RaceSpec => []((\E r \in AnyRecord : Alike(r)) => SameRecordSameAnswer))
<1> SUFFICES ASSUME HashInjective
             PROVE  RaceSpec => []((\E r \in AnyRecord : Alike(r)) => SameRecordSameAnswer)
  OBVIOUS
<1>1. RaceSpec => [](RowsInv /\ LocalsInv)
  BY RaceRows
<1>2. RaceInit => AnswerInv
  BY RaceStartsAnswers
<1>3. /\ (RowsInv /\ LocalsInv) /\ (RowsInv /\ LocalsInv)' /\ AnswerInv
      /\ [RaceNext]_<<allVars, repeated>>
      => AnswerInv'
  BY RaceKeepsAnswers
<1>4. (RowsInv /\ LocalsInv) /\ AnswerInv
        => ((\E r \in AnyRecord : Alike(r)) => SameRecordSameAnswer)
  <2> SUFFICES ASSUME LocalsInv, AnswerInv, NEW r \in AnyRecord, Alike(r),
                      NEW j \in Requests, NEW k \in Requests,
                      req[j].pc = "done", req[k].pc = "done"
               PROVE  req[j].target = req[k].target
    BY DEF SameRecordSameAnswer
  <2>1. req[j].rec = r
    BY DEF Alike
  <2> QED BY <2>1, AimedAnswerAlike
<1> QED BY <1>1, <1>2, <1>3, <1>4, PTL DEF RaceSpec

\* Of two requests, whatever their records, those with one record that are both answered
\* have one answer, wherever their statements come between each other's.
THEOREM TwoRequestsAgree ==
  HashInjective /\ (\A i, j, k \in Requests : i = j \/ j = k \/ i = k)
    => (RaceSpec => []SameRecordSameAnswer)
<1> SUFFICES ASSUME HashInjective, \A i, j, k \in Requests : i = j \/ j = k \/ i = k
             PROVE  RaceSpec => []SameRecordSameAnswer
  OBVIOUS
<1>1. RaceSpec => []((\E r \in AnyRecord : Alike(r)) => SameRecordSameAnswer)
  BY OneRecordOneAnswer
<1>2. RaceSpec => [](RowsInv /\ LocalsInv)
  BY RaceRows
<1>3. /\ RowsInv /\ LocalsInv
      /\ (\E r \in AnyRecord : Alike(r)) => SameRecordSameAnswer
      => SameRecordSameAnswer
  <2> SUFFICES ASSUME LocalsInv, (\E r \in AnyRecord : Alike(r)) => SameRecordSameAnswer,
                      NEW j \in Requests, NEW k \in Requests,
                      req[j].pc = "done", req[k].pc = "done", req[j].rec = req[k].rec
               PROVE  req[j].target = req[k].target
    BY DEF SameRecordSameAnswer
  <2>1. CASE j = k
    BY <2>1
  <2>2. CASE j # k
    <3>1. \A p \in Requests : p = j \/ p = k
      BY <2>2
    <3>2. req[j].rec \in AnyRecord /\ Alike(req[j].rec)
      BY <3>1 DEF Alike, LocalsInv, Locals
    <3> QED BY <3>2 DEF SameRecordSameAnswer
  <2> QED BY <2>1, <2>2
<1> QED BY <1>1, <1>2, <1>3, PTL

-----------------------------------------------------------------------------
(***************************************************************************)
(* Requests repeated after the race, one after the other: what a request   *)
(* that is left alone finds and leaves, whatever the race left.            *)
(***************************************************************************)

\* The identity keys of a record that have an owner.
OwnedKeys(r) == r.ids \cap Identity \cap Known

\* The places after the loop that attaches the keys.
AllAttached == {"phones", "dial", "reread", "current", "anchor", "answer", "done"}

\* What a request knows while nobody else writes: the entities it has found are there,
\* and the owners of its identity keys are among them, then united, then the target.
Alone(s) ==
  /\ s.pc = "find" =>
       s.target = NoCid /\ \A k \in OwnedKeys(s.rec) \ s.todo : owner[k] \in s.idHits
  /\ s.pc \in {"find", "rank", "adopt"} => \A c \in s.idHits \cup s.afHits : Live(c)
  /\ s.pc \in {"rank", "adopt"} => \A c \in s.todo : Live(c)
  /\ s.pc = "rank" =>
       /\ s.target = NoCid \/ Live(s.target)
       /\ \A k \in OwnedKeys(s.rec) : owner[k] \in s.idHits
  /\ s.pc \in {"adopt", "mint"} => OwnedKeys(s.rec) = {}
  /\ s.pc \in HasTarget => Live(s.target)
  /\ s.pc = "unite" => \A k \in OwnedKeys(s.rec) : owner[k] \in s.todo \cup {s.target}
  /\ s.pc \in (HasTarget \cup {"done"}) \ {"unite"} =>
       \A k \in OwnedKeys(s.rec) : owner[k] = s.target
  /\ s.pc = "attach" => (s.rec.ids \cap Identity) \ s.todo \subseteq Known
  /\ s.pc = "write" => (s.rec.ids \cap Identity) \ (s.todo \cup {s.item}) \subseteq Known
  /\ s.pc \in AllAttached => s.rec.ids \cap Identity \subseteq Known
  /\ s.pc \notin {"failed", "crashed"}

\* The keys S are on one entity.
Together(S) == S \subseteq Known /\ \A j, k \in S : owner[j] = owner[k]

\* A request is answered, and its identity keys are together.
Mended(s) == s.pc = "done" /\ Together(s.rec.ids \cap Identity)

\* Evidence is of a key that was resolved, or of a request.
Covered ==
  \A S \in asserted :
    /\ S \in SUBSET Identity /\ S # {}
    /\ \/ \E k \in Known : S = {k}
       \/ \E p \in Requests : req[p].pc # "idle" /\ S = req[p].rec.ids \cap Identity

\* After the race all have a record, and one at a time repeats its request.
Repeating ==
  /\ \A p \in Requests : req[p].pc # "idle"
  /\ \A p, q \in Requests : Running(p) /\ Running(q) => p = q
  /\ \A p \in Requests : Running(p) => p \in repeated
  /\ \A p \in Requests, s \in Locals : Running(p) /\ req[p] = s => Alone(s)
  /\ \A p \in repeated \cap Requests, s \in Locals :
       ~ Running(p) /\ req[p] = s => Mended(s)

MendInv == Covered /\ (repeated # {} => Repeating)

\* What the tables say of a record's keys, and of where a request is, in the next state.
LEMMA AloneFrozen ==
  ASSUME UNCHANGED <<owner, anchor>>, NEW t, Alone(t)
  PROVE  Alone(t)'
<1>1. /\ Known' = Known /\ \A c : Live(c)' <=> Live(c)
      /\ OwnedKeys(t.rec)' = OwnedKeys(t.rec)
  BY DEF Known, Live, OwnedKeys
<1> QED BY <1>1 DEF Alone

\* The jump after the lookups,
LEMMA FoundAlone ==
  ASSUME NEW s \in Locals, s.pc = "find", Alone(s)
  PROVE  Alone(Found(s))
<1>1. /\ s.target = NoCid
      /\ \A k \in OwnedKeys(s.rec) \ s.todo : owner[k] \in s.idHits
      /\ \A c \in s.idHits \cup s.afHits : Live(c)
      /\ s.idHits \in SUBSET (StrongKeys \cup Phones \cup Cids)
      /\ s.afHits \in SUBSET (StrongKeys \cup Phones \cup Cids)
      /\ {} \in SUBSET (StrongKeys \cup Phones \cup Cids)
  BY DEF Alone, Locals
<1>2. ASSUME NEW pc \in {"rank", "adopt", "mint"},
             NEW C \in SUBSET (StrongKeys \cup Phones \cup Cids),
             C \subseteq s.idHits \cup s.afHits, s.todo = {},
             pc \in {"adopt", "mint"} => s.idHits = {}
      PROVE  Alone(Goto(s, pc, C))
  <2> DEFINE t == Goto(s, pc, C)
  <2>1. /\ t.pc = pc /\ t.todo = C /\ t.rec = s.rec /\ t.target = NoCid
        /\ t.idHits = s.idHits /\ t.afHits = s.afHits
    BY <1>1, GotoFields DEF Places
  <2> HIDE DEF t
  <2>2. \A k \in OwnedKeys(s.rec) : owner[k] \in s.idHits
    BY <1>1, <1>2
  <2>3. pc \in {"adopt", "mint"} => OwnedKeys(s.rec) = {}
    BY <1>2, <2>2
  <2>4. Alone(t)
    BY <1>1, <1>2, <2>1, <2>2, <2>3 DEF Alone, HasTarget, AllAttached
  <2> QED BY <2>4 DEF t
<1>3. CASE s.todo # {}
  BY <1>3 DEF Found
<1>4. CASE s.todo = {}
  <2>1. Alone(Goto(s, "rank", s.idHits)) /\ Alone(Goto(s, "rank", s.afHits))
    BY <1>1, <1>2, <1>4
  <2>2. s.idHits = {} => Alone(Goto(s, "mint", {})) /\ Alone(Goto(s, "adopt", s.afHits))
    BY <1>1, <1>2, <1>4
  <2> QED BY <1>4, <2>1, <2>2 DEF Found
<1> QED BY <1>3, <1>4

\* the jump after the ranks,
LEMMA RankedAlone ==
  ASSUME NEW s \in Locals, s.pc = "rank", Alone(s), s.target \in Cids, Live(s.target)
  PROVE  Alone(Ranked(s))
<1>1. CASE s.todo # {}
  BY <1>1 DEF Ranked
<1>2. CASE s.todo = {}
  <2> DEFINE u == [s EXCEPT !.best = 0]
             others == s.idHits \ {s.target}
             t == Goto(u, IF others = {} THEN "members" ELSE "unite", others)
  <2>1. u \in Locals /\ u.rec = s.rec /\ u.target = s.target
    BY DEF Locals
  <2>2. others \in SUBSET (StrongKeys \cup Phones \cup Cids)
    BY DEF Locals
  <2>3. /\ t.pc = IF others = {} THEN "members" ELSE "unite"
        /\ t.rec = s.rec /\ t.todo = others /\ t.target = s.target
    <3> HIDE DEF u, others
    <3> QED BY <2>1, <2>2, GotoFields DEF Places, HasTarget
  <2>4. Ranked(s) = t
    BY <1>2 DEF Ranked
  <2> HIDE DEF t
  <2>5. \A k \in OwnedKeys(s.rec) : owner[k] \in others \cup {s.target}
    BY DEF Alone
  <2> HIDE DEF others, u
  <2>6. Alone(t)
    BY <2>3, <2>5 DEF Alone, HasTarget, AllAttached
  <2> QED BY <2>4, <2>6
<1> QED BY <1>1, <1>2

\* the jump into the loop over the domains' owners,
LEMMA LoopedAlone ==
  ASSUME NEW s \in Locals, s.todo \subseteq Cids, Live(s.target),
         \A k \in OwnedKeys(s.rec) : owner[k] = s.target
  PROVE  Alone(Looped(s))
<1> DEFINE t == Looped(s)
<1>1. /\ t.rec = s.rec /\ t.target = s.target
      /\ t.pc = "compare" \/ (t.pc = "attach" /\ t.todo = s.rec.ids)
  BY LoopedFields
<1> HIDE DEF t
<1>2. Alone(t)
  BY <1>1 DEF Alone, HasTarget, AllAttached
<1> QED BY <1>2 DEF t

\* and the jump of the loop over the keys.
LEMMA AttachedAlone ==
  ASSUME NEW s \in Locals, s.todo \subseteq s.rec.ids, Live(s.target),
         \A k \in OwnedKeys(s.rec) : owner[k] = s.target,
         (s.rec.ids \cap Identity) \ s.todo \subseteq Known
  PROVE  Alone(Attached(s))
<1> DEFINE t == Attached(s)
<1>1. /\ t.rec = s.rec /\ t.target = s.target
      /\ \/ t.pc = "attach" /\ t.todo = s.todo
         \/ s.todo = {} /\ t.pc \in {"phones", "reread"}
  BY AttachedFields
<1> HIDE DEF t
<1>2. s.todo = {} => s.rec.ids \cap Identity \subseteq Known
  OBVIOUS
<1>3. Alone(t)
  BY <1>1, <1>2 DEF Alone, HasTarget, AllAttached
<1> QED BY <1>3 DEF t

-----------------------------------------------------------------------------
\* Where a statement takes a request that is alone.
StaysAlone(p) == \E t : Becomes(p, t) /\ Alone(t)'

\* A request that is alone, in tables that are in order.
Left(s) == RowsInv /\ LocalOK(s) /\ Alone(s)

\* Looking up a key,
LEMMA FindAlone ==
  ASSUME NEW p, NEW me, me = req[p], Left(me), Find(p)
  PROVE  StaysAlone(p)
<1>1. PICK k \in me.todo :
        LET s == Without(me, k) IN
        Becomes(p, Found(IF k \in Identity
          THEN [s EXCEPT !.idHits = @ \cup Hits({k})]
          ELSE [s EXCEPT !.afHits = @ \cup Hits({k})]))
  BY DEF Find
<1> DEFINE s == Without(me, k)
           t == IF k \in Identity THEN [s EXCEPT !.idHits = @ \cup Hits({k})]
                ELSE [s EXCEPT !.afHits = @ \cup Hits({k})]
<1>2. /\ LocalOK(me) /\ me.pc = "find" /\ Alone(me) /\ RowsInv
  BY DEF Find, Left
<1>3. LocalOK(s) /\ s.pc = "find" /\ s.rec = me.rec /\ s.todo = me.todo \ {k}
        /\ s.target = me.target /\ s.idHits = me.idHits /\ s.afHits = me.afHits
  BY <1>2, WithoutOK
<1>4. /\ Hits({k}) \subseteq Cids /\ \A c \in Hits({k}) : Live(c)
      /\ k \in Known => owner[k] \in Hits({k})
  BY <1>2, HitsType DEF RowsInv, Hits, Known, NoDanglingRow
<1> HIDE DEF s
<1>5. /\ t \in Locals /\ t.pc = "find" /\ t.rec = me.rec /\ t.todo = me.todo \ {k}
      /\ t.target = me.target
      /\ t.idHits = IF k \in Identity THEN me.idHits \cup Hits({k}) ELSE me.idHits
      /\ t.afHits = IF k \in Identity THEN me.afHits ELSE me.afHits \cup Hits({k})
  BY <1>3, <1>4 DEF LocalOK, Locals
<1> HIDE DEF t
<1>6. \A j \in OwnedKeys(t.rec) \ t.todo : owner[j] \in t.idHits
  <2> SUFFICES ASSUME NEW j \in OwnedKeys(t.rec) \ t.todo PROVE owner[j] \in t.idHits
    OBVIOUS
  <2>1. CASE j = k
    BY <1>4, <1>5, <2>1 DEF OwnedKeys
  <2>2. CASE j # k
    BY <1>2, <1>5, <2>2 DEF Alone
  <2> QED BY <2>1, <2>2
<1>7. t.target = NoCid /\ \A c \in t.idHits \cup t.afHits : Live(c)
  BY <1>2, <1>4, <1>5 DEF Alone
<1>8. Alone(t)
  BY <1>5, <1>6, <1>7 DEF Alone, HasTarget, AllAttached
<1>9. Alone(Found(t))
  BY <1>5, <1>8, FoundAlone
<1>10. UNCHANGED <<owner, anchor>>
  BY DEF Find, vars
<1> QED BY <1>1, <1>9, <1>10, AloneFrozen DEF StaysAlone, t, s

\* and reading a rank: nobody vanishes.
LEMMA ReadRankAlone ==
  ASSUME NEW p, NEW me, me = req[p], Left(me), ReadRank(p)
  PROVE  StaysAlone(p)
<1>1. /\ LocalOK(me) /\ me \in Locals /\ me.pc = "rank" /\ Alone(me) /\ TypeOK
      /\ me.todo \subseteq Cids
  BY DEF ReadRank, Left, LocalOK, RowsInv
<1>2. PICK c \in me.todo :
        LET s == Without(me, c)
            rk == Rank[anchor[c]]
            wins == s.target = NoCid \/ rk < s.best
                      \/ (rk = s.best /\ CidBefore(c, s.target))
        IN  IF ~ Live(c) THEN Becomes(p, Failed(me))
            ELSE Becomes(p, Ranked(IF wins THEN [s EXCEPT !.target = c, !.best = rk] ELSE s))
  BY <1>1 DEF ReadRank
<1>3. Live(c) /\ c \in Cids
  BY <1>1 DEF Alone
<1> DEFINE s == Without(me, c)
           rk == Rank[anchor[c]]
           wins == s.target = NoCid \/ rk < s.best \/ (rk = s.best /\ CidBefore(c, s.target))
           t == IF wins THEN [s EXCEPT !.target = c, !.best = rk] ELSE s
<1>4. /\ s \in Locals /\ s.pc = "rank" /\ s.rec = me.rec /\ s.todo = me.todo \ {c}
      /\ s.target = me.target /\ s.idHits = me.idHits /\ s.afHits = me.afHits
  BY <1>1, WithoutOK DEF LocalOK
<1>5. rk \in Nat /\ NoCid \notin Cids
  BY <1>1, <1>3, KeysAssumption DEF TypeOK, Live
<1>6. Becomes(p, Ranked(t)) /\ (~ wins => me.target # NoCid)
  BY <1>2, <1>3, <1>4
<1> HIDE DEF s
<1>7. /\ t \in Locals /\ t.pc = "rank" /\ t.rec = me.rec /\ t.todo = me.todo \ {c}
      /\ t.target = IF wins THEN c ELSE me.target
      /\ t.idHits = me.idHits /\ t.afHits = me.afHits
  <2> HIDE DEF wins, rk
  <2> QED BY <1>3, <1>4, <1>5 DEF Locals
<1> HIDE DEF t, wins
<1>8. t.target \in Cids /\ Live(t.target)
  BY <1>1, <1>3, <1>6, <1>7 DEF Alone, Locals
<1>9. Alone(t)
  BY <1>1, <1>7, <1>8 DEF Alone, HasTarget, AllAttached
<1>10. Alone(Ranked(t))
  BY <1>7, <1>8, <1>9, RankedAlone
<1>11. UNCHANGED <<owner, anchor>>
  BY DEF ReadRank, vars
<1> QED BY <1>6, <1>10, <1>11, AloneFrozen DEF StaysAlone

\* The batch of merge_into with a winner that is there.
LEMMA MergeAlone ==
  ASSUME RowsInv, NEW p, NEW w \in Cids, Live(w), NEW l \in Cids \ {w}, NEW next,
         MergeInto(p, w, l, next)
  PROVE  /\ Becomes(p, next)
         /\ \A k \in StrongKeys : owner'[k] = IF owner[k] = l THEN w ELSE owner[k]
         /\ Live(w)' /\ Known' = Known
<1>1. /\ Becomes(p, next) /\ owner' = Repointed(owner, {l}, w)
      /\ anchor' = [anchor EXCEPT ![l] = NoKey]
  BY DEF MergeInto
<1>2. \A k \in StrongKeys : owner'[k] = IF owner[k] = l THEN w ELSE owner[k]
  BY <1>1 DEF Repointed, RowsInv, TypeOK
<1>3. Known' = Known
  BY <1>2, KeysAssumption DEF Known
<1>4. Live(w)'
  BY <1>1 DEF RowsInv, TypeOK, Live
<1> QED BY <1>1, <1>2, <1>3, <1>4

\* Merging another owner of an identity key,
LEMMA UniteAlone ==
  ASSUME NEW p, NEW me, me = req[p], Left(me), Unite(p)
  PROVE  StaysAlone(p)
<1> DEFINE w == me.target
<1>1. /\ LocalOK(me) /\ me \in Locals /\ me.pc = "unite" /\ Alone(me) /\ RowsInv
      /\ me.todo \subseteq Cids \ {w} /\ w \in Cids /\ Live(w)
      /\ \A k \in OwnedKeys(me.rec) : owner[k] \in me.todo \cup {w}
  BY DEF Unite, Left, LocalOK, Alone, HasTarget
<1>2. PICK c \in me.todo :
        MergeInto(p, w, c, IF me.todo = {c} THEN Goto(me, "members", {}) ELSE Without(me, c))
  BY DEF Unite
<1> DEFINE t == IF me.todo = {c} THEN Goto(me, "members", {}) ELSE Without(me, c)
<1>3. /\ t.rec = me.rec /\ t.target = w
      /\ IF me.todo = {c} THEN t.pc = "members" ELSE t.pc = "unite" /\ t.todo = me.todo \ {c}
  <2>1. "members" \in Places /\ {} \in SUBSET (StrongKeys \cup Phones \cup Cids)
    BY DEF Places, HasTarget
  <2> QED BY <1>1, <2>1, GotoFields, WithoutOK
<1>4. MergeInto(p, w, c, t)
  BY <1>2
<1> HIDE DEF t
<1>5. /\ Becomes(p, t) /\ Live(w)' /\ Known' = Known
      /\ \A k \in StrongKeys : owner'[k] = IF owner[k] = c THEN w ELSE owner[k]
  BY <1>1, <1>4, MergeAlone
<1>6. OwnedKeys(me.rec)' = OwnedKeys(me.rec)
  BY <1>5 DEF OwnedKeys
<1>7. \A k \in OwnedKeys(me.rec) : owner'[k] \in (me.todo \ {c}) \cup {w}
  BY <1>1, <1>5 DEF OwnedKeys, Known
<1>8. Alone(t)'
  <2>1. t.pc \in {"unite", "members"}
    BY <1>3
  <2>2. \A k \in OwnedKeys(t.rec)' : IF t.pc = "unite" THEN owner'[k] \in t.todo \cup {w}
                                     ELSE owner'[k] = w
    BY <1>3, <1>6, <1>7
  <2> QED BY <1>3, <1>5, <2>1, <2>2 DEF Alone, HasTarget, AllAttached
<1> QED BY <1>5, <1>8 DEF StaysAlone

\* and merging an owner of a domain.
LEMMA AbsorbAlone ==
  ASSUME NEW p, NEW me, me = req[p], Left(me), Absorb(p)
  PROVE  StaysAlone(p)
<1> DEFINE w == me.target
           t == [me EXCEPT !.pc = "refresh", !.item = NoKey]
<1>1. /\ LocalOK(me) /\ me \in Locals /\ me.pc = "absorb" /\ RowsInv
      /\ me.item \in Cids \ {w} /\ w \in Cids /\ Live(w)
      /\ \A k \in OwnedKeys(me.rec) : owner[k] = w
  BY DEF Absorb, Left, LocalOK, Alone, HasTarget
<1>2. MergeInto(p, w, me.item, t)
  BY DEF Absorb
<1>3. t.rec = me.rec /\ t.target = w /\ t.pc = "refresh"
  BY <1>1 DEF Locals
<1> HIDE DEF t
<1>4. /\ Becomes(p, t) /\ Live(w)' /\ Known' = Known
      /\ \A k \in StrongKeys : owner'[k] = IF owner[k] = me.item THEN w ELSE owner[k]
  BY <1>1, <1>2, MergeAlone
<1>5. OwnedKeys(me.rec)' = OwnedKeys(me.rec)
  BY <1>4 DEF OwnedKeys
<1>6. \A k \in OwnedKeys(t.rec)' : owner'[k] = w
  BY <1>1, <1>3, <1>4, <1>5 DEF OwnedKeys, Known
<1>7. Alone(t)'
  BY <1>3, <1>4, <1>6 DEF Alone, HasTarget, AllAttached
<1> QED BY <1>4, <1>7 DEF StaysAlone

\* What a request that has united its identity keys' owners knows.
LEMMA AloneTarget ==
  ASSUME NEW s, Left(s), s.pc \in HasTarget \ {"unite"}
  PROVE  /\ RowsInv /\ LocalOK(s) /\ s \in Locals /\ s.target \in Cids /\ Live(s.target)
         /\ Alone(s) /\ \A k \in OwnedKeys(s.rec) : owner[k] = s.target
BY DEF Left, LocalOK, Alone, HasTarget

\* The loop over the domains' owners.
LEMMA LoopAlone ==
  ASSUME NEW p, NEW me, me = req[p], Left(me), ReadWinner(p) \/ Compare(p) \/ Refresh(p)
  PROVE  StaysAlone(p)
<1>1. /\ LocalOK(me) /\ me \in Locals /\ me.target \in Cids /\ Live(me.target)
      /\ \A k \in OwnedKeys(me.rec) : owner[k] = me.target
      /\ UNCHANGED <<owner, anchor>>
  BY AloneTarget DEF ReadWinner, Compare, Refresh, HasTarget, vars
<1>2. ASSUME NEW s \in Locals, s.rec = me.rec, s.target = me.target, s.todo \subseteq Cids,
             Becomes(p, Looped(s))
      PROVE  StaysAlone(p)
  <2>1. Alone(Looped(s))
    BY <1>1, <1>2, LoopedAlone
  <2> QED BY <1>1, <1>2, <2>1, AloneFrozen DEF StaysAlone
<1>3. CASE ReadWinner(p)
  <2> DEFINE s == [me EXCEPT !.seen = Members(me.target), !.todo = me.afHits \ {me.target}]
  <2>1. s \in Locals /\ s.rec = me.rec /\ s.target = me.target /\ s.todo \subseteq Cids
    BY <1>1, MembersType DEF Locals
  <2> QED BY <1>2, <1>3, <2>1 DEF ReadWinner
<1>4. CASE Refresh(p)
  <2> DEFINE s == [me EXCEPT !.seen = Members(me.target)]
  <2>1. s \in Locals /\ s.rec = me.rec /\ s.target = me.target /\ s.todo \subseteq Cids
    BY <1>1, <1>4, MembersType DEF Locals, Refresh, LocalOK
  <2> QED BY <1>2, <1>4, <2>1 DEF Refresh
<1>5. CASE Compare(p)
  <2>1. PICK c \in me.todo :
          \/ Becomes(p, Looped(Without(me, c)))
          \/ Becomes(p, [Without(me, c) EXCEPT !.pc = "absorb", !.item = c])
    BY <1>5 DEF Compare
  <2> DEFINE s == Without(me, c)
             t == [s EXCEPT !.pc = "absorb", !.item = c]
  <2>0. me.todo \subseteq Cids
    BY <1>1, <1>5 DEF Compare, LocalOK
  <2>4. LocalOK(s) /\ s.rec = me.rec /\ s.target = me.target /\ s.todo = me.todo \ {c}
    BY <1>1, WithoutOK
  <2>3. Becomes(p, Looped(s)) \/ Becomes(p, t)
    BY <2>1
  <2> HIDE DEF s
  <2>2. s \in Locals /\ s.rec = me.rec /\ s.target = me.target /\ s.todo \subseteq Cids
    BY <2>0, <2>4 DEF LocalOK
  <2>5. t.rec = me.rec /\ t.target = me.target /\ t.pc = "absorb"
    BY <2>2 DEF Locals
  <2> HIDE DEF t
  <2>6. Alone(t)
    BY <1>1, <2>5 DEF Alone, HasTarget, AllAttached
  <2> QED BY <1>1, <1>2, <2>2, <2>3, <2>6, AloneFrozen DEF StaysAlone
<1> QED BY <1>3, <1>4, <1>5

\* Nobody is adopted: whoever holds an identity key of the record was found by it.
LEMMA AdoptAlone ==
  ASSUME NEW p, NEW me, me = req[p], Left(me), Adopt(p)
  PROVE  StaysAlone(p)
<1>1. /\ LocalOK(me) /\ me \in Locals /\ me.pc = "adopt" /\ me.todo \subseteq Cids
      /\ OwnedKeys(me.rec) = {} /\ Alone(me)
  BY DEF Adopt, Left, LocalOK, Alone
<1>2. PICK c \in me.todo :
        IF IdMembers(c) \cap me.rec.ids # {} THEN TRUE
        ELSE Becomes(p, IF Without(me, c).todo = {} THEN Goto(Without(me, c), "mint", {})
                        ELSE Without(me, c))
  BY <1>1, WithoutOK DEF Adopt
<1>3. IdMembers(c) \cap me.rec.ids = {}
  <2>1. c # NoCid
    BY <1>1, KeysAssumption
  <2>2. \A k \in IdMembers(c) \cap me.rec.ids : k \in OwnedKeys(me.rec)
    BY <2>1 DEF IdMembers, Members, OwnedKeys, Known
  <2> QED BY <1>1, <2>2
<1> DEFINE s == Without(me, c)
           t == IF s.todo = {} THEN Goto(s, "mint", {}) ELSE s
<1>4. /\ s \in Locals /\ s.rec = me.rec /\ s.todo = me.todo \ {c} /\ s.pc = "adopt"
      /\ s.idHits = me.idHits /\ s.afHits = me.afHits /\ s.target = me.target
  BY <1>1, WithoutOK DEF LocalOK
<1>5. Becomes(p, t)
  BY <1>2, <1>3
<1> HIDE DEF s
<1>6. /\ t.rec = me.rec /\ t.todo \subseteq me.todo /\ t.pc \in {"mint", "adopt"}
      /\ t.idHits = me.idHits /\ t.afHits = me.afHits
  <2>1. "mint" \in Places /\ {} \in SUBSET (StrongKeys \cup Phones \cup Cids)
    BY DEF Places
  <2> QED BY <1>4, <2>1, GotoFields
<1> HIDE DEF t
<1>7. Alone(t)
  BY <1>1, <1>6 DEF Alone, HasTarget, AllAttached
<1>8. UNCHANGED <<owner, anchor>>
  BY DEF Adopt, vars
<1> QED BY <1>5, <1>7, <1>8, AloneFrozen DEF StaysAlone

\* The mint is of an entity that is there afterwards.
LEMMA MintAlone ==
  ASSUME NEW p, NEW me, me = req[p], Left(me), Mint(p)
  PROVE  StaysAlone(p)
<1>1. /\ me \in Locals /\ me.rec.ids \subseteq StrongKeys /\ OwnedKeys(me.rec) = {} /\ TypeOK
      /\ NoKey \notin StrongKeys
  BY KeysAssumption DEF Mint, Left, LocalOK, Locals, AnyRecord, Alone, RowsInv
<1>2. PICK a \in me.rec.ids :
        /\ anchor' = [anchor EXCEPT ![CidOf(a)] = IF Live(CidOf(a)) THEN @ ELSE a]
        /\ Becomes(p, Looped(Goto([me EXCEPT !.target = CidOf(a)], "mint", {})))
        /\ UNCHANGED owner
  BY DEF Mint
<1>3. a \in StrongKeys /\ CidOf(a) \in Cids
  BY <1>1, CidOfType
<1> DEFINE v == [me EXCEPT !.target = CidOf(a)]
           u == Goto(v, "mint", {})
           t == Looped(u)
<1>4. v \in Locals /\ v.rec = me.rec /\ v.target = CidOf(a)
  BY <1>1, <1>3 DEF Locals
<1>5. Becomes(p, t)
  BY <1>2
<1> HIDE DEF v
<1>6. u \in Locals /\ u.rec = me.rec /\ u.target = CidOf(a) /\ u.todo = {}
  <2>1. "mint" \in Places /\ {} \in SUBSET (StrongKeys \cup Phones \cup Cids)
    BY DEF Places
  <2> QED BY <1>4, <2>1, GotoFields
<1> HIDE DEF u
<1>7. /\ t.rec = me.rec /\ t.target = CidOf(a)
      /\ t.pc = "compare" \/ (t.pc = "attach" /\ t.todo = me.rec.ids)
  BY <1>6, LoopedFields
<1> HIDE DEF t
<1>8. Live(CidOf(a))' /\ OwnedKeys(me.rec)' = {}
  BY <1>1, <1>2, <1>3 DEF Live, TypeOK, OwnedKeys, Known
<1>9. Alone(t)'
  BY <1>7, <1>8 DEF Alone, HasTarget, AllAttached
<1> QED BY <1>5, <1>9 DEF StaysAlone

-----------------------------------------------------------------------------
\* Whether a key is attached,
LEMMA FindOwnerAlone ==
  ASSUME NEW p, NEW me, me = req[p], Left(me), FindOwner(p)
  PROVE  StaysAlone(p)
<1>1. /\ LocalOK(me) /\ me \in Locals /\ Live(me.target) /\ me.todo \subseteq me.rec.ids
      /\ me.target \in Cids /\ NoCid \notin Cids
      /\ \A k \in OwnedKeys(me.rec) : owner[k] = me.target
      /\ (me.rec.ids \cap Identity) \ me.todo \subseteq Known
      /\ me.rec.ids \subseteq StrongKeys
  BY AloneTarget, KeysAssumption
     DEF FindOwner, HasTarget, Alone, LocalOK, Locals, AnyRecord
<1>2. PICK k \in me.todo :
        LET s == Without(me, k)
            kept == owner[k] = s.target \/ (k \in Affiliation /\ k \in Known)
        IN  Becomes(p, IF kept THEN Attached(s) ELSE [s EXCEPT !.pc = "write", !.item = k])
  BY DEF FindOwner
<1> DEFINE s == Without(me, k)
           kept == owner[k] = s.target \/ (k \in Affiliation /\ k \in Known)
           t == [s EXCEPT !.pc = "write", !.item = k]
<1>3. /\ s \in Locals /\ s.rec = me.rec /\ s.target = me.target /\ s.todo = me.todo \ {k}
  BY <1>1, WithoutOK DEF LocalOK
<1>4. Becomes(p, IF kept THEN Attached(s) ELSE t)
  BY <1>2
<1>5. UNCHANGED <<owner, anchor>>
  BY DEF FindOwner, vars
<1> HIDE DEF s
<1>6. CASE kept
  <2>1. k \in Identity => k \in Known
    BY <1>1, <1>3, <1>6, KeysAssumption DEF Known
  <2>2. (s.rec.ids \cap Identity) \ s.todo \subseteq Known
    BY <1>1, <1>3, <2>1
  <2>3. Alone(Attached(s))
    BY <1>1, <1>3, <2>2, AttachedAlone
  <2> QED BY <1>4, <1>5, <1>6, <2>3, AloneFrozen DEF StaysAlone
<1>7. CASE ~ kept
  <2>1. /\ t.rec = me.rec /\ t.target = me.target /\ t.todo = me.todo \ {k}
        /\ t.pc = "write" /\ t.item = k
    BY <1>3 DEF Locals
  <2>2. Becomes(p, t)
    BY <1>4, <1>7
  <2> HIDE DEF t, kept
  <2>3. (t.rec.ids \cap Identity) \ (t.todo \cup {t.item}) \subseteq Known
    BY <1>1, <2>1
  <2>4. Alone(t)
    BY <1>1, <2>1, <2>3 DEF Alone, HasTarget, AllAttached
  <2> QED BY <1>5, <2>2, <2>4, AloneFrozen DEF StaysAlone
<1> QED BY <1>6, <1>7

\* and the write of one that is not: the target is there, and takes no identity key from
\* another entity.
LEMMA WriteKeyAlone ==
  ASSUME NEW p, NEW me, me = req[p], Left(me), WriteKey(p)
  PROVE  /\ StaysAlone(p) /\ Known' = Known \cup {me.item}
         /\ anchor' = anchor /\ me.target \in Cids
         /\ \A k \in StrongKeys : owner'[k] = IF k = me.item THEN me.target ELSE owner[k]
         /\ me.item \in OwnedKeys(me.rec) => owner[me.item] = me.target
<1>1. /\ LocalOK(me) /\ me \in Locals /\ Live(me.target) /\ me.todo \subseteq me.rec.ids
      /\ me.target \in Cids /\ NoCid \notin Cids /\ me.item \in me.rec.ids
      /\ \A k \in OwnedKeys(me.rec) : owner[k] = me.target
      /\ (me.rec.ids \cap Identity) \ (me.todo \cup {me.item}) \subseteq Known
      /\ me.rec.ids \subseteq StrongKeys /\ TypeOK
  BY AloneTarget, KeysAssumption
     DEF WriteKey, HasTarget, Alone, LocalOK, Locals, AnyRecord, RowsInv
<1> DEFINE s == [me EXCEPT !.item = NoKey]
           t == Attached(s)
<1>2. /\ Becomes(p, t) /\ owner' = [owner EXCEPT ![me.item] = me.target] /\ anchor' = anchor
  BY <1>1 DEF WriteKey
<1>3. s \in Locals /\ s.rec = me.rec /\ s.target = me.target /\ s.todo = me.todo
  BY <1>1 DEF Locals
<1> HIDE DEF s
<1>4. \A k \in StrongKeys : owner'[k] = IF k = me.item THEN me.target ELSE owner[k]
  BY <1>1, <1>2 DEF TypeOK
<1>5. Known' = Known \cup {me.item}
  BY <1>1, <1>4 DEF Known
<1>6. \A k \in OwnedKeys(me.rec)' : owner'[k] = me.target
  BY <1>1, <1>4, <1>5 DEF OwnedKeys, Known
<1>7. /\ t.rec = me.rec /\ t.target = me.target
      /\ \/ t.pc = "attach" /\ t.todo = me.todo
         \/ me.todo = {} /\ t.pc \in {"phones", "reread"}
  BY <1>1, <1>3, AttachedFields
<1> HIDE DEF t
<1>8. (me.rec.ids \cap Identity) \ me.todo \subseteq Known'
  BY <1>1, <1>5
<1>9. Live(me.target)'
  BY <1>1, <1>2 DEF Live
<1>10. Alone(t)'
  BY <1>6, <1>7, <1>8, <1>9 DEF Alone, HasTarget, AllAttached
<1> QED BY <1>1, <1>2, <1>4, <1>5, <1>10 DEF StaysAlone

\* The places after the attachments: the keys stay where they are.
LEMMA LastAlone ==
  ASSUME NEW s, NEW t, s.pc \in AllAttached, Alone(s), t.rec = s.rec,
         t.target = s.target, t.pc \in AllAttached, Live(s.target) \/ t.pc = "done"
  PROVE  Alone(t)
BY DEF Alone, HasTarget, AllAttached

\* Recording the phones, and reading what the record has become.
LEMMA ReadsLastAlone ==
  ASSUME NEW p, NEW me, me = req[p], Left(me),
         FindPhone(p) \/ WritePhone(p) \/ Reread(p) \/ ReadAnchor(p) \/ Answer(p)
  PROVE  StaysAlone(p)
<1>1. /\ LocalOK(me) /\ me \in Locals /\ me.target \in Cids /\ Live(me.target) /\ Alone(me)
      /\ me.pc \in AllAttached /\ UNCHANGED <<owner, anchor>>
  BY AloneTarget DEF FindPhone, WritePhone, Reread, ReadAnchor, Answer, HasTarget, AllAttached,
                     vars
<1>2. ASSUME NEW t, Becomes(p, t), t.rec = me.rec, t.target = me.target, t.pc \in AllAttached
      PROVE  StaysAlone(p)
  <2>1. Alone(t)
    BY <1>1, <1>2, LastAlone
  <2> QED BY <1>1, <1>2, <2>1, AloneFrozen DEF StaysAlone
<1>3. CASE FindPhone(p)
  <2>1. PICK ph \in me.todo :
          \/ Becomes(p, Phoned(Without(me, ph)))
          \/ Becomes(p, [Without(me, ph) EXCEPT !.pc = "dial", !.item = ph])
    BY <1>3 DEF FindPhone
  <2> DEFINE s == Without(me, ph)
             t == [s EXCEPT !.pc = "dial", !.item = ph]
             u == Phoned(s)
  <2>2. s \in Locals /\ s.rec = me.rec /\ s.target = me.target
    BY <1>1, WithoutOK DEF LocalOK
  <2>3. Becomes(p, u) \/ Becomes(p, t)
    BY <2>1
  <2> HIDE DEF s
  <2>4. t.rec = me.rec /\ t.target = me.target /\ t.pc = "dial"
    BY <2>2 DEF Locals
  <2>5. u.rec = me.rec /\ u.target = me.target /\ u.pc \in {"phones", "reread"}
    BY <2>2, PhonedFields
  <2> HIDE DEF t, u
  <2> QED BY <1>2, <2>3, <2>4, <2>5 DEF AllAttached
<1>4. CASE WritePhone(p)
  <2> DEFINE s == [me EXCEPT !.item = NoKey]
             u == Phoned(s)
  <2>1. Becomes(p, u)
    BY <1>1, <1>4 DEF WritePhone
  <2>2. s \in Locals /\ s.rec = me.rec /\ s.target = me.target
    BY <1>1 DEF Locals
  <2> HIDE DEF s
  <2>3. u.rec = me.rec /\ u.target = me.target /\ u.pc \in {"phones", "reread"}
    BY <2>2, PhonedFields
  <2> HIDE DEF u
  <2> QED BY <1>2, <2>1, <2>3 DEF AllAttached
<1>5. CASE Reread(p)
  <2> DEFINE t == [me EXCEPT !.pc = "current", !.seen = Members(me.target)]
  <2>1. Becomes(p, t) /\ t.rec = me.rec /\ t.target = me.target /\ t.pc = "current"
    BY <1>1, <1>5 DEF Reread, Locals
  <2> HIDE DEF t
  <2> QED BY <1>2, <2>1 DEF AllAttached
<1>6. CASE ReadAnchor(p)
  <2> DEFINE s == [me EXCEPT !.seen = {}]
             u == Goto(s, "answer", {})
  <2>0. s.target = me.target
    BY <1>1 DEF Locals
  <2>1. PICK a \in StrongKeys :
          Becomes(p, u) \/ Becomes(p, [s EXCEPT !.pc = "anchor", !.item = a])
    BY <1>1, <1>6, <2>0 DEF ReadAnchor
  <2> DEFINE t == [s EXCEPT !.pc = "anchor", !.item = a]
  <2>2. s \in Locals /\ s.rec = me.rec /\ s.target = me.target
    BY <1>1 DEF Locals
  <2> HIDE DEF s
  <2>3. "answer" \in Places /\ {} \in SUBSET (StrongKeys \cup Phones \cup Cids)
    BY DEF Places, HasTarget
  <2>4. u.rec = me.rec /\ u.target = me.target /\ u.pc = "answer"
    BY <2>2, <2>3, GotoFields
  <2>5. t.rec = me.rec /\ t.target = me.target /\ t.pc = "anchor"
    BY <2>2 DEF Locals
  <2>6. Becomes(p, u) \/ Becomes(p, t)
    BY <2>1
  <2> HIDE DEF t, u
  <2> QED BY <1>2, <2>4, <2>5, <2>6 DEF AllAttached
<1>7. CASE Answer(p)
  <2>1. Becomes(p, AtRest("done", me.rec, me.target))
    BY <1>1, <1>7 DEF Answer
  <2> QED BY <1>2, <2>1 DEF AtRest, AllAttached
<1> QED BY <1>1, <1>3, <1>4, <1>5, <1>6, <1>7

\* Sharpening the anchor.
LEMMA SetAnchorAlone ==
  ASSUME NEW p, NEW me, me = req[p], Left(me), SetAnchor(p)
  PROVE  StaysAlone(p)
<1>1. /\ me \in Locals /\ me.target \in Cids /\ Live(me.target) /\ Alone(me) /\ TypeOK
      /\ me.pc = "anchor" /\ me.item \in StrongKeys /\ NoKey \notin StrongKeys
  BY AloneTarget, KeysAssumption DEF SetAnchor, HasTarget, RowsInv, LocalOK
<1> DEFINE t == [me EXCEPT !.pc = "answer", !.item = NoKey]
<1>2. /\ Becomes(p, t) /\ owner' = owner /\ anchor' = [anchor EXCEPT ![me.target] = me.item]
  BY <1>1 DEF SetAnchor
<1>3. t.rec = me.rec /\ t.target = me.target /\ t.pc = "answer"
  BY <1>1 DEF Locals
<1> HIDE DEF t
<1>4. /\ Live(me.target)' /\ Known' = Known /\ OwnedKeys(me.rec)' = OwnedKeys(me.rec)
  BY <1>1, <1>2 DEF TypeOK, Live, Known, OwnedKeys
<1>5. /\ \A k \in OwnedKeys(me.rec) : owner[k] = me.target
      /\ me.rec.ids \cap Identity \subseteq Known
  BY <1>1 DEF Alone, HasTarget, AllAttached
<1>6. Alone(t)'
  BY <1>2, <1>3, <1>4, <1>5 DEF Alone, HasTarget, AllAttached
<1> QED BY <1>2, <1>6 DEF StaysAlone

\* So each statement leaves a request alone.
LEMMA StepAlone ==
  ASSUME NEW p, NEW me, me = req[p], Left(me), Step(p)
  PROVE  StaysAlone(p)
BY FindAlone, ReadRankAlone, UniteAlone, LoopAlone, AbsorbAlone, AdoptAlone, MintAlone,
   FindOwnerAlone, WriteKeyAlone, ReadsLastAlone, SetAnchorAlone DEF Step

-----------------------------------------------------------------------------
\* No statement forgets a key or adds evidence, alone or not.
LEMMA StepKnows ==
  ASSUME TypeOK, NEW p, LocalOK(req[p]), Step(p)
  PROVE  Known \subseteq Known' /\ asserted' = asserted
<1>0. NoCid \notin Cids /\ req[p].pc \in HasTarget => req[p].target \in Cids
  BY KeysAssumption DEF LocalOK
<1>1. ASSUME NEW l, NEW next, req[p].pc \in HasTarget, MergeInto(p, req[p].target, l, next)
      PROVE  Known \subseteq Known' /\ asserted' = asserted
  BY <1>0, <1>1, KeysAssumption DEF MergeInto, Repointed, Known, TypeOK, vars
<1>2. CASE Unite(p) \/ Absorb(p)
  BY <1>1, <1>2 DEF Unite, Absorb, HasTarget
<1>3. CASE WriteKey(p)
  <2>1. req[p].target \in Cids /\ asserted' = asserted
    BY <1>3 DEF WriteKey, LocalOK, HasTarget
  <2>2. owner' = owner \/ owner' = [owner EXCEPT ![req[p].item] = req[p].target]
    BY <1>3 DEF WriteKey
  <2>3. NoCid \notin Cids
    BY KeysAssumption
  <2>4. \A k \in StrongKeys : owner'[k] = owner[k] \/ owner'[k] = req[p].target
    BY <2>2 DEF TypeOK
  <2> QED BY <2>1, <2>3, <2>4 DEF Known
<1>4. CASE UNCHANGED <<owner, asserted>>
  BY <1>4 DEF Known
<1>5. Unite(p) \/ Absorb(p) \/ WriteKey(p) \/ UNCHANGED <<owner, asserted>>
  BY DEF Step, Find, ReadRank, ReadWinner, Compare, Refresh, Adopt, Mint, FindOwner, FindPhone,
         WritePhone, Reread, ReadAnchor, SetAnchor, Answer, vars
<1> QED BY <1>2, <1>3, <1>4, <1>5

\* A request that is alone takes nothing apart.
LEMMA AloneJoins ==
  ASSUME NEW p, NEW me, me = req[p], Left(me), Step(p), NEW S \in SUBSET Identity, Together(S)
  PROVE  Together(S)'
<1>1. S \subseteq StrongKeys /\ S \subseteq Known /\ \A j, k \in S : owner[j] = owner[k]
  BY DEF Together, Known
<1>2. ASSUME NEW w, NEW l,
             \A k \in StrongKeys : owner'[k] = IF owner[k] = l THEN w ELSE owner[k],
             Known' = Known
      PROVE  Together(S)'
  BY <1>1, <1>2 DEF Together
<1>3. CASE Unite(p)
  <2>1. /\ me.target \in Cids /\ Live(me.target) /\ RowsInv
        /\ me.todo \subseteq Cids \ {me.target}
    BY <1>3 DEF Unite, Left, LocalOK, Alone, HasTarget
  <2>2. PICK c \in me.todo : \E next : MergeInto(p, me.target, c, next)
    BY <1>3 DEF Unite
  <2> QED BY <1>2, <2>1, <2>2, MergeAlone
<1>4. CASE Absorb(p)
  <2>1. /\ me.target \in Cids /\ Live(me.target) /\ RowsInv
        /\ me.item \in Cids \ {me.target}
    BY <1>4 DEF Absorb, Left, LocalOK, Alone, HasTarget
  <2>2. \E next : MergeInto(p, me.target, me.item, next)
    BY <1>4 DEF Absorb
  <2> QED BY <1>2, <2>1, <2>2, MergeAlone
<1>5. CASE WriteKey(p)
  <2>1. /\ Known' = Known \cup {me.item}
        /\ \A k \in StrongKeys : owner'[k] = IF k = me.item THEN me.target ELSE owner[k]
        /\ me.item \in OwnedKeys(me.rec) => owner[me.item] = me.target
    BY <1>5, WriteKeyAlone
  <2>2. me.item \in S => me.item \in OwnedKeys(me.rec)
    BY <1>1, <1>5 DEF OwnedKeys, Left, LocalOK, WriteKey
  <2>3. \A k \in S : owner'[k] = owner[k]
    BY <1>1, <2>1, <2>2
  <2> QED BY <1>1, <2>1, <2>3 DEF Together
<1>6. CASE owner' = owner
  BY <1>6 DEF Together, Known
<1>7. Unite(p) \/ Absorb(p) \/ WriteKey(p) \/ owner' = owner
  BY DEF Step, Find, ReadRank, ReadWinner, Compare, Refresh, Adopt, Mint, FindOwner, FindPhone,
         WritePhone, Reread, ReadAnchor, SetAnchor, Answer, vars
<1> QED BY <1>3, <1>4, <1>5, <1>6, <1>7

\* A request begins alone, whatever the tables hold.
LEMMA BeginsAlone ==
  ASSUME NEW p, NEW r \in AnyRecord, Begin(p, r)
  PROVE  \E t \in Locals : /\ Becomes(p, t) /\ t.pc = "find" /\ t.rec = r /\ Alone(t)
                           /\ UNCHANGED vars
<1> DEFINE s == AtRest("idle", r, NoCid)
           t == Goto(s, "find", r.ids)
<1>1. Becomes(p, t) /\ t \in Locals /\ UNCHANGED vars
  BY BeginLocals DEF LocalOK
<1>2. /\ s \in Locals /\ s.rec = r /\ s.target = NoCid /\ s.idHits = {} /\ s.afHits = {}
      /\ r.ids \subseteq StrongKeys
  BY AtRestOK DEF LocalOK, AtRest, AnyRecord
<1> HIDE DEF s
<1>3. /\ t.pc = "find" /\ t.rec = r /\ t.todo = r.ids /\ t.target = NoCid
      /\ t.idHits = {} /\ t.afHits = {}
  BY <1>2, GotoFields DEF Places
<1> HIDE DEF t
<1>4. Alone(t)
  BY <1>3 DEF Alone, OwnedKeys, HasTarget, AllAttached
<1> QED BY <1>1, <1>3, <1>4

-----------------------------------------------------------------------------
\* A request that moves keeps the evidence accounted for.
LEMMA MoveCovers ==
  ASSUME Covered, NEW p \in Requests, NEW E \in SUBSET SUBSET Identity,
         Known \subseteq Known', asserted' = asserted \cup E,
         \A other \in Requests \ {p} : req'[other] = req[other],
         req'[p].pc # "idle", req[p].pc = "idle" \/ req'[p].rec = req[p].rec,
         \A S \in E : S # {} /\ S = req'[p].rec.ids \cap Identity
  PROVE  Covered'
<1> SUFFICES ASSUME NEW S \in asserted'
             PROVE  /\ S \in SUBSET Identity /\ S # {}
                    /\ \/ \E k \in Known' : S = {k}
                       \/ \E j \in Requests : req'[j].pc # "idle" /\ S = req'[j].rec.ids \cap Identity
  BY DEF Covered
<1>1. CASE S \in E
  BY <1>1
<1>2. CASE S \in asserted
  <2>1. S \in SUBSET Identity /\ S # {}
    BY <1>2 DEF Covered
  <2>2. CASE \E k \in Known : S = {k}
    BY <2>1, <2>2
  <2>3. ASSUME NEW j \in Requests, req[j].pc # "idle", S = req[j].rec.ids \cap Identity
        PROVE  req'[j].pc # "idle" /\ S = req'[j].rec.ids \cap Identity
    <3>1. CASE j = p
      BY <2>3, <3>1
    <3>2. CASE j # p
      BY <2>3, <3>2
    <3> QED BY <3>1, <3>2
  <2> QED BY <1>2, <2>1, <2>2, <2>3 DEF Covered
<1> QED BY <1>1, <1>2

\* A request that begins shows its evidence.
LEMMA BeginMends ==
  ASSUME RowsInv, LocalsInv, MendInv, NEW p \in Requests, NEW r \in AnyRecord, Begin(p, r),
         \/ req[p].pc = "idle" /\ repeated' = repeated
         \/ Ended /\ r = req[p].rec /\ repeated' = repeated \cup {p}
  PROVE  MendInv'
<1>1. PICK t \in Locals : /\ Becomes(p, t) /\ t.pc = "find" /\ t.rec = r /\ Alone(t)
                          /\ UNCHANGED vars
  BY BeginsAlone
<1>2. req'[p] = t /\ \A other \in Requests \ {p} : req'[other] = req[other]
  BY <1>1, OthersRest
<1>3. /\ UNCHANGED <<owner, anchor>> /\ Known' = Known
      /\ \A S \in SUBSET Identity : Together(S) => Together(S)'
  BY <1>1 DEF vars, Known, Together
<1>4. Covered'
  <2>0. PICK E \in SUBSET SUBSET Identity : E = {r.ids \cap Identity} \ {{}}
    OBVIOUS
  <2>1. asserted' = asserted \cup E
    BY <2>0 DEF Begin, Shown
  <2>2. \A S \in E : S # {} /\ S = req'[p].rec.ids \cap Identity
    BY <1>1, <1>2, <2>0
  <2>3. req'[p].pc # "idle" /\ (req[p].pc = "idle" \/ req'[p].rec = req[p].rec)
    BY <1>1, <1>2
  <2>4. Known \subseteq Known' /\ Covered
    BY <1>3 DEF MendInv
  <2> QED BY <1>2, <2>1, <2>2, <2>3, <2>4, MoveCovers
<1>5. ASSUME Ended, r = req[p].rec, repeated' = repeated \cup {p}
      PROVE  Repeating'
  <2>1. \A k \in Requests : req[k].pc # "idle" /\ ~ Running(k)
    BY <1>5 DEF Ended, Running
  <2>2. \A k \in Requests : Running(k)' => k = p
    BY <1>2, <2>1 DEF Running
  <2>3. Running(p)'
    BY <1>1, <1>2 DEF Running
  <2>4. Alone(t)'
    BY <1>1, <1>3, AloneFrozen
  <2>5. \A k \in Requests, s \in Locals : Running(k)' /\ req'[k] = s => Alone(s)'
    BY <1>2, <2>2, <2>4
  <2>6. \A k \in repeated' \cap Requests, s \in Locals :
          ~ Running(k)' /\ req'[k] = s => Mended(s)'
    <3> SUFFICES ASSUME NEW k \in repeated' \cap Requests, NEW s \in Locals,
                        ~ Running(k)', req'[k] = s
                 PROVE  Mended(s)'
      OBVIOUS
    <3>1. k # p /\ k \in repeated /\ req[k] = s
      BY <1>2, <1>5, <2>3
    <3>2. Mended(s)
      BY <2>1, <3>1 DEF MendInv, Repeating
    <3> QED BY <1>3, <3>2 DEF Mended
  <2>7. \A k \in Requests : req'[k].pc # "idle"
    BY <1>1, <1>2, <2>1
  <2>8. \A j, k \in Requests : Running(j)' /\ Running(k)' => j = k
    BY <2>2
  <2>9. \A k \in Requests : Running(k)' => k \in repeated'
    BY <1>5, <2>2
  <2> QED BY <2>5, <2>6, <2>7, <2>8, <2>9 DEF Repeating
<1>6. CASE req[p].pc = "idle" /\ repeated' = repeated
  <2>1. repeated = {}
    BY <1>6 DEF MendInv, Repeating
  <2> QED BY <1>4, <1>6, <2>1 DEF MendInv
<1>7. CASE Ended /\ r = req[p].rec /\ repeated' = repeated \cup {p}
  BY <1>4, <1>5, <1>7 DEF MendInv
<1> QED BY <1>6, <1>7

\* A statement, during the race or after it.
LEMMA StepMends ==
  ASSUME RowsInv, LocalsInv, MendInv, NEW p \in Requests, Step(p), repeated' = repeated
  PROVE  MendInv'
<1>1. LocalOK(req[p]) /\ TypeOK /\ Running(p)
  BY StepRuns DEF LocalsInv, RowsInv
<1>2. Known \subseteq Known' /\ asserted' = asserted
  BY <1>1, StepKnows
<1>3. req'[p].rec = req[p].rec /\ req'[p].pc # "idle"
  BY StepContinues DEF Continues
<1>4. PICK u : LocalOK(u) /\ Becomes(p, u)
  BY <1>1, StepLocals
<1>5. \A other \in Requests \ {p} : req'[other] = req[other]
  BY <1>4, OthersRest
<1>6. Covered'
  <2>1. {} \in SUBSET SUBSET Identity /\ asserted' = asserted \cup {} /\ Covered
    BY <1>2 DEF MendInv
  <2>2. \A S \in {} : S # {} /\ S = req'[p].rec.ids \cap Identity
    OBVIOUS
  <2> QED BY <1>2, <1>3, <1>5, <2>1, <2>2, MoveCovers
<1>7. ASSUME Repeating
      PROVE  Repeating'
  <2>1. \A k \in Requests : Running(k) => k = p
    BY <1>1, <1>7 DEF Repeating
  <2>2. PICK me \in Locals : me = req[p]
    BY <1>1 DEF LocalOK
  <2>3. Left(me)
    BY <1>1, <1>7, <2>2 DEF Left, Repeating
  <2>4. PICK t : Becomes(p, t) /\ Alone(t)'
    BY <2>2, <2>3, StepAlone DEF StaysAlone
  <2>5. req'[p] = t
    BY <2>4, OthersRest
  <2>6. \A k \in Requests : Running(k)' => k = p
    BY <1>5, <2>1 DEF Running
  <2>7. \A S \in SUBSET Identity : Together(S) => Together(S)'
    BY <2>2, <2>3, AloneJoins
  <2>8. \A k \in Requests, s \in Locals : Running(k)' /\ req'[k] = s => Alone(s)'
    BY <2>4, <2>5, <2>6
  <2>9. ASSUME NEW k \in repeated' \cap Requests, NEW s \in Locals, ~ Running(k)', req'[k] = s
        PROVE  Mended(s)'
    <3>1. CASE k = p
      <4>1. s = t /\ t.pc \in {"idle", "done", "failed", "crashed"}
        BY <2>5, <2>9, <3>1 DEF Running
      <4>2. t.pc = "done"
        BY <1>3, <2>4, <2>5, <4>1 DEF Alone
      <4>3. Together(t.rec.ids \cap Identity)'
        BY <2>4, <4>2 DEF Alone, Together, OwnedKeys, HasTarget, AllAttached
      <4> QED BY <4>1, <4>2, <4>3 DEF Mended
    <3>2. CASE k # p
      <4>1. req[k] = s /\ k \in repeated /\ ~ Running(k)
        BY <1>5, <2>9, <3>2 DEF Running
      <4>2. Mended(s)
        BY <1>7, <4>1 DEF Repeating
      <4> QED BY <2>7, <4>2 DEF Mended
    <3> QED BY <3>1, <3>2
  <2>10. \A k \in Requests : req'[k].pc # "idle"
    BY <1>3, <1>5, <1>7 DEF Repeating
  <2>11. \A k \in Requests : Running(k)' => k \in repeated'
    BY <1>1, <1>7, <2>6 DEF Repeating
  <2> QED BY <2>6, <2>8, <2>9, <2>10, <2>11 DEF Repeating
<1> QED BY <1>6, <1>7 DEF MendInv

\* Before the first request.
LEMMA RaceStartsMended == RaceInit => MendInv
<1> SUFFICES ASSUME RaceInit PROVE MendInv
  OBVIOUS
<1>1. PICK K \in SUBSET StrongKeys : Resolved(K)
  BY DEF RaceInit
<1>2. K \subseteq Known
  BY <1>1, CidOfType, KeysAssumption DEF Resolved, Known
<1>3. \A S \in asserted : S \in SUBSET Identity /\ S # {} /\ \E k \in Known : S = {k}
  BY <1>1, <1>2 DEF Resolved
<1> QED BY <1>3 DEF MendInv, Covered, RaceInit

\* When all have been repeated, all the evidence is together.
LEMMA AllMended ==
  ASSUME RowsInv, LocalsInv, MendInv, Ended, repeated = Requests
  PROVE  /\ Partition!NoMissedMerge
         /\ \A p \in Requests : req[p].pc = "done"
<1>1. ASSUME NEW p \in Requests
      PROVE  req[p].pc = "done" /\ Together(req[p].rec.ids \cap Identity)
  <2>1. Repeating /\ ~ Running(p) /\ req[p] \in Locals /\ p \in repeated
    BY <1>1 DEF MendInv, Ended, Running, LocalsInv
  <2> QED BY <1>1, <2>1 DEF Repeating, Mended
<1>2. ASSUME NEW S \in asserted
      PROVE  \E b \in Blocks : S \subseteq b
  <2>1. S \subseteq Identity /\ S # {} /\ Together(S)
    BY <1>1, <1>2 DEF MendInv, Covered, Together
  <2>2. PICK k \in S : TRUE
    BY <2>1
  <2>3. /\ k \in StrongKeys /\ owner[k] # NoCid /\ owner[k] \in Cids /\ Live(owner[k])
    BY <2>1, <2>2 DEF Together, Known, RowsInv, TypeOK, NoDanglingRow
  <2>4. S \subseteq IdMembers(owner[k])
    BY <2>1, <2>2 DEF Together, IdMembers, Members, Known
  <2>5. IdMembers(owner[k]) \in Blocks
    BY <2>2, <2>3, <2>4 DEF Blocks, LiveCids
  <2> QED BY <2>4, <2>5
<1> QED BY <1>1, <1>2 DEF Partition!NoMissedMerge

\* Whatever any number of requests left behind that ran at the same time, answered or
\* not, over keys resolved before in any way, hash collisions included: each one's record
\* repeated, one after the other, is answered and leaves no evidence missed
\* (commit_record_with_opts over d1.rs).
THEOREM RepeatedRequestsMend == RaceSpec => []RepeatsMend
<1>1. RaceSpec => [](RowsInv /\ LocalsInv)
  BY RaceRows
<1>2. RaceInit => MendInv
  BY RaceStartsMended
<1>3. /\ (RowsInv /\ LocalsInv) /\ (RowsInv /\ LocalsInv)' /\ MendInv
      /\ [RaceNext]_<<allVars, repeated>>
      => MendInv'
  <2> SUFFICES ASSUME RowsInv, LocalsInv, MendInv, [RaceNext]_<<allVars, repeated>>
               PROVE  MendInv'
    OBVIOUS
  <2>1. CASE \E p \in Requests : First(p)
    BY <2>1, BeginMends, RecordsAssumption DEF First, AnyRecord
  <2>2. CASE \E p \in Requests : Repeat(p)
    <3>1. PICK p \in Requests : Repeat(p)
      BY <2>2
    <3>2. PICK r \in AnyRecord : r = req[p].rec
      BY DEF LocalsInv, Locals
    <3> QED BY <3>1, <3>2, BeginMends DEF Repeat
  <2>3. CASE \E p \in Requests : Step(p) /\ UNCHANGED repeated
    BY <2>3, StepMends
  <2>4. CASE UNCHANGED <<allVars, repeated>>
    <3>1. UNCHANGED <<owner, anchor, asserted, req, repeated>>
      BY <2>4 DEF allVars, vars
    <3>2. Known' = Known /\ \A k : Running(k)' <=> Running(k)
      BY <3>1 DEF Known, Running
    <3>3. \A s \in Locals : Alone(s) => Alone(s)'
      BY <3>1, AloneFrozen
    <3>4. Repeating => Repeating'
      BY <3>1, <3>2, <3>3 DEF Repeating, Mended, Together
    <3>5. Covered => Covered'
      BY <3>1, <3>2 DEF Covered
    <3> QED BY <3>1, <3>4, <3>5 DEF MendInv
  <2> QED BY <2>1, <2>2, <2>3, <2>4 DEF RaceNext
<1>4. (RowsInv /\ LocalsInv) /\ MendInv => RepeatsMend
  BY AllMended DEF RepeatsMend
<1> QED BY <1>1, <1>2, <1>3, <1>4, PTL DEF RaceSpec
=============================================================================
