------------------------- MODULE NameRequestProofs -------------------------
(***************************************************************************)
(* Theorems about the hub budget, for any number of clients, buckets,      *)
(* limits and days, and about what the name memory answers, for any keys,  *)
(* titles, qualifiers, clients and hubs.                                   *)
(***************************************************************************)
EXTENDS NameRequest, CrosswalkProofs, FiniteSetTheorems

-----------------------------------------------------------------------------
(***************************************************************************)
(* The hub budget.                                                         *)
(***************************************************************************)

\* The places past the reservation.
OutPlaces ==
  {"site", "asking_site", "search", "asking", "bind", "enrich", "index", "remember"}

\* The counters are numbers, for each bucket and day.
CountersOK ==
  /\ calls \in [Buckets -> [0 .. MaxDay -> Nat]]
  /\ day \in 0 .. MaxDay
  /\ limit \in Nat

\* A request is a record with its place, its number and its day; from the reservation
\* on, its day is one of the table's.
LocalsOK ==
  /\ DOMAIN req = Clients
  /\ \A p \in Clients :
       /\ {"at", "used", "day"} \subseteq DOMAIN req[p]
       /\ req[p].at \in OutPlaces \cup {"reserve"} => req[p].day \in 0 .. MaxDay

BudgetInv == CountersOK /\ LocalsOK /\ BudgetHolds

\* Goes moves p alone: to s, or to an answer.
LEMMA GoesEffect ==
  ASSUME DOMAIN req = Clients, NEW p \in Clients, NEW s, Goes(p, s),
         {"at", "used", "day"} \subseteq DOMAIN s
  PROVE  /\ DOMAIN req' = Clients
         /\ \A o \in Clients \ {p} : req'[o] = req[o]
         /\ req'[p].at = s.at
         /\ {"at", "used", "day"} \subseteq DOMAIN req'[p]
         /\ s.at \notin Ends => req'[p] = s
<1>1. DOMAIN req' = Clients /\ \A o \in Clients \ {p} : req'[o] = req[o]
  BY DEF Goes
<1>2. CASE s.at = "ambiguous"
  <2>1. req'[p] = [Rest EXCEPT !.at = s.at, !.ask = s.ask, !.among = s.among, !.echo = s.echo]
    BY <1>2 DEF Goes
  <2> QED BY <1>1, <1>2, <2>1 DEF Rest, Ends
<1>3. CASE s.at \in Ends \ {"ambiguous"}
  <2>1. req'[p] = [Rest EXCEPT !.at = s.at, !.echo = s.echo]
    BY <1>3 DEF Goes
  <2> QED BY <1>1, <1>3, <2>1 DEF Rest, Ends
<1>4. CASE s.at \notin Ends
  <2>1. req'[p] = s
    BY <1>4 DEF Goes, Ends
  <2> QED BY <1>1, <1>4, <2>1
<1> QED BY <1>2, <1>3, <1>4 DEF Ends

\* A step that moves one request and leaves the counters alone keeps the budget, unless
\* a Worker's request gets past the reservation or changes what it holds.
LEMMA MovesKeepBudget ==
  ASSUME BudgetInv, NEW p \in Clients, NEW s, Goes(p, s),
         {"at", "used", "day"} \subseteq DOMAIN s,
         UNCHANGED <<front, calls, day, limit>>,
         s.at \in OutPlaces \cup {"reserve"} => s.day \in 0 .. MaxDay,
         front = "worker" /\ s.at \in OutPlaces =>
           Out(p) /\ s.used = req[p].used /\ s.day = req[p].day
  PROVE  BudgetInv'
<1>1. /\ DOMAIN req' = Clients
      /\ \A o \in Clients \ {p} : req'[o] = req[o]
      /\ req'[p].at = s.at
      /\ {"at", "used", "day"} \subseteq DOMAIN req'[p]
      /\ s.at \notin Ends => req'[p] = s
  BY GoesEffect DEF BudgetInv, LocalsOK
<1>2. OutPlaces \cup {"reserve"} \subseteq {at \in OutPlaces \cup {"reserve"} : at \notin Ends}
  BY DEF OutPlaces, Ends
<1>3. CountersOK'
  BY DEF BudgetInv, CountersOK
<1>4. LocalsOK'
  BY <1>1, <1>2 DEF BudgetInv, LocalsOK
<1>5. \A o \in Clients : Out(o) <=> req[o].at \in OutPlaces
  BY DEF Out, OutPlaces
<1>6. \A o \in Clients : Out(o)' <=> req'[o].at \in OutPlaces
  BY DEF Out, OutPlaces
<1>7. \A o \in Clients : front = "worker" /\ Out(o)' =>
        Out(o) /\ req'[o].used = req[o].used /\ req'[o].day = req[o].day
  BY <1>1, <1>2, <1>5, <1>6
<1>8. BudgetHolds'
  BY <1>7 DEF BudgetInv, BudgetHolds
<1> QED BY <1>3, <1>4, <1>8 DEF BudgetInv
-----------------------------------------------------------------------------
(***************************************************************************)
(* The steps.                                                              *)
(***************************************************************************)

\* resolve_name_local says one, many, error or none.
LEMMA LookupSays ==
  ASSUME NEW ask
  PROVE  LookupOf(ask).is \in {"one", "many", "error", "none"}
<1>1. \A c : One(c).is \in {"one", "error"}
  BY DEF One
<1>2. \A candidates : Many(candidates).is = "many"
  BY DEF Many
<1>3. Nothing.is = "none"
  BY DEF Nothing
<1>4. ASSUME NEW t, NEW Q
      PROVE  Lookup(t, Q).is \in {"one", "many", "error", "none"}
  <2>1. CASE plural[<<t, Q>>] # {}
    BY <2>1, <1>2 DEF Lookup
  <2>2. CASE plural[<<t, Q>>] = {} /\ Cardinality(Matched(t, Q)) = 1
    BY <2>2, <1>1 DEF Lookup
  <2>3. CASE plural[<<t, Q>>] = {} /\ Cardinality(Matched(t, Q)) # 1
    BY <2>3, <1>1, <1>2, <1>3 DEF Lookup
  <2> QED BY <2>1, <2>2, <2>3
<1> QED BY <1>3, <1>4 DEF LookupOf

\* The same request goes on to another place, with other locals changed or not.
LEMMA MovesOn ==
  ASSUME BudgetInv, NEW p \in Clients, NEW at, Moves(p, at),
         UNCHANGED <<front, calls, day, limit>>,
         \/ at \notin OutPlaces \cup {"reserve"}
         \/ at \in OutPlaces /\ Out(p)
  PROVE  BudgetInv'
<1> DEFINE s == [req[p] EXCEPT !.at = at]
<1>1. Goes(p, s)
  BY DEF Moves
<1>2. {"at", "used", "day"} \subseteq DOMAIN req[p]
  BY DEF BudgetInv, LocalsOK
<1>3. /\ s.at = at /\ s.used = req[p].used /\ s.day = req[p].day
      /\ {"at", "used", "day"} \subseteq DOMAIN s
  BY <1>2
<1>4. Out(p) => req[p].day \in 0 .. MaxDay
  BY DEF BudgetInv, LocalsOK, Out, OutPlaces
<1>5. at \in OutPlaces => at # "reserve"
  BY DEF OutPlaces
<1> HIDE DEF s
<1> QED BY <1>1, <1>3, <1>4, <1>5, MovesKeepBudget

\* Several candidates.
LEMMA AnswersManyKeepsBudget ==
  ASSUME BudgetInv, NEW p \in Clients, NEW candidates, AnswersMany(p, candidates),
         UNCHANGED <<front, calls, day, limit>>
  PROVE  BudgetInv'
<1> DEFINE s == [req[p] EXCEPT !.at = "ambiguous", !.among = candidates]
<1>1. Goes(p, s)
  BY DEF AnswersMany
<1>2. {"at", "used", "day"} \subseteq DOMAIN req[p]
  BY DEF BudgetInv, LocalsOK
<1>3. s.at = "ambiguous" /\ {"at", "used", "day"} \subseteq DOMAIN s
  BY <1>2
<1>4. "ambiguous" \notin OutPlaces \cup {"reserve"}
  BY DEF OutPlaces
<1> HIDE DEF s
<1> QED BY <1>1, <1>3, <1>4, MovesKeepBudget

\* What a lookup found.
LEMMA AnswersKeepsBudget ==
  ASSUME BudgetInv, NEW p \in Clients, NEW ask, LookupOf(ask).is # "none",
         Answers(p, LookupOf(ask)), UNCHANGED <<front, calls, day, limit>>
  PROVE  BudgetInv'
<1> DEFINE found == LookupOf(ask)
<1>1. CASE found.is = "one"
  <2> DEFINE s == [req[p] EXCEPT !.at = "resolved", !.cid = found.cid]
  <2>1. Goes(p, s)
    BY <1>1 DEF Answers
  <2>2. {"at", "used", "day"} \subseteq DOMAIN req[p]
    BY DEF BudgetInv, LocalsOK
  <2>3. s.at = "resolved" /\ {"at", "used", "day"} \subseteq DOMAIN s
    BY <2>2
  <2>4. "resolved" \notin OutPlaces \cup {"reserve"}
    BY DEF OutPlaces
  <2> HIDE DEF s
  <2> QED BY <2>1, <2>3, <2>4, MovesKeepBudget
<1>2. CASE found.is = "many"
  <2>1. AnswersMany(p, found.among)
    BY <1>2 DEF Answers
  <2> QED BY <2>1, AnswersManyKeepsBudget
<1>3. CASE found.is = "error"
  <2>1. Moves(p, "refused")
    BY <1>3 DEF Answers
  <2>2. "refused" \notin OutPlaces \cup {"reserve"}
    BY DEF OutPlaces
  <2> QED BY <2>1, <2>2, MovesOn
<1> QED BY <1>1, <1>2, <1>3, LookupSays

\* A new request, of a caller or by a candidate's ref.
LEMMA BeginsKeepsBudget ==
  ASSUME BudgetInv, NEW p \in Clients, NEW ask, NEW echo, Begins(p, ask, echo),
         UNCHANGED <<front, calls, day, limit>>
  PROVE  BudgetInv'
<1> DEFINE at == CASE ~ Usable(ask)  -> "refused"
                   [] ask.ids # {}  -> "ids"
                   [] OTHER         -> "look"
           s == [Rest EXCEPT !.ask = ask, !.echo = echo, !.at = at]
<1>1. Goes(p, s)
  BY DEF Begins
<1>2. at \in {"refused", "ids", "look"}
  OBVIOUS
<1> HIDE DEF at
<1>3. s.at = at /\ {"at", "used", "day"} \subseteq DOMAIN s
  BY DEF Rest
<1>4. at \notin OutPlaces \cup {"reserve"}
  BY <1>2 DEF OutPlaces
<1> HIDE DEF s
<1> QED BY <1>1, <1>3, <1>4, MovesKeepBudget

\* A command of the operator, who has no budget.
LEMMA RunCommandKeepsBudget ==
  ASSUME BudgetInv, NEW p \in Clients, RunCommand(p)
  PROVE  BudgetInv'
<1>1. PICK ask \in Asks, complete \in BOOLEAN :
        LET s == [Rest EXCEPT !.ask = ask]
            found == LookupOf(ask)
        IN  /\ Usable(ask)
            /\ complete => Learned < MaxLearned
            /\ \/ /\ ask.ids # {} /\ complete
                  /\ Website(ask) = ask.ids /\ ask.title = NoTitle
                  /\ Goes(p, [s EXCEPT !.at = "site"])
               \/ /\ ask.ids = {} /\ complete
                  /\ Goes(p, [s EXCEPT !.at = "search"])
               \/ /\ ask.ids = {} /\ ~ complete
                  /\ Goes(p, [s EXCEPT
                       !.at = CASE found.is = "one"  -> "resolved"
                                [] found.is = "many" -> "ambiguous"
                                [] OTHER             -> "refused",
                       !.among = found.among])
  BY DEF RunCommand
<1> DEFINE start == [Rest EXCEPT !.ask = ask]
           found == LookupOf(ask)
           at == CASE found.is = "one"  -> "resolved"
                   [] found.is = "many" -> "ambiguous"
                   [] OTHER             -> "refused"
           moved(place) == [start EXCEPT !.at = place]
           answered == [start EXCEPT !.at = at, !.among = found.among]
<1>2. front # "worker" /\ UNCHANGED <<front, calls, day, limit>>
  BY DEF RunCommand, Keeps
<1>3. \A place : /\ moved(place).at = place /\ moved(place).day = 0
                 /\ {"at", "used", "day"} \subseteq DOMAIN moved(place)
  BY DEF Rest
<1>4. 0 \in 0 .. MaxDay
  BY RequestAssumption
<1>5. at \in {"resolved", "ambiguous", "refused"}
  OBVIOUS
<1>6. answered.at = at /\ {"at", "used", "day"} \subseteq DOMAIN answered
  <2> HIDE DEF at
  <2> QED BY DEF Rest
<1>7. CASE Goes(p, moved("site"))
  <2> HIDE DEF moved
  <2> QED BY <1>2, <1>3, <1>4, <1>7, MovesKeepBudget
<1>8. CASE Goes(p, moved("search"))
  <2> HIDE DEF moved
  <2> QED BY <1>2, <1>3, <1>4, <1>8, MovesKeepBudget
<1>9. CASE Goes(p, answered)
  <2>1. answered.at \notin OutPlaces \cup {"reserve"}
    BY <1>5, <1>6 DEF OutPlaces
  <2> HIDE DEF answered
  <2> QED BY <1>2, <1>6, <1>9, <2>1, MovesKeepBudget
<1> QED BY <1>1, <1>7, <1>8, <1>9

\* The local lookup; a miss reads the clock and goes on to the reservation.
LEMMA LookKeepsBudget ==
  ASSUME BudgetInv, NEW p \in Clients, Look(p)
  PROVE  BudgetInv'
<1> DEFINE ask == req[p].ask
           found == LookupOf(ask)
           site == RememberedSite(ask)
           s == [req[p] EXCEPT !.at = "reserve", !.day = day]
<1>1. UNCHANGED <<front, calls, day, limit>>
  BY DEF Look, Keeps
<1>2. CASE found.is # "none"
  <2>1. Answers(p, found)
    BY <1>2 DEF Look
  <2> QED BY <1>1, <1>2, <2>1, AnswersKeepsBudget
<1>3. CASE found.is = "none" /\ site # {}
  <2>1. AnswersMany(p, site)
    BY <1>3 DEF Look
  <2> QED BY <1>1, <2>1, AnswersManyKeepsBudget
<1>4. CASE Moves(p, "refused")
  <2>1. "refused" \notin OutPlaces \cup {"reserve"}
    BY DEF OutPlaces
  <2> QED BY <1>1, <1>4, <2>1, MovesOn
<1>5. CASE Goes(p, s)
  <2>1. {"at", "used", "day"} \subseteq DOMAIN req[p]
    BY DEF BudgetInv, LocalsOK
  <2>2. s.at = "reserve" /\ s.day = day /\ {"at", "used", "day"} \subseteq DOMAIN s
    BY <2>1
  <2>3. day \in 0 .. MaxDay /\ "reserve" \notin OutPlaces
    BY DEF BudgetInv, CountersOK, OutPlaces
  <2> HIDE DEF s
  <2> QED BY <1>1, <1>5, <2>2, <2>3, MovesKeepBudget
<1> QED BY <1>2, <1>3, <1>4, <1>5 DEF Look

\* Counting one call leaves a table of numbers, none of them lower.
LEMMA CountingUp ==
  ASSUME NEW B, NEW D, NEW table \in [B -> [D -> Nat]], NEW b \in B, NEW e \in D,
         NEW counted,
         counted = [table EXCEPT ![b] = [table[b] EXCEPT ![e] = table[b][e] + 1]]
  PROVE  /\ counted \in [B -> [D -> Nat]]
         /\ counted[b][e] = table[b][e] + 1
         /\ \A i \in B, j \in D : table[i][j] <= counted[i][j]
<1> DEFINE line == [table[b] EXCEPT ![e] = table[b][e] + 1]
<1>1. line \in [D -> Nat]
  OBVIOUS
<1>2. line[e] = table[b][e] + 1 /\ \A j \in D : table[b][j] <= line[j]
  OBVIOUS
<1>3. counted \in [B -> [D -> Nat]] /\ counted[b] = line
  BY <1>1
<1>4. \A i \in B \ {b} : counted[i] = table[i]
  OBVIOUS
<1>5. \A i \in B, j \in D : table[i][j] \in Nat
  OBVIOUS
<1>6. ASSUME NEW i \in B, NEW j \in D
      PROVE  table[i][j] <= counted[i][j]
  BY <1>2, <1>3, <1>4, <1>5
<1> QED BY <1>2, <1>3, <1>6

\* A grant hands out a number no request of the bucket and day holds.
LEMMA ReserveKeepsBudget ==
  ASSUME BudgetInv, NEW p \in Clients, Reserve(p)
  PROVE  BudgetInv'
<1> DEFINE bucket == Bucket[p]
           d == req[p].day
           row == calls[bucket][d]
           at == IF Website(req[p].ask) # {} THEN "site" ELSE "search"
           s == [req[p] EXCEPT !.used = row + 1, !.at = at]
<1>1. UNCHANGED <<front, day, limit>> /\ req[p].at = "reserve"
  BY DEF Reserve
<1>2. bucket \in Buckets /\ d \in 0 .. MaxDay /\ row \in Nat
  BY <1>1 DEF BudgetInv, CountersOK, LocalsOK, Buckets
<1>3. CASE ~ Granted(row)
  <2>1. Moves(p, "refused") /\ UNCHANGED calls
    BY <1>3 DEF Reserve
  <2>2. "refused" \notin OutPlaces \cup {"reserve"}
    BY DEF OutPlaces
  <2> QED BY <1>1, <2>1, <2>2, MovesOn
<1>4. CASE Granted(row)
  <2>1. Goes(p, s) /\ calls' = [calls EXCEPT ![bucket][d] = row + 1]
    BY <1>4 DEF Reserve
  <2>2. limit \in Nat /\ row + 1 \in 1 .. limit
    BY <1>2, <1>4 DEF Granted, BudgetInv, CountersOK
  <2>3. /\ calls' \in [Buckets -> [0 .. MaxDay -> Nat]]
        /\ calls'[bucket][d] = row + 1
        /\ \A b \in Buckets, e \in 0 .. MaxDay : calls[b][e] <= calls'[b][e]
    <3> DEFINE Days == 0 .. MaxDay
    <3>1. calls \in [Buckets -> [Days -> Nat]] /\ bucket \in Buckets /\ d \in Days
      BY <1>2 DEF BudgetInv, CountersOK
    <3>2. calls' = [calls EXCEPT ![bucket] = [calls[bucket] EXCEPT ![d] = calls[bucket][d] + 1]]
      BY <2>1
    <3> HIDE DEF bucket, d, Days
    <3>3. /\ calls' \in [Buckets -> [Days -> Nat]]
          /\ calls'[bucket][d] = calls[bucket][d] + 1
          /\ \A b \in Buckets, e \in Days : calls[b][e] <= calls'[b][e]
      BY <3>1, <3>2, CountingUp
    <3> QED BY <3>3 DEF Days
  <2>4. CountersOK'
    BY <1>1, <2>3 DEF BudgetInv, CountersOK
  <2>5. {"at", "used", "day"} \subseteq DOMAIN req[p]
    BY DEF BudgetInv, LocalsOK
  <2>6. at \in {"site", "search"}
    OBVIOUS
  <2>7. /\ s.at = at /\ s.used = row + 1 /\ s.day = d
        /\ {"at", "used", "day"} \subseteq DOMAIN s
    <3> HIDE DEF at
    <3> QED BY <2>5
  <2> HIDE DEF s, at
  <2>8. /\ DOMAIN req' = Clients
        /\ \A o \in Clients \ {p} : req'[o] = req[o]
        /\ req'[p] = s
    BY <2>1, <2>6, <2>7, GoesEffect DEF BudgetInv, LocalsOK, Ends
  <2>9. LocalsOK'
    BY <1>2, <2>7, <2>8 DEF BudgetInv, LocalsOK
  <2>10. \A o \in Clients \ {p} : Out(o)' <=> Out(o)
    BY <2>8 DEF Out
  <2>11. \A o \in Clients \ {p} : Out(o) => req[o].day \in 0 .. MaxDay
    BY DEF BudgetInv, LocalsOK, Out, OutPlaces
  <2>12. ASSUME front = "worker", NEW o \in Clients \ {p}, Out(o)
         PROVE  /\ req[o].used \in 1 .. limit
                /\ req[o].used <= calls[Bucket[o]][req[o].day]
                /\ req[o].used <= calls'[Bucket[o]][req[o].day]
                /\ Bucket[o] = bucket /\ req[o].day = d => req[o].used # row + 1
    <3>1. req[o].used \in 1 .. limit /\ req[o].used <= calls[Bucket[o]][req[o].day]
      BY <2>12 DEF BudgetInv, BudgetHolds
    <3>2. Bucket[o] \in Buckets /\ req[o].day \in 0 .. MaxDay
      BY <2>11, <2>12 DEF Buckets
    <3>3. calls[Bucket[o]][req[o].day] \in Nat /\ calls'[Bucket[o]][req[o].day] \in Nat
      BY <3>2, <2>3 DEF BudgetInv, CountersOK
    <3>4. calls[Bucket[o]][req[o].day] <= calls'[Bucket[o]][req[o].day]
      BY <3>2, <2>3
    <3>5. req[o].used <= calls'[Bucket[o]][req[o].day]
      BY <2>2, <3>1, <3>3, <3>4
    <3>6. Bucket[o] = bucket /\ req[o].day = d => req[o].used # row + 1
      BY <1>2, <2>2, <3>1
    <3> QED BY <3>1, <3>5, <3>6
  <2>13. ASSUME NEW q \in Clients, front' = "worker", Out(q)'
         PROVE  /\ req'[q].used \in 1 .. limit'
                /\ req'[q].used <= calls'[Bucket[q]][req'[q].day]
                /\ \A o \in Clients \ {q} :
                     Out(o)' /\ Bucket[o] = Bucket[q] /\ req'[o].day = req'[q].day
                       => req'[o].used # req'[q].used
    <3>1. CASE q = p
      <4>1. req'[q].used = row + 1 /\ req'[q].day = d
        BY <3>1, <2>7, <2>8
      <4>2. req'[q].used \in 1 .. limit' /\ req'[q].used <= calls'[Bucket[q]][req'[q].day]
        BY <1>1, <1>2, <2>2, <2>3, <3>1, <4>1
      <4>3. ASSUME NEW o \in Clients \ {q}, Out(o)', Bucket[o] = Bucket[q],
                   req'[o].day = req'[q].day
            PROVE  req'[o].used # req'[q].used
        BY <1>1, <2>8, <2>10, <2>12, <2>13, <3>1, <4>1, <4>3
      <4> QED BY <4>2, <4>3
    <3>2. CASE q # p
      <4>1. front = "worker" /\ Out(q) /\ req'[q] = req[q]
        BY <1>1, <2>8, <2>10, <2>13, <3>2
      <4>2. req'[q].used \in 1 .. limit' /\ req'[q].used <= calls'[Bucket[q]][req'[q].day]
        BY <1>1, <2>12, <3>2, <4>1
      <4>3. ASSUME NEW o \in Clients \ {q}, Out(o)', Bucket[o] = Bucket[q],
                   req'[o].day = req'[q].day
            PROVE  req'[o].used # req'[q].used
        <5>1. CASE o = p
          <6>1. req'[o].used = row + 1 /\ req'[o].day = d
            BY <5>1, <2>7, <2>8
          <6> QED BY <2>12, <3>2, <4>1, <4>3, <5>1, <6>1
        <5>2. CASE o # p
          <6>1. Out(o) /\ req'[o] = req[o]
            BY <2>8, <2>10, <4>3, <5>2
          <6> QED BY <4>1, <4>3, <6>1 DEF BudgetInv, BudgetHolds
        <5> QED BY <5>1, <5>2
      <4> QED BY <4>2, <4>3
    <3> QED BY <3>1, <3>2
  <2>14. BudgetHolds'
    BY <2>13 DEF BudgetHolds
  <2> QED BY <2>4, <2>9, <2>14 DEF BudgetInv
<1> QED BY <1>3, <1>4

-----------------------------------------------------------------------------
\* The same request goes on past the reservation, with what it holds unchanged.
LEMMA HoldingOn ==
  ASSUME BudgetInv, NEW p \in Clients, NEW s, Goes(p, s), Out(p),
         {"at", "used", "day"} \subseteq DOMAIN s,
         s.at # "reserve", s.used = req[p].used, s.day = req[p].day,
         UNCHANGED <<front, calls, day, limit>>
  PROVE  BudgetInv'
<1>1. req[p].day \in 0 .. MaxDay
  BY DEF BudgetInv, LocalsOK, Out, OutPlaces
<1> QED BY <1>1, MovesKeepBudget

\* Step 1: a commit of the identifiers, or their refusal.
LEMMA IdsKeepBudget ==
  ASSUME BudgetInv, NEW p \in Clients, CommitIds(p) \/ RefuseIds(p)
  PROVE  BudgetInv'
<1>1. UNCHANGED <<front, calls, day, limit>>
  BY DEF CommitIds, RefuseIds, Keeps
<1>2. {"at", "used", "day"} \subseteq DOMAIN req[p]
  BY DEF BudgetInv, LocalsOK
<1>3. CASE CommitIds(p)
  <2> DEFINE at == IF NewEdges(AskedRecord(p)) /\ OrgShaped(req[p].ask.type)
                     THEN "completing" ELSE "resolved"
  <2>1. PICK c \in Cids : Goes(p, [req[p] EXCEPT !.cid = c, !.at = at])
    BY <1>3 DEF CommitIds
  <2> DEFINE s == [req[p] EXCEPT !.cid = c, !.at = at]
  <2>2. at \notin OutPlaces \cup {"reserve"}
    BY DEF OutPlaces
  <2>3. s.at = at /\ {"at", "used", "day"} \subseteq DOMAIN s
    <3> HIDE DEF at
    <3> QED BY <1>2
  <2>4. Goes(p, s)
    BY <2>1
  <2> HIDE DEF s, at
  <2> QED BY <1>1, <2>2, <2>3, <2>4, MovesKeepBudget
<1>4. CASE RefuseIds(p)
  <2>1. PICK candidates :
          \/ AnswersMany(p, candidates)
          \/ Moves(p, "refused")
          \/ Moves(p, "look")
    BY <1>4 DEF RefuseIds
  <2>2. {"refused", "look"} \cap (OutPlaces \cup {"reserve"}) = {}
    BY DEF OutPlaces
  <2> QED BY <1>1, <2>1, <2>2, AnswersManyKeepsBudget, MovesOn
<1> QED BY <1>3, <1>4

\* Step 2d: the website crosswalk, and the command line's commit of a domain.
LEMMA SiteKeepsBudget ==
  ASSUME BudgetInv, NEW p \in Clients,
         GuardSite(p) \/ SiteFails(p) \/ CommitDomain(p) \/ SiteIsShared(p) \/ SiteIsFound(p)
  PROVE  BudgetInv'
<1>1. UNCHANGED <<front, calls, day, limit>>
  BY DEF GuardSite, SiteFails, CommitDomain, SiteIsShared, SiteIsFound, Plural, Keeps
<1>2. {"at", "used", "day"} \subseteq DOMAIN req[p]
  BY DEF BudgetInv, LocalsOK
<1>3. ASSUME Out(p), Moves(p, AfterSite(req[p].ask))
      PROVE  BudgetInv'
  <2>1. AfterSite(req[p].ask) \in {"domain", "refused", "search"}
    BY DEF AfterSite
  <2>2. {"domain", "refused"} \cap (OutPlaces \cup {"reserve"}) = {} /\ "search" \in OutPlaces
    BY DEF OutPlaces
  <2> QED BY <1>1, <1>3, <2>1, <2>2, MovesOn
<1>4. CASE GuardSite(p)
  <2>1. PICK candidates :
          \/ Moves(p, AfterSite(req[p].ask))
          \/ AnswersMany(p, candidates)
          \/ Moves(p, "asking_site")
    BY <1>4 DEF GuardSite
  <2>2. Out(p) /\ "asking_site" \in OutPlaces
    BY <1>4 DEF GuardSite, Out, OutPlaces
  <2> QED BY <1>1, <1>3, <2>1, <2>2, AnswersManyKeepsBudget, MovesOn
<1>5. CASE SiteFails(p)
  BY <1>3, <1>5 DEF SiteFails, Out
<1>6. CASE CommitDomain(p)
  <2>1. PICK c \in Cids : Goes(p, [req[p] EXCEPT !.at = "completing", !.cid = c])
    BY <1>6 DEF CommitDomain
  <2> DEFINE s == [req[p] EXCEPT !.at = "completing", !.cid = c]
  <2>2. s.at = "completing" /\ {"at", "used", "day"} \subseteq DOMAIN s
    BY <1>2
  <2>3. Goes(p, s) /\ "completing" \notin OutPlaces \cup {"reserve"}
    BY <2>1 DEF OutPlaces
  <2> HIDE DEF s
  <2> QED BY <1>1, <2>2, <2>3, MovesKeepBudget
<1>7. CASE SiteIsShared(p)
  <2>1. PICK candidates : AnswersMany(p, candidates)
    BY <1>7 DEF SiteIsShared, Plural
  <2> QED BY <1>1, <2>1, AnswersManyKeepsBudget
<1>8. CASE SiteIsFound(p)
  <2>1. PICK domain, key :
          Goes(p, [req[p] EXCEPT !.at = "bind", !.found = {key, domain}, !.sole = TRUE])
    BY <1>8 DEF SiteIsFound
  <2> DEFINE s == [req[p] EXCEPT !.at = "bind", !.found = {key, domain}, !.sole = TRUE]
  <2>2. /\ s.at = "bind" /\ s.used = req[p].used /\ s.day = req[p].day
        /\ {"at", "used", "day"} \subseteq DOMAIN s
    BY <1>2
  <2>3. Goes(p, s) /\ Out(p)
    BY <1>8, <2>1 DEF SiteIsFound, Out
  <2> HIDE DEF s
  <2> QED BY <1>1, <2>2, <2>3, HoldingOn
<1> QED BY <1>4, <1>5, <1>6, <1>7, <1>8

\* Step 2e: the local lookup again, and the hub's answer.
LEMMA SearchKeepsBudget ==
  ASSUME BudgetInv, NEW p \in Clients,
         SearchLocally(p) \/ SearchIsPlural(p) \/ SearchIsSingular(p)
  PROVE  BudgetInv'
<1>1. UNCHANGED <<front, calls, day, limit>>
  BY DEF SearchLocally, SearchIsPlural, SearchIsSingular, Plural, Keeps
<1>2. {"at", "used", "day"} \subseteq DOMAIN req[p]
  BY DEF BudgetInv, LocalsOK
<1>3. CASE SearchLocally(p)
  <2> DEFINE found == LookupOf(req[p].ask)
  <2>1. CASE found.is = "none"
    <3>1. Moves(p, "asking") /\ Out(p) /\ "asking" \in OutPlaces
      BY <1>3, <2>1 DEF SearchLocally, Out, OutPlaces
    <3> QED BY <1>1, <3>1, MovesOn
  <2>2. CASE found.is # "none"
    <3>1. Answers(p, found)
      BY <1>3, <2>2 DEF SearchLocally
    <3> QED BY <1>1, <2>2, <3>1, AnswersKeepsBudget
  <2> QED BY <2>1, <2>2
<1>4. CASE SearchIsPlural(p)
  <2>1. PICK candidates : AnswersMany(p, candidates)
    BY <1>4 DEF SearchIsPlural, Plural
  <2> QED BY <1>1, <2>1, AnswersManyKeepsBudget
<1>5. CASE SearchIsSingular(p)
  <2>1. PICK F, P :
          Goes(p, [req[p] EXCEPT !.at = IF F \cup P = {} THEN "refused" ELSE "bind",
                                 !.found = F \cup P, !.sole = (F # {})])
    BY <1>5 DEF SearchIsSingular
  <2> DEFINE at == IF F \cup P = {} THEN "refused" ELSE "bind"
             s == [req[p] EXCEPT !.at = at, !.found = F \cup P, !.sole = (F # {})]
  <2>2. at # "reserve"
    OBVIOUS
  <2>3. Goes(p, s) /\ Out(p)
    BY <1>5, <2>1 DEF SearchIsSingular, Out
  <2> HIDE DEF at
  <2>4. /\ s.at = at /\ s.used = req[p].used /\ s.day = req[p].day
        /\ {"at", "used", "day"} \subseteq DOMAIN s
    BY <1>2
  <2> HIDE DEF s
  <2> QED BY <1>1, <2>2, <2>3, <2>4, HoldingOn
<1> QED BY <1>3, <1>4, <1>5

\* Binding, completing and remembering.
LEMMA AnswerKeepsBudget ==
  ASSUME BudgetInv, NEW p \in Clients,
         Bind(p) \/ Enrich(p) \/ IndexFails(p) \/ Index(p) \/ Remember(p)
  PROVE  BudgetInv'
<1>1. UNCHANGED <<front, calls, day, limit>>
  BY DEF Bind, Enrich, IndexFails, Index, Remember, Keeps
<1>2. {"at", "used", "day"} \subseteq DOMAIN req[p]
  BY DEF BudgetInv, LocalsOK
<1>3. /\ {"resolved", "refused"} \cap (OutPlaces \cup {"reserve"}) = {}
      /\ {"index", "remember"} \subseteq OutPlaces
  BY DEF OutPlaces
<1>4. CASE Bind(p)
  <2>1. PICK c \in Cids : Goes(p, [req[p] EXCEPT !.at = "enrich", !.cid = c])
    BY <1>4 DEF Bind
  <2> DEFINE s == [req[p] EXCEPT !.at = "enrich", !.cid = c]
  <2>2. /\ s.at = "enrich" /\ s.used = req[p].used /\ s.day = req[p].day
        /\ {"at", "used", "day"} \subseteq DOMAIN s
    BY <1>2
  <2>3. Goes(p, s) /\ Out(p)
    BY <1>4, <2>1 DEF Bind, Out
  <2> HIDE DEF s
  <2> QED BY <1>1, <2>2, <2>3, HoldingOn
<1>5. CASE Enrich(p)
  <2>1. Moves(p, "resolved") \/ (Moves(p, "index") /\ Out(p))
    BY <1>5 DEF Enrich, Completed, Out
  <2> QED BY <1>1, <1>3, <2>1, MovesOn
<1>6. CASE IndexFails(p)
  BY <1>1, <1>3, <1>6, MovesOn DEF IndexFails
<1>7. CASE Index(p)
  <2>1. (Moves(p, "resolved") \/ Moves(p, "remember")) /\ Out(p)
    BY <1>7 DEF Index, Out
  <2> QED BY <1>1, <1>3, <2>1, MovesOn
<1>8. CASE Remember(p)
  BY <1>1, <1>3, <1>8, MovesOn DEF Remember
<1> QED BY <1>4, <1>5, <1>6, <1>7, <1>8

\* A step of p's request, a new one included.
LEMMA ClientKeepsBudget ==
  ASSUME BudgetInv, NEW p \in Clients,
         Ask(p) \/ AskAgain(p) \/ RunCommand(p) \/ Handle(p) \/ Dies(p)
  PROVE  BudgetInv'
<1>1. CASE Ask(p)
  BY <1>1, BeginsKeepsBudget DEF Ask, Keeps
<1>2. CASE AskAgain(p)
  BY <1>2, BeginsKeepsBudget DEF AskAgain, Keeps
<1>3. CASE RunCommand(p)
  BY <1>3, RunCommandKeepsBudget
<1>4. CASE Dies(p)
  <2>1. Goes(p, Rest) /\ UNCHANGED <<front, calls, day, limit>>
    BY <1>4 DEF Dies, Keeps
  <2>2. /\ {"at", "used", "day"} \subseteq DOMAIN Rest
        /\ Rest.at \notin OutPlaces \cup {"reserve"}
    BY DEF Rest, OutPlaces
  <2> QED BY <2>1, <2>2, MovesKeepBudget
<1>5. CASE ReserveFails(p)
  <2>1. Moves(p, "refused") /\ UNCHANGED <<front, calls, day, limit>>
    BY <1>5 DEF ReserveFails, Keeps
  <2>2. "refused" \notin OutPlaces \cup {"reserve"}
    BY DEF OutPlaces
  <2> QED BY <2>1, <2>2, MovesOn
<1>6. CASE Handle(p)
  BY <1>5, <1>6, IdsKeepBudget, LookKeepsBudget, ReserveKeepsBudget, SiteKeepsBudget,
     SearchKeepsBudget, AnswerKeepsBudget DEF Handle
<1> QED BY <1>1, <1>2, <1>3, <1>4, <1>6

\* A day passes: what was handed out was handed out for a day of the table.
LEMMA NextDayKeepsBudget ==
  ASSUME BudgetInv, NextDay
  PROVE  BudgetInv'
<1>1. CountersOK'
  BY RequestAssumption DEF BudgetInv, CountersOK, NextDay
<1>2. LocalsOK'
  BY DEF BudgetInv, LocalsOK, NextDay
<1>3. BudgetHolds'
  BY DEF BudgetInv, BudgetHolds, NextDay, Out
<1> QED BY <1>1, <1>2, <1>3 DEF BudgetInv

\* Steps that touch neither the requests nor the counters.
LEMMA OthersKeepBudget ==
  ASSUME BudgetInv, UNCHANGED <<front, req, calls, day, limit>>
  PROVE  BudgetInv'
<1>1. CountersOK' /\ LocalsOK'
  BY DEF BudgetInv, CountersOK, LocalsOK
<1>2. BudgetHolds'
  BY DEF BudgetInv, BudgetHolds, Out
<1> QED BY <1>1, <1>2 DEF BudgetInv

\* A database starts with no request under way and no call counted.
LEMMA BudgetInitially ==
  RequestInit => BudgetInv
<1> SUFFICES ASSUME RequestInit PROVE BudgetInv
  OBVIOUS
<1>1. CountersOK
  BY RequestAssumption DEF RequestInit, CountersOK
<1>2. \A p \in Clients : req[p] = Rest
  BY DEF RequestInit
<1>3. {"at", "used", "day"} \subseteq DOMAIN Rest /\ Rest.at = "idle"
  BY DEF Rest
<1>4. LocalsOK
  BY <1>2, <1>3 DEF RequestInit, LocalsOK, OutPlaces
<1>5. BudgetHolds
  BY <1>2, <1>3 DEF BudgetHolds, Out
<1> QED BY <1>1, <1>4, <1>5 DEF BudgetInv

\* Whatever the requests, their interleaving, the limit and the days: a Worker's request
\* that reaches out holds a call of its bucket's day that no other holds, within the
\* limit (budget.rs, reserve).
THEOREM BudgetIsKept == RequestSpec => []BudgetHolds
<1>1. BudgetInv /\ [RequestNext]_reqVars => BudgetInv'
  <2> SUFFICES ASSUME BudgetInv, [RequestNext]_reqVars PROVE BudgetInv'
    OBVIOUS
  <2>1. CASE \E p \in Clients : Ask(p) \/ AskAgain(p) \/ RunCommand(p) \/ Handle(p) \/ Dies(p)
    BY <2>1, ClientKeepsBudget
  <2>2. CASE Ingest
    BY <2>2, OthersKeepBudget DEF Ingest, Keeps
  <2>3. CASE Correct
    BY <2>3, OthersKeepBudget DEF Correct
  <2>4. CASE NextDay
    BY <2>4, NextDayKeepsBudget
  <2>5. CASE UNCHANGED reqVars
    BY <2>5, OthersKeepBudget DEF reqVars
  <2> QED BY <2>1, <2>2, <2>3, <2>4, <2>5 DEF RequestNext
<1>2. BudgetInv => BudgetHolds
  BY DEF BudgetInv
<1> QED BY <1>1, <1>2, BudgetInitially, PTL DEF RequestSpec

-----------------------------------------------------------------------------
(***************************************************************************)
(* What the memory answers: the invariant, the memory's part.              *)
(***************************************************************************)

\* A canonical id that minting gave out.
Minted(c) == \E k \in Known : c = CidOf(k)

\* The rows of c under t rest on a hub's only answer, for qualifiers that they have ...
RowProof(t, c) ==
  \E proof \in proved : /\ proof[1] = t /\ proof[2] \subseteq Establishing(t, c)
                        /\ proof[3] \in Identity /\ owner[proof[3]] = c

\* ... and a remembered unique answer for its own.
NameProof(n, c) ==
  \E proof \in proved : /\ proof[1] = n[1] /\ proof[2] = n[2]
                        /\ proof[3] \in Identity /\ owner[proof[3]] = c

RowsProved == \A row \in nameIndex : RowProof(row[1][1], row[2])

UniqueProved ==
  \A n \in Names : unique[n] # NoCid /\ Live(unique[n]) => NameProof(n, unique[n])

\* What was settled is remembered; a domain only as an ambiguity.
SettledKept ==
  /\ settled \subseteq Names
  /\ \A n \in settled : \/ plural[n] # {}
                        \/ n[1] \in Titles /\ unique[n] # NoCid /\ Live(unique[n])

\* A remembered candidate's ref is an identity key.
PluralRefs ==
  /\ DOMAIN plural = Names
  /\ \A n \in Names : \A candidate \in plural[n] : candidate.anchor \in Identity

\* The Worker splits nothing: its ids were all minted, and one that is gone stays gone,
\* even where a unique name still says it.  On the command line no unique name does.
FrontMemory ==
  /\ front \in {"worker", "cli"}
  /\ front = "worker" => /\ \A c \in LiveCids : Minted(c)
                         /\ \A n \in Names : unique[n] # NoCid => Minted(unique[n])
  /\ front = "cli" => UniqueLive

MemoryInv ==
  /\ EntityInv /\ RowsProved /\ UniqueProved
  /\ SettledKept /\ PluralRefs /\ FrontMemory

\* What a step does to the memory that the requests it does not move rely on: an id that
\* is there after it was there before, with the keys it had.
Extends ==
  /\ front' = front /\ Known \subseteq Known' /\ proved \subseteq proved'
  /\ \A c \in Cids : (Minted(c) \/ Live(c)) /\ Live(c)' =>
       Live(c) /\ \A k \in Known : owner[k] = c => owner'[k] = c

\* A step that changes no table.
LEMMA SameMemory ==
  ASSUME MemoryInv, UNCHANGED <<memoryVars, front, proved, settled>>
  PROVE  MemoryInv' /\ Extends
<1> USE DEF memoryVars, vars
<1>1. EntityInv'
  BY DEF MemoryInv, EntityInv, TypeOK, RowsLive, AnchorIsCurrent, MintedKeyIsKnown, Live,
     LiveCids, Known, Members
<1>2. RowsProved' /\ UniqueProved'
  BY DEF MemoryInv, RowsProved, UniqueProved, RowProof, NameProof, Establishing, Live
<1>3. SettledKept' /\ PluralRefs'
  BY DEF MemoryInv, SettledKept, PluralRefs, Live
<1>4. FrontMemory'
  BY DEF MemoryInv, FrontMemory, UniqueLive, Minted, Known, Live, LiveCids
<1>5. Extends
  BY DEF Extends, Known, Live
<1> QED BY <1>1, <1>2, <1>3, <1>4, <1>5 DEF MemoryInv

\* Entities are put together: names follow them, with what they rest on.
LEMMA AbsorbsMemory ==
  ASSUME HashInjective, MemoryInv, NEW w, NEW L, Absorbs(w, L), EntityInv',
         UNCHANGED <<plural, front, proved, settled>>
  PROVE  MemoryInv' /\ Extends
<1>0. TypeOK /\ RowsLive /\ NoCid \notin Cids /\ w \in Cids /\ w # NoCid
  BY KeysAssumption DEF MemoryInv, EntityInv, Absorbs
<1>1. \A k \in Known : owner'[k] = IF owner[k] \in L THEN w ELSE owner[k]
  BY DEF Absorbs
<1>2. \A c \in Cids : Live(c)' <=> c = w \/ (Live(c) /\ c \notin L)
  BY DEF Absorbs
<1>3. Known \subseteq Known'
  BY <1>0, <1>1 DEF Known
<1>4. \A n \in Names : unique'[n] = IF unique[n] \in L THEN w ELSE unique[n]
  BY <1>0 DEF Absorbs, Repointed, TypeOK
<1>5. Identity \subseteq StrongKeys /\ \A k \in Identity : owner[k] \in Cids => k \in Known
  BY <1>0 DEF StrongKeys, Known
<1>6. Minted(w) => Live(w)
  <2> SUFFICES ASSUME NEW i \in Known, w = CidOf(i), NEW k \in Known' \ Known, w = CidOf(k)
               PROVE  FALSE
    BY DEF Minted, Absorbs, LiveCids
  <2>1. i = k
    BY DEF CidOf, HashInjective, Known
  <2> QED BY <2>1
<1>7. Extends
  <2>1. ASSUME NEW c \in Cids, Minted(c) \/ Live(c), Live(c)'
        PROVE  Live(c) /\ c \notin L
    BY <1>2, <1>6, <2>1 DEF Absorbs
  <2>2. ASSUME NEW c \in Cids, c \notin L, NEW k \in Known, owner[k] = c
        PROVE  owner'[k] = c
    BY <1>1, <2>2
  <2> QED BY <1>3, <2>1, <2>2 DEF Extends
<1>8. RowsProved'
  <2> SUFFICES ASSUME NEW row \in nameIndex' PROVE RowProof(row[1][1], row[2])'
    BY DEF RowsProved
  <2>1. PICK old \in nameIndex : row = <<old[1], IF old[2] \in L THEN w ELSE old[2]>>
    BY DEF Absorbs, RepointedRows
  <2> DEFINE t == old[1][1]
             c == old[2]
             e == IF c \in L THEN w ELSE c
  <2>2. PICK proof \in proved : /\ proof[1] = t /\ proof[2] \subseteq Establishing(t, c)
                                /\ proof[3] \in Identity /\ owner[proof[3]] = c
    BY DEF MemoryInv, RowsProved, RowProof
  <2>3. c \in Cids
    BY <1>0 DEF TypeOK
  <2>4. owner'[proof[3]] = e
    BY <1>1, <1>5, <2>2, <2>3
  <2>5. Establishing(t, c) \subseteq Establishing(t, e)'
    <3> SUFFICES ASSUME NEW x, NEW mine \in nameIndex, mine[1][1] = t, mine[2] = c,
                        x \in mine[1][2]
                 PROVE  x \in Establishing(t, e)'
      BY DEF Establishing
    <3>1. <<mine[1], e>> \in nameIndex'
      BY DEF Absorbs, RepointedRows
    <3> QED BY <3>1 DEF Establishing
  <2>6. row[1][1] = t /\ row[2] = e
    BY <2>1
  <2> HIDE DEF t, c, e
  <2>7. proof \in proved' /\ proof[2] \subseteq Establishing(t, e)'
    BY <2>2, <2>5
  <2> QED BY <2>2, <2>4, <2>6, <2>7 DEF RowProof, Establishing
<1>9. UniqueProved'
  <2> SUFFICES ASSUME NEW n \in Names, unique'[n] # NoCid, Live(unique[n])'
               PROVE  NameProof(n, unique[n])'
    BY DEF UniqueProved
  <2>1. unique[n] \in Cids /\ Live(unique[n])
    <3>1. CASE unique[n] \in L
      BY <1>0, <3>1 DEF Absorbs, LiveCids
    <3>2. CASE unique[n] \notin L
      <4>1. unique'[n] = unique[n] /\ unique[n] \in Cids
        BY <1>0, <1>4, <3>2 DEF TypeOK
      <4>2. Live(unique[n])' <=> unique[n] = w \/ Live(unique[n])
        BY <1>2, <3>2, <4>1 DEF Live
      <4>3. unique[n] = w => Live(w)
        <5>1. CASE front = "worker"
          BY <1>0, <1>6, <4>1, <5>1 DEF MemoryInv, FrontMemory
        <5>2. CASE front = "cli"
          BY <1>0, <4>1, <5>2 DEF MemoryInv, FrontMemory, UniqueLive
        <5> QED BY <5>1, <5>2 DEF MemoryInv, FrontMemory
      <4> QED BY <4>1, <4>2, <4>3
    <3> QED BY <3>1, <3>2
  <2>2. PICK proof \in proved : /\ proof[1] = n[1] /\ proof[2] = n[2]
                                /\ proof[3] \in Identity /\ owner[proof[3]] = unique[n]
    BY <1>0, <2>1 DEF MemoryInv, UniqueProved, NameProof
  <2>3. owner'[proof[3]] = unique'[n]
    BY <1>1, <1>4, <1>5, <2>1, <2>2
  <2> QED BY <2>2, <2>3 DEF NameProof
<1>10. SettledKept'
  <2> SUFFICES ASSUME NEW n \in settled, unique[n] # NoCid, Live(unique[n])
               PROVE  unique'[n] # NoCid /\ Live(unique[n])'
    BY DEF MemoryInv, SettledKept
  <2>1. n \in Names /\ unique[n] \in Cids
    BY <1>0 DEF MemoryInv, SettledKept, TypeOK
  <2> QED BY <1>0, <1>2, <1>4, <2>1 DEF Live
<1>11. PluralRefs'
  BY DEF MemoryInv, PluralRefs
<1>12. FrontMemory'
  <2>1. ASSUME front = "worker", NEW c \in Cids, Live(c)' PROVE Minted(c)'
    <3>1. CASE Live(c)
      BY <1>3, <2>1, <3>1 DEF MemoryInv, FrontMemory, Minted, LiveCids
    <3>2. CASE ~ Live(c)
      BY <1>2, <2>1, <3>2 DEF Absorbs, LiveCids, Minted
    <3> QED BY <3>1, <3>2
  <2>2. ASSUME front = "worker", NEW n \in Names, unique'[n] # NoCid
        PROVE  Minted(unique[n])'
    <3>1. CASE unique[n] \in L
      <4>1. Minted(w)'
        BY <1>0, <1>2, <2>1, <2>2
      <4>2. unique'[n] = w
        BY <1>4, <3>1
      <4> QED BY <4>1, <4>2 DEF Minted
    <3>2. CASE unique[n] \notin L
      <4>1. unique'[n] = unique[n]
        BY <1>4, <3>2
      <4>2. PICK k \in Known : unique[n] = CidOf(k)
        BY <2>2, <4>1 DEF MemoryInv, FrontMemory, Minted
      <4> QED BY <1>3, <4>1, <4>2 DEF Minted
    <3> QED BY <3>1, <3>2
  <2>3. ASSUME front = "cli" PROVE UniqueLive'
    <3> SUFFICES ASSUME NEW n \in Names, unique'[n] # NoCid PROVE Live(unique[n])'
      BY DEF UniqueLive
    <3>1. CASE unique[n] \in L
      BY <1>0, <1>2, <1>4, <3>1 DEF Live
    <3>2. CASE unique[n] \notin L
      <4>1. unique'[n] = unique[n] /\ unique[n] \in Cids /\ Live(unique[n])
        BY <1>0, <1>4, <2>3, <3>2 DEF TypeOK, MemoryInv, FrontMemory, UniqueLive
      <4> QED BY <1>2, <3>2, <4>1 DEF Live
    <3> QED BY <3>1, <3>2
  <2> QED BY <2>1, <2>2, <2>3 DEF MemoryInv, FrontMemory, LiveCids
<1> QED BY <1>7, <1>8, <1>9, <1>10, <1>11, <1>12 DEF MemoryInv

\* A commit of any record.
LEMMA CommitMemory ==
  ASSUME HashInjective, MemoryInv, NEW r \in AnyRecord, NEW strict, Commit(r, strict),
         UNCHANGED <<plural, front, proved, settled>>
  PROVE  MemoryInv' /\ Extends /\ EntityInv'
<1>1. PICK w, L : Absorbs(w, L)
  BY CommitAbsorbs DEF MemoryInv
<1>2. EntityInv'
  BY CommitInv DEF MemoryInv
<1> QED BY <1>1, <1>2, AbsorbsMemory

\* An operator's merge or link.
LEMMA JoinMemory ==
  ASSUME HashInjective, MemoryInv, MergeStep \/ LinkStep,
         UNCHANGED <<plural, front, proved, settled>>
  PROVE  MemoryInv'
<1>1. EntityInv /\ Next
  BY DEF MemoryInv, Next
<1>2. PICK w, L : Absorbs(w, L)
  BY <1>1, MergeAbsorbs, LinkAbsorbs DEF MergeStep, LinkStep
<1>3. EntityInv'
  BY <1>1, EntityStep
<1> QED BY <1>2, <1>3, AbsorbsMemory

\* A split forgets the names of its entity; the other entities keep what theirs rest on.
LEMMA SplitMemory ==
  ASSUME HashInjective, MemoryInv, front = "cli", SplitStep, settled' = {},
         UNCHANGED <<plural, front, proved>>
  PROVE  MemoryInv'
<1>1. EntityInv /\ Next
  BY DEF MemoryInv, Next
<1>2. PICK D, src, new : SplitsOff(D, src, new)
  BY <1>1, SplitShape DEF SplitStep
<1>3. EntityInv'
  BY <1>1, EntityStep
<1>0. /\ TypeOK /\ RowsLive /\ UniqueLive /\ NoCid \notin Cids
      /\ src \in Cids /\ src # NoCid /\ new \in Cids /\ ~ Live(new)
  BY <1>2, KeysAssumption DEF MemoryInv, EntityInv, FrontMemory, SplitsOff, LiveCids
<1>4. ASSUME NEW k \in Identity, owner[k] # src PROVE owner'[k] = owner[k]
  BY <1>2, <1>4 DEF SplitsOff, Members, StrongKeys
<1>5. RowsProved'
  <2> SUFFICES ASSUME NEW row \in nameIndex' PROVE RowProof(row[1][1], row[2])'
    BY DEF RowsProved
  <2>1. row \in nameIndex /\ row[2] # src
    BY <1>2 DEF SplitsOff, RowsWithout
  <2> DEFINE t == row[1][1]
             c == row[2]
  <2>2. PICK proof \in proved : /\ proof[1] = t /\ proof[2] \subseteq Establishing(t, c)
                                /\ proof[3] \in Identity /\ owner[proof[3]] = c
    BY <2>1 DEF MemoryInv, RowsProved, RowProof
  <2>3. \A mine \in nameIndex : mine[2] = c => mine \in nameIndex'
    BY <1>2, <2>1 DEF SplitsOff, RowsWithout
  <2>4. Establishing(t, c) \subseteq Establishing(t, c)'
    BY <2>3 DEF Establishing
  <2>5. owner'[proof[3]] = c
    BY <1>4, <2>1, <2>2
  <2>6. proof \in proved' /\ proof[2] \subseteq Establishing(t, c)'
    BY <2>2, <2>4
  <2> QED BY <2>2, <2>5, <2>6 DEF RowProof
<1>6. \A n \in Names : unique'[n] # NoCid => unique'[n] = unique[n] /\ unique[n] # src
  BY <1>0, <1>2 DEF SplitsOff
<1>7. UniqueProved'
  <2> SUFFICES ASSUME NEW n \in Names, unique'[n] # NoCid PROVE NameProof(n, unique[n])'
    BY DEF UniqueProved
  <2>1. unique'[n] = unique[n] /\ unique[n] # src /\ Live(unique[n])
    BY <1>0, <1>6 DEF UniqueLive
  <2>2. PICK proof \in proved : /\ proof[1] = n[1] /\ proof[2] = n[2]
                                /\ proof[3] \in Identity /\ owner[proof[3]] = unique[n]
    BY <2>1 DEF MemoryInv, UniqueProved, NameProof
  <2>3. owner'[proof[3]] = unique'[n]
    BY <1>4, <2>1, <2>2
  <2> QED BY <2>2, <2>3 DEF NameProof
<1>8. SettledKept' /\ PluralRefs'
  BY DEF SettledKept, MemoryInv, PluralRefs
<1>9. FrontMemory'
  <2>1. UniqueLive'
    <3> SUFFICES ASSUME NEW n \in Names, unique'[n] # NoCid PROVE Live(unique[n])'
      BY DEF UniqueLive
    <3>1. unique'[n] = unique[n] /\ unique[n] \in Cids /\ Live(unique[n])
      BY <1>0, <1>6 DEF UniqueLive, TypeOK
    <3> QED BY <1>2, <3>1 DEF SplitsOff, Live
  <2> QED BY <2>1 DEF FrontMemory
<1> QED BY <1>3, <1>5, <1>7, <1>8, <1>9 DEF MemoryInv

\* An ambiguity is remembered.
LEMMA PluralMemory ==
  ASSUME MemoryInv, NEW n \in Names, NEW candidates, candidates # {},
         \A candidate \in candidates : candidate.anchor \in Identity,
         RecordPlural(n, candidates), settled' = settled \cup {n},
         UNCHANGED <<owner, anchor, phoneEdge, nameIndex, front, proved>>
  PROVE  MemoryInv' /\ Extends
<1>0. TypeOK /\ DOMAIN plural = Names
  BY DEF MemoryInv, EntityInv, PluralRefs
<1>1. \A m \in Names : /\ unique'[m] = IF m = n THEN NoCid ELSE unique[m]
                       /\ plural'[m] = IF m = n THEN candidates ELSE plural[m]
  BY <1>0 DEF RecordPlural, TypeOK
<1>2. EntityInv'
  <2>1. TypeOK'
    BY <1>0 DEF TypeOK, RecordPlural
  <2>2. RowsLive' /\ AnchorIsCurrent' /\ MintedKeyIsKnown'
    BY DEF MemoryInv, EntityInv, RowsLive, AnchorIsCurrent, MintedKeyIsKnown, Live,
       LiveCids, Known, Members
  <2> QED BY <2>1, <2>2 DEF EntityInv
<1>3. RowsProved'
  BY DEF MemoryInv, RowsProved, RowProof, Establishing
<1>4. UniqueProved'
  BY <1>1 DEF MemoryInv, UniqueProved, NameProof, Live
<1>5. SettledKept'
  BY <1>1 DEF MemoryInv, SettledKept, Live
<1>6. PluralRefs'
  BY <1>0, <1>1 DEF MemoryInv, PluralRefs, RecordPlural
<1>7. FrontMemory'
  BY <1>1 DEF MemoryInv, FrontMemory, UniqueLive, Minted, Known, Live, LiveCids
<1>8. Extends
  BY DEF Extends, Known, Live
<1> QED BY <1>2, <1>3, <1>4, <1>5, <1>6, <1>7, <1>8 DEF MemoryInv

\* A unique answer is remembered: on the command line its entity is there, and if it is
\* the answer rests on a key the entity has.
LEMMA UniqueMemory ==
  ASSUME MemoryInv, NEW n \in Names, n[1] \in Titles, NEW c \in Cids,
         front = "worker" => Minted(c),
         front = "cli" => Live(c),
         Live(c) => NameProof(n, c),
         RecordUnique(n, c),
         settled' = IF Live(c) THEN settled \cup {n} ELSE settled \ {n},
         UNCHANGED <<owner, anchor, phoneEdge, nameIndex, front, proved>>
  PROVE  MemoryInv' /\ Extends
<1>0. TypeOK /\ DOMAIN plural = Names /\ c # NoCid
  BY KeysAssumption DEF MemoryInv, EntityInv, PluralRefs
<1>1. \A m \in Names : /\ unique'[m] = IF m = n THEN c ELSE unique[m]
                       /\ plural'[m] = IF m = n THEN {} ELSE plural[m]
  BY <1>0 DEF RecordUnique, TypeOK
<1>2. EntityInv'
  <2>1. TypeOK'
    BY <1>0 DEF TypeOK, RecordUnique
  <2>2. RowsLive' /\ AnchorIsCurrent' /\ MintedKeyIsKnown'
    BY DEF MemoryInv, EntityInv, RowsLive, AnchorIsCurrent, MintedKeyIsKnown, Live,
       LiveCids, Known, Members
  <2> QED BY <2>1, <2>2 DEF EntityInv
<1>3. RowsProved'
  BY DEF MemoryInv, RowsProved, RowProof, Establishing
<1>4. UniqueProved'
  BY <1>1 DEF MemoryInv, UniqueProved, NameProof, Live
<1>5. SettledKept'
  BY <1>0, <1>1 DEF MemoryInv, SettledKept, Live
<1>6. PluralRefs'
  BY <1>0, <1>1 DEF MemoryInv, PluralRefs, RecordUnique
<1>7. FrontMemory'
  BY <1>1 DEF MemoryInv, FrontMemory, UniqueLive, Minted, Known, Live, LiveCids
<1>8. Extends
  BY DEF Extends, Known, Live
<1> QED BY <1>2, <1>3, <1>4, <1>5, <1>6, <1>7, <1>8 DEF MemoryInv

\* An answer is indexed: its entity is there, and has a key the hub gave.
LEMMA IndexMemory ==
  ASSUME MemoryInv, NEW titles \in SUBSET Titles, NEW Q \in SUBSET Tokens,
         NEW c \in Cids, Live(c), NEW found, NEW k \in found \cap Identity, owner[k] = c,
         nameIndex' = nameIndex \cup UNION {IndexRows(t, Q, c) : t \in titles},
         proved' = proved \cup (titles \X {Q} \X found),
         UNCHANGED <<owner, anchor, phoneEdge, unique, plural, front, settled>>
  PROVE  MemoryInv' /\ Extends
<1>0. TypeOK
  BY DEF MemoryInv, EntityInv
<1>1. \A t \in titles : \A row \in IndexRows(t, Q, c) :
        row \in Names \X Cids /\ row[1][1] = t /\ row[2] = c
  BY NamesAssumption DEF IndexRows, NameKeys
<1>2. \A row \in nameIndex' :
        row \in nameIndex \/ (row \in Names \X Cids /\ row[1][1] \in titles /\ row[2] = c)
  BY <1>1
<1>3. EntityInv'
  <2>1. TypeOK'
    BY <1>0, <1>2 DEF TypeOK
  <2>2. RowsLive'
    BY <1>2 DEF MemoryInv, EntityInv, RowsLive, Live
  <2>3. AnchorIsCurrent' /\ MintedKeyIsKnown'
    BY DEF MemoryInv, EntityInv, AnchorIsCurrent, MintedKeyIsKnown, Live, LiveCids, Known,
       Members
  <2> QED BY <2>1, <2>2, <2>3 DEF EntityInv
<1>4. \A t, e : Establishing(t, e) \subseteq Establishing(t, e)'
  BY DEF Establishing
<1>5. RowsProved'
  <2> SUFFICES ASSUME NEW row \in nameIndex' PROVE RowProof(row[1][1], row[2])'
    BY DEF RowsProved
  <2>1. CASE row \in nameIndex
    <3>1. PICK proof \in proved :
            /\ proof[1] = row[1][1] /\ proof[2] \subseteq Establishing(row[1][1], row[2])
            /\ proof[3] \in Identity /\ owner[proof[3]] = row[2]
      BY <2>1 DEF MemoryInv, RowsProved, RowProof
    <3> QED BY <1>4, <3>1 DEF RowProof
  <2>2. CASE row \notin nameIndex
    <3>1. PICK t \in titles : row[1][1] = t /\ row[2] = c
      BY <1>2, <2>2
    <3>2. <<t, Q, k>> \in proved'
      OBVIOUS
    <3>3. Q \subseteq Establishing(t, c)'
      <4> SUFFICES ASSUME NEW x \in Q PROVE x \in Establishing(t, c)'
        OBVIOUS
      <4>1. <<<<t, {x}>>, c>> \in nameIndex'
        BY DEF IndexRows
      <4> QED BY <4>1 DEF Establishing
    <3>4. /\ <<t, Q, k>>[1] = t /\ <<t, Q, k>>[2] = Q /\ <<t, Q, k>>[3] = k
          /\ k \in Identity /\ owner'[k] = c
      OBVIOUS
    <3> QED BY <3>1, <3>2, <3>3, <3>4 DEF RowProof
  <2> QED BY <2>1, <2>2
<1>6. UniqueProved'
  BY DEF MemoryInv, UniqueProved, NameProof, Live
<1>7. SettledKept' /\ PluralRefs'
  BY DEF MemoryInv, SettledKept, PluralRefs, Live
<1>8. FrontMemory'
  BY DEF MemoryInv, FrontMemory, UniqueLive, Minted, Known, Live, LiveCids
<1>9. Extends
  BY DEF Extends, Known, Live
<1> QED BY <1>3, <1>5, <1>6, <1>7, <1>8, <1>9 DEF MemoryInv

-----------------------------------------------------------------------------
(***************************************************************************)
(* Reading the memory.                                                     *)
(***************************************************************************)

\* An entity with an identity key is anchored at one.
LEMMA IdentityAnchor ==
  ASSUME EntityInv, NEW k \in Identity, Live(owner[k]), owner[k] \in Cids
  PROVE  anchor[owner[k]] \in Identity
<1>1. k \in Members(owner[k])
  BY DEF Members, StrongKeys
<1>2. IsEntityAnchor(anchor[owner[k]], Members(owner[k]))
  BY DEF EntityInv, AnchorIsCurrent, LiveCids
<1> QED BY <1>1, <1>2 DEF IsEntityAnchor, IsStrongest

\* A lookup never fails; an answer rests on a hub's; a candidate's ref is an identity key;
\* what was settled is found.
LEMMA LookupFacts ==
  ASSUME MemoryInv, NEW t \in Titles, NEW Q \in SUBSET Tokens
  PROVE  LET found == Lookup(t, Q)
         IN  /\ found.is # "error"
             /\ found.is = "one" =>
                  \E proof \in proved : /\ proof[1] = t
                                        /\ owner[proof[3]] = found.cid
                                        /\ Q = {} \/ proof[2] \subseteq Q
             /\ found.is = "many" => \A candidate \in found.among : candidate.anchor \in Identity
             /\ <<t, Q>> \in settled => found.is # "none"
<1> DEFINE n == <<t, Q>>
           matched == Matched(t, Q)
           fallback == LiveUnique(n)
           c == CHOOSE c \in matched : TRUE
<1>0. n \in Names /\ n[1] = t /\ n[2] = Q /\ t # NoTitle
  BY NamesAssumption DEF NameKeys
<1>1. matched \subseteq Indexed(t)
  BY DEF Matched, Covered, Touched
<1>2. ASSUME NEW e \in Indexed(t) PROVE e \in Cids /\ Live(e) /\ RowProof(t, e)
  <2>1. PICK row \in nameIndex : row[1][1] = t /\ row[2] = e
    BY <1>2 DEF Indexed
  <2> QED BY <2>1 DEF MemoryInv, EntityInv, TypeOK, RowsLive, RowsProved
<1>3. CASE plural[n] # {}
  <2>1. Lookup(t, Q) = Many(plural[n])
    BY <1>3 DEF Lookup
  <2> QED BY <1>0, <1>3, <2>1 DEF Many, MemoryInv, PluralRefs
<1>4. CASE plural[n] = {} /\ Cardinality(matched) = 1
  <2>1. Lookup(t, Q) = One(c)
    BY <1>4 DEF Lookup
  <2>2. matched # {}
    BY <1>4, FS_EmptySet
  <2>3. c \in matched
    BY <2>2
  <2> HIDE DEF c
  <2>4. Live(c) /\ RowProof(t, c) /\ c \in Indexed(t)
    BY <1>1, <1>2, <2>3
  <2>5. Q = {} \/ Establishing(t, c) \subseteq Q
    <3>1. CASE Covered(t, Q) # {}
      BY <2>3, <3>1 DEF Matched, Covered
    <3>2. CASE Q # {} /\ Covered(t, Q) = {}
      <4>1. Cardinality(Touched(t, Q)) >= 2 /\ matched = Touched(t, Q)
        BY <2>2, <3>2 DEF Matched
      <4> QED BY <1>4, <4>1
    <3> QED BY <3>1, <3>2
  <2>6. One(c).is = "one" /\ One(c).cid = c
    BY <2>4 DEF One
  <2> QED BY <2>1, <2>4, <2>5, <2>6 DEF RowProof
<1>5. CASE plural[n] = {} /\ Cardinality(matched) # 1 /\ Cardinality(matched) > 1
  <2> DEFINE among == {Candidate(e) : e \in matched \cap LiveCids}
  <2>1. Lookup(t, Q) = Many(among)
    BY <1>5 DEF Lookup
  <2>2. ASSUME NEW e \in matched PROVE Candidate(e).anchor \in Identity
    <3>1. PICK proof \in proved : proof[3] \in Identity /\ owner[proof[3]] = e
      BY <1>1, <1>2 DEF RowProof
    <3> QED BY <1>1, <1>2, <3>1, IdentityAnchor DEF Candidate, MemoryInv
  <2>3. \A candidate \in among : candidate.anchor \in Identity
    BY <2>2
  <2> HIDE DEF among
  <2> QED BY <2>1, <2>3 DEF Many
<1>6. CASE plural[n] = {} /\ Cardinality(matched) # 1 /\ ~ (Cardinality(matched) > 1)
  <2>1. Lookup(t, Q) = IF fallback # NoCid THEN One(fallback) ELSE Nothing
    BY <1>6 DEF Lookup
  <2>2. CASE fallback # NoCid
    <3>1. fallback = unique[n] /\ unique[n] # NoCid /\ Live(unique[n])
      BY <2>2 DEF LiveUnique
    <3>2. PICK proof \in proved : /\ proof[1] = t /\ proof[2] = Q
                                  /\ owner[proof[3]] = fallback
      BY <1>0, <3>1 DEF MemoryInv, UniqueProved, NameProof
    <3> HIDE DEF n, fallback
    <3>3. One(fallback).is = "one" /\ One(fallback).cid = fallback
      BY <3>1 DEF One
    <3> QED BY <2>1, <2>2, <3>2, <3>3
  <2>3. CASE fallback = NoCid
    <3>1. Lookup(t, Q) = Nothing
      BY <2>1, <2>3
    <3>2. n \notin settled
      BY <1>6, <2>3 DEF MemoryInv, SettledKept, LiveUnique
    <3> QED BY <3>1, <3>2 DEF Nothing
  <2> QED BY <2>2, <2>3
<1> QED BY <1>3, <1>4, <1>5, <1>6

-----------------------------------------------------------------------------
(***************************************************************************)
(* The invariant: a request's part.                                        *)
(***************************************************************************)

\* The bound entity r carries to the index: an id that was minted; while it is there, it
\* has an identity key the hub gave.
Carried(r) ==
  /\ r.cid \in Cids
  /\ front = "worker" => Minted(r.cid)
  /\ Live(r.cid) => \E k \in r.found \cap Identity : owner[k] = r.cid

\* No key of the graph is stored in a form that does not parse as a reference.
NoUrlKeys == \A k \in StrongKeys : Kind[k] # "url"

Fields == {"at", "ask", "cid", "among", "found", "sole", "day", "used", "echo"}

\* The locals r of a request, by where it is.
LocalOK(r) ==
  /\ Fields \subseteq DOMAIN r
  /\ r.at \notin {"idle", "resolved", "refused"} => r.ask \in Requests
  /\ r.at \in {"look", "reserve"} => r.ask.title # NoTitle \/ Website(r.ask) # {}
  /\ r.at \in {"search", "asking", "remember"} => r.ask.title # NoTitle
  /\ r.at \in {"bind", "enrich", "index", "remember"} =>
       r.found \subseteq StrongKeys /\ r.found \cap Identity # {}
  /\ r.at \in {"enrich", "index", "remember"} => Carried(r)
  /\ r.at \in {"enrich", "remember"} /\ front = "cli" => Live(r.cid)
  /\ r.at = "remember" => \A k \in r.found : <<r.ask.title, r.ask.quals, k>> \in proved
  /\ r.at = "ambiguous" => \A candidate \in r.among : candidate.anchor \in Identity
  /\ NoUrlKeys /\ r.echo =>
       /\ r.at \in {"ids", "completing", "resolved"}
       /\ r.at = "ids" => r.ask.ids \cap Identity # {}

\* On the command line only the operator has a request under way.
LocalsInv ==
  /\ DOMAIN req = Clients
  /\ \A p \in Clients : LocalOK(req[p])
  /\ front = "cli" => \A o \in Clients \ {Operator} : Resting(o)

AnswerInv == MemoryInv /\ LocalsInv

\* What carries an id to the index still does when the memory is extended.
LEMMA CarriedOn ==
  ASSUME NEW r, Carried(r), Extends, r.found \subseteq StrongKeys,
         front = "worker" \/ Live(r.cid), MemoryInv
  PROVE  Carried(r)'
<1>1. r.cid \in Cids /\ front' = front
  BY DEF Carried, Extends
<1>2. front = "worker" => Minted(r.cid)'
  BY DEF Carried, Extends, Minted
<1>3. ASSUME Live(r.cid)' PROVE \E k \in r.found \cap Identity : owner'[k] = r.cid
  <2>1. Minted(r.cid) \/ Live(r.cid)
    BY DEF Carried
  <2>2. Live(r.cid) /\ \A k \in Known : owner[k] = r.cid => owner'[k] = r.cid
    BY <1>1, <1>3, <2>1 DEF Extends
  <2>3. PICK k \in r.found \cap Identity : owner[k] = r.cid
    BY <2>2 DEF Carried
  <2>4. k \in Known
    BY <1>1, <2>3, KeysAssumption DEF Known
  <2> QED BY <2>2, <2>3, <2>4
<1> QED BY <1>1, <1>2, <1>3 DEF Carried

\* A request that no step moves stays as it should be when the memory is extended.
LEMMA LocalKept ==
  ASSUME NEW r, LocalOK(r), Extends, MemoryInv,
         front = "cli" => r.at \in Ends
  PROVE  LocalOK(r)'
<1>1. front' = front /\ proved \subseteq proved' /\ front \in {"worker", "cli"}
  BY DEF Extends, MemoryInv, FrontMemory
<1>2. r.at \in {"enrich", "index", "remember"} => Carried(r)'
  <2> SUFFICES ASSUME r.at \in {"enrich", "index", "remember"} PROVE Carried(r)'
    OBVIOUS
  <2>1. front = "worker"
    BY <1>1 DEF Ends
  <2>2. Carried(r) /\ r.found \subseteq StrongKeys
    BY DEF LocalOK
  <2> QED BY <2>1, <2>2, CarriedOn
<1>3. r.at \in {"enrich", "remember"} => front # "cli"
  BY DEF Ends
<1> QED BY <1>1, <1>2, <1>3 DEF LocalOK

\* Goes moves p alone: to r, or to an answer, which keeps what the caller sees of it.
LEMMA GoesLocal ==
  ASSUME DOMAIN req = Clients, NEW p \in Clients, NEW r, Goes(p, r), LocalOK(r)'
  PROVE  /\ DOMAIN req' = Clients
         /\ \A o \in Clients \ {p} : req'[o] = req[o]
         /\ req'[p].at = r.at
         /\ LocalOK(req[p])'
<1>1. DOMAIN req' = Clients /\ \A o \in Clients \ {p} : req'[o] = req[o]
  BY DEF Goes
<1>2. Fields \subseteq DOMAIN r
  BY DEF LocalOK
<1>3. CASE r.at = "ambiguous"
  <2>1. req'[p] = [Rest EXCEPT !.at = r.at, !.ask = r.ask, !.among = r.among, !.echo = r.echo]
    BY <1>3 DEF Goes
  <2>2. /\ req'[p].at = r.at /\ req'[p].ask = r.ask /\ req'[p].among = r.among
        /\ req'[p].echo = r.echo /\ Fields \subseteq DOMAIN req'[p]
    BY <2>1 DEF Rest, Fields
  <2> QED BY <1>1, <1>3, <2>2 DEF LocalOK
<1>4. CASE r.at \in Ends \ {"ambiguous"}
  <2>1. req'[p] = [Rest EXCEPT !.at = r.at, !.echo = r.echo]
    BY <1>4 DEF Goes
  <2>2. req'[p].at = r.at /\ req'[p].echo = r.echo /\ Fields \subseteq DOMAIN req'[p]
    BY <2>1 DEF Rest, Fields
  <2> QED BY <1>1, <1>4, <2>2 DEF LocalOK, Ends
<1>5. CASE r.at \notin Ends
  <2>1. req'[p] = r
    BY <1>5 DEF Goes, Ends
  <2> QED BY <1>1, <2>1 DEF LocalOK, Carried, Minted, Live, Known
<1> QED BY <1>3, <1>4, <1>5 DEF Ends

\* A step that moves p alone, to locals that are as they should be, while it extends the
\* memory.
LEMMA StepKeeps ==
  ASSUME AnswerInv, NEW p \in Clients, front = "cli" => p = Operator,
         MemoryInv', Extends, NEW r, Goes(p, r), LocalOK(r)'
  PROVE  AnswerInv'
<1>1. /\ DOMAIN req' = Clients
      /\ \A o \in Clients \ {p} : req'[o] = req[o]
      /\ LocalOK(req[p])'
  BY GoesLocal DEF AnswerInv, LocalsInv
<1>2. front' = front
  BY DEF Extends
<1>3. ASSUME NEW o \in Clients \ {p} PROVE LocalOK(req[o])'
  <2>1. PICK s : s = req[o]
    OBVIOUS
  <2>2. LocalOK(s)
    BY <2>1 DEF AnswerInv, LocalsInv
  <2>3. front = "cli" => s.at \in Ends
    BY <2>1 DEF AnswerInv, LocalsInv, Resting
  <2>4. LocalOK(s)'
    BY <2>2, <2>3, LocalKept DEF AnswerInv
  <2>5. req'[o] = s
    BY <1>1, <2>1
  <2> QED BY <2>4, <2>5 DEF LocalOK, Carried, Minted, Live, Known
<1>4. ASSUME front = "cli", NEW o \in Clients \ {Operator} PROVE Resting(o)'
  BY <1>1, <1>4 DEF AnswerInv, LocalsInv, Resting
<1> QED BY <1>1, <1>2, <1>3, <1>4 DEF AnswerInv, LocalsInv

\* On the command line a request under way is the operator's.
LEMMA ActorIsOperator ==
  ASSUME AnswerInv, NEW p \in Clients, ~ Resting(p)
  PROVE  front = "cli" => p = Operator
BY DEF AnswerInv, LocalsInv

\* p ends without candidates.
LEMMA EndKeeps ==
  ASSUME AnswerInv, NEW p \in Clients, front = "cli" => p = Operator, MemoryInv', Extends,
         NEW r, Goes(p, r), Fields \subseteq DOMAIN r, r.at \in {"idle", "resolved", "refused"},
         NoUrlKeys /\ r.echo => r.at = "resolved"
  PROVE  AnswerInv'
<1>1. LocalOK(r)'
  BY DEF LocalOK
<1> QED BY <1>1, StepKeeps

\* p moves to its end.
LEMMA MovesToEnd ==
  ASSUME AnswerInv, NEW p \in Clients, ~ Resting(p), MemoryInv', Extends,
         NEW at \in {"resolved", "refused"}, Moves(p, at),
         NoUrlKeys /\ req[p].echo => at = "resolved"
  PROVE  AnswerInv'
<1>1. PICK r : r = [req[p] EXCEPT !.at = at]
  OBVIOUS
<1>2. Fields \subseteq DOMAIN req[p]
  BY DEF AnswerInv, LocalsInv, LocalOK
<1>3. Fields \subseteq DOMAIN r /\ r.at = at /\ r.echo = req[p].echo
  BY <1>1, <1>2 DEF Fields
<1>4. Goes(p, r)
  BY <1>1 DEF Moves
<1> QED BY <1>3, <1>4, EndKeeps, ActorIsOperator

\* p answers with candidates whose refs are identity keys.
LEMMA AnswersManyKeeps ==
  ASSUME AnswerInv, NEW p \in Clients, ~ Resting(p), MemoryInv', Extends,
         NEW candidates, \A candidate \in candidates : candidate.anchor \in Identity,
         AnswersMany(p, candidates), ~ (NoUrlKeys /\ req[p].echo)
  PROVE  AnswerInv'
<1>1. PICK r : r = [req[p] EXCEPT !.at = "ambiguous", !.among = candidates]
  OBVIOUS
<1>2. Fields \subseteq DOMAIN req[p] /\ req[p].ask \in Requests
  BY DEF AnswerInv, LocalsInv, LocalOK, Resting, Ends
<1>3. /\ Fields \subseteq DOMAIN r /\ r.at = "ambiguous" /\ r.among = candidates
      /\ r.ask = req[p].ask /\ r.echo = req[p].echo
  BY <1>1, <1>2 DEF Fields
<1>4. Goes(p, r)
  BY <1>1 DEF AnswersMany
<1>5. LocalOK(r)'
  BY <1>2, <1>3 DEF LocalOK
<1> QED BY <1>4, <1>5, StepKeeps, ActorIsOperator

\* p answers from a lookup that found something.
LEMMA AnswersKeep ==
  ASSUME AnswerInv, NEW p \in Clients, ~ Resting(p), MemoryInv', Extends,
         LookupOf(req[p].ask).is # "none", Answers(p, LookupOf(req[p].ask)),
         ~ (NoUrlKeys /\ req[p].echo)
  PROVE  AnswerInv'
<1> DEFINE ask == req[p].ask
           found == LookupOf(ask)
<1>1. Fields \subseteq DOMAIN req[p] /\ ask \in Requests
  BY DEF AnswerInv, LocalsInv, LocalOK, Resting, Ends
<1>2. ask.title \in Titles /\ ask.quals \in SUBSET Tokens /\ found = Lookup(ask.title, ask.quals)
  BY <1>1 DEF LookupOf, Nothing, Requests
<1>3. /\ found.is # "error"
      /\ found.is = "many" => \A candidate \in found.among : candidate.anchor \in Identity
  <2>1. PICK t \in Titles, Q \in SUBSET Tokens : found = Lookup(t, Q)
    BY <1>2
  <2> HIDE DEF found
  <2> QED BY <2>1, LookupFacts DEF AnswerInv
<1>4. found.is \in {"one", "many", "error", "none"}
  <2>1. \A c : One(c).is \in {"one", "error"}
    BY DEF One
  <2>2. \A candidates : Many(candidates).is = "many"
    BY DEF Many
  <2>3. Nothing.is = "none"
    BY DEF Nothing
  <2> HIDE DEF ask
  <2> QED BY <1>2, <2>1, <2>2, <2>3 DEF Lookup
<1>5. CASE found.is = "one"
  <2>1. PICK r : r = [req[p] EXCEPT !.at = "resolved", !.cid = found.cid]
    OBVIOUS
  <2>2. Fields \subseteq DOMAIN r /\ r.at = "resolved"
    BY <1>1, <2>1 DEF Fields
  <2>3. Goes(p, r)
    BY <1>5, <2>1 DEF Answers
  <2> QED BY <2>2, <2>3, EndKeeps, ActorIsOperator
<1>6. CASE found.is = "many"
  <2>1. AnswersMany(p, found.among)
    BY <1>6 DEF Answers
  <2> QED BY <1>3, <1>6, <2>1, AnswersManyKeeps
<1> QED BY <1>3, <1>4, <1>5, <1>6

-----------------------------------------------------------------------------
(***************************************************************************)
(* The steps of a request.                                                 *)
(***************************************************************************)

\* A new request, of a caller or by a candidate's ref.
LEMMA BeginsKeeps ==
  ASSUME AnswerInv, NEW p \in Clients, front = "worker", NEW ask \in Requests, NEW echo,
         Begins(p, ask, echo), NoUrlKeys /\ echo => ask.ids \cap Identity # {},
         MemoryInv', Extends
  PROVE  AnswerInv'
<1> DEFINE at == CASE ~ Usable(ask)  -> "refused"
                   [] ask.ids # {}  -> "ids"
                   [] OTHER         -> "look"
<1>1. PICK r : r = [Rest EXCEPT !.ask = ask, !.echo = echo, !.at = at]
  OBVIOUS
<1>2. Goes(p, r)
  BY <1>1 DEF Begins
<1>3. /\ at \in {"refused", "ids", "look"}
      /\ ask.ids # {} => at = "ids"
      /\ at = "look" => ask.title # NoTitle
  BY DEF Usable
<1> HIDE DEF at
<1>4. Fields \subseteq DOMAIN r /\ r.at = at /\ r.ask = ask /\ r.echo = echo
  BY <1>1 DEF Fields, Rest
<1>5. LocalOK(r)'
  BY <1>3, <1>4 DEF LocalOK
<1> QED BY <1>2, <1>5, StepKeeps DEF AnswerInv, MemoryInv, FrontMemory

\* A caller's request, or its second one with a candidate's ref for identifiers.
LEMMA AskKeeps ==
  ASSUME AnswerInv, NEW p \in Clients, Ask(p) \/ AskAgain(p)
  PROVE  AnswerInv'
<1>1. MemoryInv' /\ Extends
  BY SameMemory DEF AnswerInv, Ask, AskAgain, Keeps
<1>2. CASE Ask(p)
  <2>1. PICK ask \in Asks : Begins(p, ask, FALSE)
    BY <1>2 DEF Ask
  <2>2. ask \in Requests /\ front = "worker"
    BY <1>2, RequestAssumption DEF Ask
  <2> QED BY <1>1, <2>1, <2>2, BeginsKeeps
<1>3. CASE AskAgain(p)
  <2>1. PICK pick \in req[p].among :
          Begins(p, [req[p].ask EXCEPT !.ids = RefIds(pick.anchor)], TRUE)
    BY <1>3 DEF AskAgain
  <2>2. PICK ask : ask = [req[p].ask EXCEPT !.ids = RefIds(pick.anchor)]
    OBVIOUS
  <2>3. req[p].ask \in Requests /\ pick.anchor \in Identity
    BY <1>3 DEF AskAgain, AnswerInv, LocalsInv, LocalOK
  <2>4. RefIds(pick.anchor) \in SUBSET StrongKeys
    BY <2>3 DEF RefIds, StrongKeys
  <2>5. ask \in Requests /\ ask.ids = RefIds(pick.anchor)
    <3> HIDE DEF RefIds
    <3> QED BY <2>2, <2>3, <2>4 DEF Requests
  <2>6. NoUrlKeys => ask.ids \cap Identity # {}
    BY <2>3, <2>5 DEF NoUrlKeys, RefIds, StrongKeys
  <2>7. front = "worker" /\ Begins(p, ask, TRUE)
    BY <1>3, <2>1, <2>2 DEF AskAgain
  <2> QED BY <1>1, <2>5, <2>6, <2>7, BeginsKeeps
<1> QED BY <1>2, <1>3

\* A command of the operator.
LEMMA RunCommandKeeps ==
  ASSUME AnswerInv, NEW p \in Clients, RunCommand(p)
  PROVE  AnswerInv'
<1>0. MemoryInv' /\ Extends /\ p = Operator
  BY SameMemory DEF AnswerInv, RunCommand, Keeps
<1>1. PICK ask \in Asks, complete \in BOOLEAN :
        LET s == [Rest EXCEPT !.ask = ask]
            found == LookupOf(ask)
        IN  /\ Usable(ask)
            /\ \/ /\ ask.ids # {} /\ complete
                  /\ Goes(p, [s EXCEPT !.at = "site"])
               \/ /\ ask.ids = {} /\ complete
                  /\ Goes(p, [s EXCEPT !.at = "search"])
               \/ /\ ask.ids = {} /\ ~ complete
                  /\ Goes(p, [s EXCEPT
                       !.at = CASE found.is = "one"  -> "resolved"
                                [] found.is = "many" -> "ambiguous"
                                [] OTHER             -> "refused",
                       !.among = found.among])
  BY DEF RunCommand
<1>2. ask \in Requests
  BY RequestAssumption
<1> DEFINE found == LookupOf(ask)
           at == CASE found.is = "one"  -> "resolved"
                   [] found.is = "many" -> "ambiguous"
                   [] OTHER             -> "refused"
<1>3. CASE ask.ids # {} /\ Goes(p, [[Rest EXCEPT !.ask = ask] EXCEPT !.at = "site"])
  <2>1. PICK r : r = [[Rest EXCEPT !.ask = ask] EXCEPT !.at = "site"]
    OBVIOUS
  <2>2. Fields \subseteq DOMAIN r /\ r.at = "site" /\ r.ask = ask /\ r.echo = FALSE
    BY <2>1 DEF Fields, Rest
  <2>3. LocalOK(r)'
    BY <1>2, <2>2 DEF LocalOK
  <2> QED BY <1>0, <1>3, <2>1, <2>3, StepKeeps
<1>4. CASE ask.ids = {} /\ Goes(p, [[Rest EXCEPT !.ask = ask] EXCEPT !.at = "search"])
  <2>1. PICK r : r = [[Rest EXCEPT !.ask = ask] EXCEPT !.at = "search"]
    OBVIOUS
  <2>2. Fields \subseteq DOMAIN r /\ r.at = "search" /\ r.ask = ask /\ r.echo = FALSE
    BY <2>1 DEF Fields, Rest
  <2>3. ask.title # NoTitle
    BY <1>1, <1>4 DEF Usable
  <2>4. LocalOK(r)'
    BY <1>2, <2>2, <2>3 DEF LocalOK
  <2> QED BY <1>0, <1>4, <2>1, <2>4, StepKeeps
<1>5. CASE Goes(p, [[Rest EXCEPT !.ask = ask] EXCEPT !.at = at, !.among = found.among])
  <2>1. PICK r : r = [[Rest EXCEPT !.ask = ask] EXCEPT !.at = at, !.among = found.among]
    OBVIOUS
  <2>2. /\ at \in {"resolved", "ambiguous", "refused"}
        /\ at = "ambiguous" => found.is = "many"
    OBVIOUS
  <2>3. found.is = "many" => \A candidate \in found.among : candidate.anchor \in Identity
    <3> SUFFICES ASSUME found.is = "many"
                 PROVE  \A candidate \in found.among : candidate.anchor \in Identity
      OBVIOUS
    <3>1. PICK t \in Titles, Q \in SUBSET Tokens : found = Lookup(t, Q)
      BY <1>2 DEF LookupOf, Nothing, Requests
    <3> HIDE DEF found
    <3> QED BY <3>1, LookupFacts DEF AnswerInv
  <2>4. /\ Fields \subseteq DOMAIN r /\ r.at = at /\ r.ask = ask /\ r.echo = FALSE
        /\ r.among = found.among
    <3> HIDE DEF at, found
    <3> QED BY <2>1 DEF Fields, Rest
  <2> HIDE DEF at, found
  <2>5. LocalOK(r)'
    BY <1>2, <2>2, <2>3, <2>4 DEF LocalOK
  <2> QED BY <1>0, <1>5, <2>1, <2>5, StepKeeps
<1> QED BY <1>1, <1>3, <1>4, <1>5

\* The request dies.
LEMMA DiesKeeps ==
  ASSUME AnswerInv, NEW p \in Clients, Dies(p)
  PROVE  AnswerInv'
<1>1. MemoryInv' /\ Extends
  BY SameMemory DEF AnswerInv, Dies, Keeps
<1>2. PICK r : r = Rest
  OBVIOUS
<1>3. Fields \subseteq DOMAIN r /\ r.at = "idle" /\ r.echo = FALSE
  BY <1>2 DEF Rest, Fields
<1> QED BY <1>1, <1>2, <1>3, EndKeeps, ActorIsOperator DEF Dies

\* Keys of a kind that is not domain are identity keys.
LEMMA KindsIdentity ==
  ASSUME NEW kinds, "domain" \notin kinds
  PROVE  KeysOfKinds(kinds) \subseteq Identity
BY GrainAssumption DEF KeysOfKinds, StrongKeys

\* The keys hubs answer with are identity keys.
LEMMA HubKeysIdentity ==
  Places \cup Films \cup Items \cup Publishers \cup Placekeys \subseteq Identity
<1>1. \A kinds \in {{"google_place_id"}, {"tmdb", "url"}, {"wikidata"}, {"placekey"}} :
        "domain" \notin kinds
  OBVIOUS
<1> QED BY <1>1, KindsIdentity DEF Places, Films, Items, Publishers, Placekeys

\* What a search by name leaves are identity keys.
LEMMA SearchIdentity ==
  ASSUME NEW ask, NEW F \in SearchResults(ask)
  PROVE  F \subseteq Identity
<1>1. \A Q, G : NarrowedBy(Q, G) \subseteq G
  BY DEF NarrowedBy, SelfDescribed
<1>2. \A others, G : NarrowedTo(others, G) \subseteq G
  BY DEF NarrowedTo
<1>3. \A G \in ItemResults(ask) : G \subseteq Items
  <2>1. ASSUME NEW G \in SUBSET Items PROVE NarrowedBy(ask.quals, G) \subseteq Items
    BY <1>1
  <2>2. ASSUME NEW G \in SUBSET Items, NEW others
        PROVE  NarrowedTo(others, NarrowedBy(ask.quals, G)) \subseteq Items
    BY <1>1, <1>2
  <2> QED BY <2>1, <2>2 DEF ItemResults
<1>4. CASE NameHubFor(ask.type) = "places"
  BY <1>4, HubKeysIdentity DEF SearchResults
<1>5. CASE NameHubFor(ask.type) = "tmdb"
  <2>1. PICK G \in SUBSET Films : F = NarrowedBy(ask.quals, G)
    BY <1>5 DEF SearchResults
  <2> QED BY <1>1, <2>1, HubKeysIdentity
<1>6. CASE NameHubFor(ask.type) \notin {"places", "tmdb"}
  BY <1>3, <1>6, HubKeysIdentity DEF SearchResults
<1> QED BY <1>4, <1>5, <1>6

\* A candidate for an identity key: the key, or its entity's anchor.
LEMMA CandidateRef ==
  ASSUME EntityInv, NEW k \in Identity
  PROVE  CandidateOf(k).anchor \in Identity
<1>1. CASE k \in Known
  <2>1. owner[k] \in Cids /\ Live(owner[k])
    BY <1>1 DEF EntityInv, TypeOK, RowsLive, Known
  <2> QED BY <1>1, <2>1, IdentityAnchor DEF CandidateOf, Candidate
<1>2. CASE k \notin Known
  BY <1>2 DEF CandidateOf
<1> QED BY <1>1, <1>2

\* The website's domain, if any, is one, and its memory key one of the table's.
LEMMA WebsiteDomain ==
  ASSUME NEW ask \in Requests
  PROVE  /\ Website(ask) \subseteq ask.ids \cap Affiliation
         /\ \A d, e \in Website(ask) : d = e
         /\ \A d \in Website(ask) : MemoKey(d) \in Names
<1>1. \A k \in ask.ids : k \in StrongKeys
  BY DEF Requests
<1>2. Website(ask) \subseteq ask.ids \cap Affiliation
  BY <1>1, GrainAssumption DEF Website
<1>3. \A d, e \in Website(ask) : Pos[d] <= Pos[e] /\ Pos[e] <= Pos[d]
  BY DEF Website
<1>4. \A d, e \in Website(ask) : d = e
  <2> SUFFICES ASSUME NEW d \in Website(ask), NEW e \in Website(ask) PROVE d = e
    OBVIOUS
  <2>1. d \in StrongKeys /\ e \in StrongKeys
    BY <1>1, <1>2
  <2>2. Pos[d] \in Nat /\ Pos[e] \in Nat
    BY <2>1, KeysAssumption
  <2>3. Pos[d] = Pos[e]
    BY <1>3, <2>2
  <2> QED BY <2>1, <2>3, KeysAssumption
<1> QED BY <1>2, <1>4, NamesAssumption DEF NameKeys

\* Step 1: the identifiers are committed, or refused with the identity-bearing owners of
\* their domains for candidates.
LEMMA IdsKeep ==
  ASSUME HashInjective, AnswerInv, NEW p \in Clients, CommitIds(p) \/ RefuseIds(p)
  PROVE  AnswerInv'
<1>1. /\ Fields \subseteq DOMAIN req[p] /\ req[p].ask \in Requests /\ req[p].at = "ids"
      /\ NoUrlKeys /\ req[p].echo => req[p].ask.ids \cap Identity # {}
  BY DEF AnswerInv, LocalsInv, LocalOK, CommitIds, RefuseIds
<1>2. ~ Resting(p)
  BY <1>1 DEF Resting, Ends
<1>3. CASE CommitIds(p)
  <2>1. AskedRecord(p) \in AnyRecord
    BY <1>1 DEF AskedRecord, AnyRecord, Requests
  <2>2. MemoryInv' /\ Extends
    <3>1. PICK a \in AnyRecord : a = AskedRecord(p)
      BY <2>1
    <3> QED BY <1>3, <3>1, CommitMemory DEF CommitIds, Keeps, AnswerInv
  <2> DEFINE at == IF NewEdges(AskedRecord(p)) /\ OrgShaped(req[p].ask.type)
                     THEN "completing" ELSE "resolved"
  <2>3. PICK c \in Cids : Goes(p, [req[p] EXCEPT !.cid = c, !.at = at])
    BY <1>3 DEF CommitIds
  <2>4. PICK r : r = [req[p] EXCEPT !.cid = c, !.at = at]
    OBVIOUS
  <2>5. at \in {"completing", "resolved"} /\ Goes(p, r)
    BY <2>3, <2>4
  <2> HIDE DEF at
  <2>6. Fields \subseteq DOMAIN r /\ r.at = at /\ r.ask = req[p].ask
    BY <1>1, <2>4 DEF Fields
  <2>7. LocalOK(r)'
    BY <1>1, <2>5, <2>6 DEF LocalOK
  <2> QED BY <1>2, <2>2, <2>5, <2>7, StepKeeps, ActorIsOperator
<1>4. CASE RefuseIds(p)
  <2>1. MemoryInv' /\ Extends
    BY <1>4, SameMemory DEF RefuseIds, Keeps, AnswerInv
  <2> DEFINE bearing == {c \in Hits(req[p].ask.ids) : IdMembers(c) # {}}
             candidates == {Candidate(c) : c \in bearing}
  <2>2. ~ (NoUrlKeys /\ req[p].echo)
    BY <1>1, <1>4 DEF RefuseIds, Refused, AskedRecord
  <2>3. CASE AnswersMany(p, candidates)
    <3>1. ASSUME NEW c \in bearing PROVE Candidate(c).anchor \in Identity
      <4>1. PICK k \in Identity : owner[k] = c
        BY DEF IdMembers, Members
      <4>2. c \in Cids /\ Live(c)
        BY HitsLive DEF AnswerInv, MemoryInv, LiveCids
      <4> QED BY <4>1, <4>2, IdentityAnchor DEF Candidate, AnswerInv, MemoryInv
    <3>2. \A candidate \in candidates : candidate.anchor \in Identity
      BY <3>1
    <3> HIDE DEF candidates
    <3> QED BY <1>2, <2>1, <2>2, <2>3, <3>2, AnswersManyKeeps
  <2>4. CASE Moves(p, "refused")
    BY <1>2, <2>1, <2>2, <2>4, MovesToEnd
  <2>5. CASE /\ Moves(p, "look")
             /\ req[p].ask.title # NoTitle \/ Website(req[p].ask) # {}
    <3>1. PICK r : r = [req[p] EXCEPT !.at = "look"]
      OBVIOUS
    <3>2. /\ Fields \subseteq DOMAIN r /\ r.at = "look" /\ r.ask = req[p].ask
          /\ r.echo = req[p].echo
      BY <1>1, <3>1 DEF Fields
    <3>3. LocalOK(r)'
      BY <1>1, <2>2, <2>5, <3>2 DEF LocalOK, Website
    <3>4. Goes(p, r)
      BY <2>5, <3>1 DEF Moves
    <3> QED BY <1>2, <2>1, <3>3, <3>4, StepKeeps, ActorIsOperator
  <2> QED BY <1>4, <2>3, <2>4, <2>5 DEF RefuseIds
<1> QED BY <1>3, <1>4

\* The local lookup.
LEMMA LookKeeps ==
  ASSUME AnswerInv, NEW p \in Clients, Look(p)
  PROVE  AnswerInv'
<1> DEFINE ask == req[p].ask
           found == LookupOf(ask)
           site == RememberedSite(ask)
<1>1. /\ Fields \subseteq DOMAIN req[p] /\ ask \in Requests /\ req[p].at = "look"
      /\ ask.title # NoTitle \/ Website(ask) # {}
      /\ ~ (NoUrlKeys /\ req[p].echo)
  BY DEF AnswerInv, LocalsInv, LocalOK, Look
<1>2. ~ Resting(p) /\ MemoryInv' /\ Extends
  BY <1>1, SameMemory DEF Resting, Ends, Look, Keeps, AnswerInv
<1>3. CASE found.is # "none"
  <2>1. Answers(p, found)
    BY <1>3 DEF Look
  <2> QED BY <1>1, <1>2, <1>3, <2>1, AnswersKeep
<1>4. CASE AnswersMany(p, site)
  <2>1. \A candidate \in site : candidate.anchor \in Identity
    BY <1>1, WebsiteDomain DEF RememberedSite, AnswerInv, MemoryInv, PluralRefs
  <2> HIDE DEF site
  <2> QED BY <1>1, <1>2, <1>4, <2>1, AnswersManyKeeps
<1>5. CASE Moves(p, "refused")
  BY <1>1, <1>2, <1>5, MovesToEnd
<1>6. CASE Goes(p, [req[p] EXCEPT !.at = "reserve", !.day = day])
  <2>1. PICK r : r = [req[p] EXCEPT !.at = "reserve", !.day = day]
    OBVIOUS
  <2>2. /\ Fields \subseteq DOMAIN r /\ r.at = "reserve" /\ r.ask = ask
        /\ r.echo = req[p].echo
    BY <1>1, <2>1 DEF Fields
  <2>3. LocalOK(r)'
    BY <1>1, <2>2 DEF LocalOK, Website
  <2> QED BY <1>2, <1>6, <2>1, <2>3, StepKeeps, ActorIsOperator
<1> QED BY <1>3, <1>4, <1>5, <1>6 DEF Look

\* The reservation.
LEMMA ReserveKeeps ==
  ASSUME AnswerInv, NEW p \in Clients, Reserve(p) \/ ReserveFails(p)
  PROVE  AnswerInv'
<1>1. /\ Fields \subseteq DOMAIN req[p] /\ req[p].ask \in Requests /\ req[p].at = "reserve"
      /\ req[p].ask.title # NoTitle \/ Website(req[p].ask) # {}
      /\ ~ (NoUrlKeys /\ req[p].echo)
  BY DEF AnswerInv, LocalsInv, LocalOK, Reserve, ReserveFails
<1>2. ~ Resting(p) /\ MemoryInv' /\ Extends
  BY <1>1, SameMemory DEF Resting, Ends, Reserve, ReserveFails, Keeps, AnswerInv
<1>3. CASE Moves(p, "refused")
  BY <1>1, <1>2, <1>3, MovesToEnd
<1>4. CASE ~ Moves(p, "refused")
  <2> DEFINE at == IF Website(req[p].ask) # {} THEN "site" ELSE "search"
             used == calls[Bucket[p]][req[p].day] + 1
  <2>1. PICK r : r = [req[p] EXCEPT !.used = used, !.at = at]
    OBVIOUS
  <2>2. Goes(p, r)
    BY <1>4, <2>1 DEF Reserve, ReserveFails
  <2>3. at \in {"site", "search"} /\ (at = "search" => req[p].ask.title # NoTitle)
    BY <1>1
  <2> HIDE DEF at, used
  <2>4. /\ Fields \subseteq DOMAIN r /\ r.at = at /\ r.ask = req[p].ask
        /\ r.echo = req[p].echo
    BY <1>1, <2>1 DEF Fields
  <2>5. LocalOK(r)'
    BY <1>1, <2>3, <2>4 DEF LocalOK
  <2> QED BY <1>2, <2>2, <2>5, StepKeeps, ActorIsOperator
<1> QED BY <1>3, <1>4

\* p goes on to a hub, or to the domain as it is.
LEMMA GoesOnKeeps ==
  ASSUME AnswerInv, NEW p \in Clients, ~ Resting(p), MemoryInv', Extends,
         NEW at \in {"search", "asking", "asking_site", "domain"}, Moves(p, at),
         at \in {"search", "asking"} => req[p].ask.title # NoTitle,
         ~ (NoUrlKeys /\ req[p].echo)
  PROVE  AnswerInv'
<1>1. PICK r : r = [req[p] EXCEPT !.at = at]
  OBVIOUS
<1>2. Fields \subseteq DOMAIN req[p] /\ req[p].ask \in Requests
  BY DEF AnswerInv, LocalsInv, LocalOK, Resting, Ends
<1>3. /\ Fields \subseteq DOMAIN r /\ r.at = at /\ r.ask = req[p].ask
      /\ r.echo = req[p].echo
  BY <1>1, <1>2 DEF Fields
<1>4. LocalOK(r)'
  BY <1>2, <1>3 DEF LocalOK
<1>5. Goes(p, r)
  BY <1>1 DEF Moves
<1> QED BY <1>4, <1>5, StepKeeps, ActorIsOperator

\* A hub's several answers are remembered and answered.
LEMMA PluralKeeps ==
  ASSUME AnswerInv, NEW p \in Clients, ~ Resting(p), ~ (NoUrlKeys /\ req[p].echo),
         NEW n \in Names, NEW F \in SUBSET Identity, Cardinality(F) > 1, Plural(p, n, F)
  PROVE  AnswerInv'
<1> DEFINE candidates == {CandidateOf(k) : k \in F}
<1>1. F # {}
  BY FS_EmptySet
<1>2. candidates # {} /\ \A candidate \in candidates : candidate.anchor \in Identity
  BY <1>1, CandidateRef DEF AnswerInv, MemoryInv
<1>3. RecordPlural(n, candidates) /\ AnswersMany(p, candidates)
  BY DEF Plural
<1> HIDE DEF candidates
<1>4. MemoryInv' /\ Extends
  BY <1>2, <1>3, PluralMemory DEF AnswerInv, Plural
<1> QED BY <1>2, <1>3, <1>4, AnswersManyKeeps

\* Step 2d: the website crosswalk.
LEMMA SiteKeeps ==
  ASSUME HashInjective, AnswerInv, NEW p \in Clients,
         GuardSite(p) \/ SiteFails(p) \/ CommitDomain(p) \/ SiteIsShared(p) \/ SiteIsFound(p)
  PROVE  AnswerInv'
<1>1. /\ Fields \subseteq DOMAIN req[p] /\ req[p].ask \in Requests
      /\ req[p].at \in {"site", "asking_site", "domain"}
      /\ ~ (NoUrlKeys /\ req[p].echo)
  BY DEF AnswerInv, LocalsInv, LocalOK, GuardSite, SiteFails, CommitDomain, SiteIsShared,
     SiteIsFound
<1>2. ~ Resting(p)
  BY <1>1 DEF Resting, Ends
<1>3. ASSUME MemoryInv', Extends, Moves(p, AfterSite(req[p].ask)) PROVE AnswerInv'
  <2>1. /\ AfterSite(req[p].ask) \in {"domain", "refused", "search"}
        /\ AfterSite(req[p].ask) = "search" => req[p].ask.title # NoTitle
    BY DEF AfterSite
  <2>2. CASE AfterSite(req[p].ask) = "refused"
    BY <1>1, <1>2, <1>3, <2>2, MovesToEnd
  <2>3. CASE AfterSite(req[p].ask) = "search"
    BY <1>1, <1>2, <1>3, <2>1, <2>3, GoesOnKeeps
  <2>4. CASE AfterSite(req[p].ask) = "domain"
    BY <1>1, <1>2, <1>3, <2>4, GoesOnKeeps
  <2> QED BY <2>1, <2>2, <2>3, <2>4
<1>4. CASE GuardSite(p)
  <2>1. MemoryInv' /\ Extends
    BY <1>4, SameMemory DEF GuardSite, Keeps, AnswerInv
  <2>2. PICK d \in Website(req[p].ask) :
          \/ Moves(p, AfterSite(req[p].ask))
          \/ AnswersMany(p, plural[MemoKey(d)])
          \/ Moves(p, "asking_site")
    BY <1>4 DEF GuardSite
  <2>3. \A candidate \in plural[MemoKey(d)] : candidate.anchor \in Identity
    BY <1>1, WebsiteDomain DEF AnswerInv, MemoryInv, PluralRefs
  <2>4. CASE AnswersMany(p, plural[MemoKey(d)])
    BY <1>1, <1>2, <2>1, <2>3, <2>4, AnswersManyKeeps
  <2>5. CASE Moves(p, "asking_site")
    BY <1>1, <1>2, <2>1, <2>5, GoesOnKeeps
  <2> QED BY <1>3, <2>1, <2>2, <2>4, <2>5
<1>5. CASE SiteFails(p)
  BY <1>3, <1>5, SameMemory DEF SiteFails, Keeps, AnswerInv
<1>6. CASE CommitDomain(p)
  <2>1. PICK a \in AnyRecord : a = [ids |-> Website(req[p].ask), phones |-> {}]
    BY <1>1, WebsiteDomain DEF AnyRecord, Requests
  <2>2. MemoryInv' /\ Extends
    BY <1>6, <2>1, CommitMemory DEF CommitDomain, Keeps, AnswerInv
  <2>3. PICK c \in Cids : Goes(p, [req[p] EXCEPT !.at = "completing", !.cid = c])
    BY <1>6 DEF CommitDomain
  <2>4. PICK r : r = [req[p] EXCEPT !.at = "completing", !.cid = c]
    OBVIOUS
  <2>5. /\ Fields \subseteq DOMAIN r /\ r.at = "completing" /\ r.ask = req[p].ask
        /\ r.echo = req[p].echo
    BY <1>1, <2>4 DEF Fields
  <2>6. LocalOK(r)'
    BY <1>1, <2>5 DEF LocalOK
  <2> QED BY <1>2, <2>2, <2>3, <2>4, <2>6, StepKeeps, ActorIsOperator
<1>7. CASE SiteIsShared(p)
  <2>1. PICK d \in Website(req[p].ask), F \in SUBSET Publishers :
          Cardinality(F) > 1 /\ Plural(p, MemoKey(d), F)
    BY <1>7 DEF SiteIsShared
  <2>2. MemoKey(d) \in Names /\ F \in SUBSET Identity
    BY <1>1, WebsiteDomain, HubKeysIdentity
  <2> QED BY <1>1, <1>2, <2>1, <2>2, PluralKeeps
<1>8. CASE SiteIsFound(p)
  <2>1. PICK d \in Website(req[p].ask), k \in Publishers :
          Goes(p, [req[p] EXCEPT !.at = "bind", !.found = {k, d}, !.sole = TRUE])
    BY <1>8 DEF SiteIsFound
  <2>2. PICK r : r = [req[p] EXCEPT !.at = "bind", !.found = {k, d}, !.sole = TRUE]
    OBVIOUS
  <2>3. /\ Fields \subseteq DOMAIN r /\ r.at = "bind" /\ r.ask = req[p].ask
        /\ r.found = {k, d} /\ r.echo = req[p].echo
    BY <1>1, <2>2 DEF Fields
  <2>4. k \in Identity /\ {k, d} \subseteq StrongKeys
    BY <1>1, HubKeysIdentity, WebsiteDomain DEF StrongKeys
  <2>5. LocalOK(r)'
    BY <1>1, <2>3, <2>4 DEF LocalOK
  <2>6. MemoryInv' /\ Extends
    BY <1>8, SameMemory DEF SiteIsFound, Keeps, AnswerInv
  <2> QED BY <1>2, <2>1, <2>2, <2>5, <2>6, StepKeeps, ActorIsOperator
<1> QED BY <1>4, <1>5, <1>6, <1>7, <1>8

\* Step 2e: the local lookup again, and the hub's answer.
LEMMA SearchKeeps ==
  ASSUME AnswerInv, NEW p \in Clients,
         SearchLocally(p) \/ SearchIsPlural(p) \/ SearchIsSingular(p)
  PROVE  AnswerInv'
<1>1. /\ Fields \subseteq DOMAIN req[p] /\ req[p].ask \in Requests
      /\ req[p].at \in {"search", "asking"} /\ req[p].ask.title # NoTitle
      /\ ~ (NoUrlKeys /\ req[p].echo)
  BY DEF AnswerInv, LocalsInv, LocalOK, SearchLocally, SearchIsPlural, SearchIsSingular
<1>2. ~ Resting(p)
  BY <1>1 DEF Resting, Ends
<1>3. CASE SearchLocally(p)
  <2>1. MemoryInv' /\ Extends
    BY <1>3, SameMemory DEF SearchLocally, Keeps, AnswerInv
  <2>2. CASE Moves(p, "asking")
    BY <1>1, <1>2, <2>1, <2>2, GoesOnKeeps
  <2>3. CASE LookupOf(req[p].ask).is # "none"
    <3>1. Answers(p, LookupOf(req[p].ask))
      BY <1>3, <2>3 DEF SearchLocally
    <3> QED BY <1>1, <1>2, <2>1, <2>3, <3>1, AnswersKeep
  <2> QED BY <1>3, <2>2, <2>3 DEF SearchLocally
<1>4. CASE SearchIsPlural(p)
  <2>1. PICK F \in SearchResults(req[p].ask) :
          /\ Cardinality(F) > 1
          /\ Plural(p, <<req[p].ask.title, req[p].ask.quals>>, F)
    BY <1>4 DEF SearchIsPlural
  <2>2. F \in SUBSET Identity
    BY SearchIdentity
  <2>3. PICK n \in Names : n = <<req[p].ask.title, req[p].ask.quals>>
    BY <1>1, NamesAssumption DEF NameKeys, Requests
  <2> QED BY <1>1, <1>2, <2>1, <2>2, <2>3, PluralKeeps
<1>5. CASE SearchIsSingular(p)
  <2>1. PICK F \in SearchResults(req[p].ask), P \in SUBSET Placekeys :
          Goes(p, [req[p] EXCEPT !.at = IF F \cup P = {} THEN "refused" ELSE "bind",
                                 !.found = F \cup P, !.sole = (F # {})])
    BY <1>5 DEF SearchIsSingular
  <2> DEFINE at == IF F \cup P = {} THEN "refused" ELSE "bind"
  <2>2. PICK r : r = [req[p] EXCEPT !.at = at, !.found = F \cup P, !.sole = (F # {})]
    OBVIOUS
  <2>3. Goes(p, r)
    BY <2>1, <2>2
  <2>4. F \cup P \subseteq Identity
    BY SearchIdentity, HubKeysIdentity
  <2>5. at \in {"refused", "bind"} /\ (at = "bind" => F \cup P # {})
    OBVIOUS
  <2> HIDE DEF at
  <2>6. /\ Fields \subseteq DOMAIN r /\ r.at = at /\ r.ask = req[p].ask
        /\ r.found = F \cup P /\ r.echo = req[p].echo
    BY <1>1, <2>2 DEF Fields
  <2>7. LocalOK(r)'
    BY <1>1, <2>4, <2>5, <2>6 DEF LocalOK, StrongKeys
  <2>8. MemoryInv' /\ Extends
    BY <1>5, SameMemory DEF SearchIsSingular, Keeps, AnswerInv
  <2> QED BY <1>2, <2>3, <2>7, <2>8, StepKeeps, ActorIsOperator
<1> QED BY <1>3, <1>4, <1>5

\* The hub's keys are bound: their entity has one of them.
LEMMA BindKeeps ==
  ASSUME HashInjective, AnswerInv, NEW p \in Clients, Bind(p)
  PROVE  AnswerInv'
<1>1. /\ Fields \subseteq DOMAIN req[p] /\ req[p].ask \in Requests /\ req[p].at = "bind"
      /\ req[p].found \subseteq StrongKeys /\ req[p].found \cap Identity # {}
      /\ ~ (NoUrlKeys /\ req[p].echo)
  BY DEF AnswerInv, LocalsInv, LocalOK, Bind
<1>2. ~ Resting(p)
  BY <1>1 DEF Resting, Ends
<1>3. PICK a \in AnyRecord : a = FoundRecord(p)
  BY <1>1 DEF AnyRecord, FoundRecord
<1>4. MemoryInv' /\ Extends /\ EntityInv'
  BY <1>3, CommitMemory DEF Bind, Keeps, AnswerInv
<1>5. PICK c \in Cids : /\ Target(FoundRecord(p), c)
                        /\ Goes(p, [req[p] EXCEPT !.at = "enrich", !.cid = c])
  BY DEF Bind
<1>6. PICK r : r = [req[p] EXCEPT !.at = "enrich", !.cid = c]
  OBVIOUS
<1>7. /\ Fields \subseteq DOMAIN r /\ r.at = "enrich" /\ r.ask = req[p].ask
      /\ r.found = req[p].found /\ r.cid = c /\ r.echo = req[p].echo
  BY <1>1, <1>6 DEF Fields
<1>8. PICK k \in req[p].found \cap Identity : owner'[k] = c
  BY <1>1, <1>5 DEF Target, FoundRecord
<1>9. Live(c)'
  BY <1>1, <1>4, <1>8, KeysAssumption DEF EntityInv, RowsLive
<1>10. front' = "worker" => Minted(c)'
  BY <1>4, <1>9 DEF MemoryInv, FrontMemory, LiveCids
<1>11. Carried(r)'
  BY <1>7, <1>8, <1>10 DEF Carried, Minted
<1>12. LocalOK(r)'
  BY <1>1, <1>7, <1>9, <1>11 DEF LocalOK, Live
<1> QED BY <1>2, <1>4, <1>5, <1>6, <1>12, StepKeeps, ActorIsOperator

\* Completion, after an identifier or before the index.
LEMMA EnrichKeeps ==
  ASSUME HashInjective, AnswerInv, NEW p \in Clients, Enrich(p)
  PROVE  AnswerInv'
<1>1. Fields \subseteq DOMAIN req[p] /\ req[p].at \in {"completing", "enrich"}
  BY DEF AnswerInv, LocalsInv, LocalOK, Enrich
<1>2. ~ Resting(p)
  BY <1>1 DEF Resting, Ends
<1>3. MemoryInv' /\ Extends
  <2>1. CASE UNCHANGED vars
    BY <2>1, SameMemory DEF Enrich, Keeps, AnswerInv, memoryVars
  <2>2. CASE \E a \in HubRecords : Commit(a, FALSE)
    <3>1. PICK a \in HubRecords : Commit(a, FALSE)
      BY <2>2
    <3>2. a \in AnyRecord
      BY RequestAssumption DEF AnyRecord
    <3> QED BY <3>1, <3>2, CommitMemory DEF Enrich, Keeps, AnswerInv
  <2> QED BY <2>1, <2>2 DEF Enrich
<1>4. CASE req[p].at = "completing"
  <2>1. Moves(p, "resolved")
    BY <1>4 DEF Enrich, Completed
  <2> QED BY <1>2, <1>3, <2>1, MovesToEnd
<1>5. CASE req[p].at = "enrich"
  <2>1. /\ req[p].ask \in Requests /\ ~ (NoUrlKeys /\ req[p].echo)
        /\ req[p].found \subseteq StrongKeys /\ req[p].found \cap Identity # {}
        /\ Carried(req[p]) /\ (front = "cli" => Live(req[p].cid))
    BY <1>5 DEF AnswerInv, LocalsInv, LocalOK
  <2>2. PICK r : r = [req[p] EXCEPT !.at = "index"]
    OBVIOUS
  <2>3. Goes(p, r)
    BY <1>5, <2>2 DEF Enrich, Completed, Moves
  <2>4. /\ Fields \subseteq DOMAIN r /\ r.at = "index" /\ r.ask = req[p].ask
        /\ r.found = req[p].found /\ r.cid = req[p].cid /\ r.echo = req[p].echo
    BY <1>1, <2>2 DEF Fields
  <2>5. Carried(r) /\ (front = "worker" \/ Live(r.cid))
    BY <2>1, <2>4 DEF Carried, AnswerInv, MemoryInv, FrontMemory
  <2>6. Carried(r)'
    BY <1>3, <2>1, <2>4, <2>5, CarriedOn DEF AnswerInv
  <2>7. LocalOK(r)'
    BY <2>1, <2>4, <2>6 DEF LocalOK
  <2> QED BY <1>2, <1>3, <2>3, <2>7, StepKeeps, ActorIsOperator
<1> QED BY <1>1, <1>4, <1>5

\* The index, and the cardinality memory.
LEMMA IndexKeeps ==
  ASSUME AnswerInv, NEW p \in Clients, IndexFails(p) \/ Index(p) \/ Remember(p)
  PROVE  AnswerInv'
<1>1. /\ Fields \subseteq DOMAIN req[p] /\ req[p].ask \in Requests
      /\ req[p].at \in {"index", "remember"}
      /\ req[p].found \subseteq StrongKeys /\ req[p].found \cap Identity # {}
      /\ Carried(req[p]) /\ req[p].cid \in Cids
      /\ ~ (NoUrlKeys /\ req[p].echo)
  BY DEF AnswerInv, LocalsInv, LocalOK, Carried, IndexFails, Index, Remember
<1>2. ~ Resting(p)
  BY <1>1 DEF Resting, Ends
<1>3. CASE IndexFails(p)
  <2>1. MemoryInv' /\ Extends /\ Moves(p, "refused")
    BY <1>3, SameMemory DEF IndexFails, Keeps, AnswerInv
  <2> QED BY <1>1, <1>2, <2>1, MovesToEnd
<1>4. CASE Index(p)
  <2>1. PICK display \in Titles :
          LET titles == {display} \cup ({req[p].ask.title} \ {NoTitle})
          IN  /\ nameIndex' = nameIndex \cup
                    UNION {IndexRows(t, req[p].ask.quals, req[p].cid) : t \in titles}
              /\ proved' = proved \cup (titles \X {req[p].ask.quals} \X req[p].found)
    BY <1>4 DEF Index
  <2>2. PICK titles \in SUBSET Titles :
          titles = {display} \cup ({req[p].ask.title} \ {NoTitle})
    BY <1>1 DEF Requests
  <2>3. PICK Q \in SUBSET Tokens : Q = req[p].ask.quals
    BY <1>1 DEF Requests
  <2>4. PICK c \in Cids : c = req[p].cid
    BY <1>1
  <2>5. PICK found : found = req[p].found
    OBVIOUS
  <2>6. Live(c)
    BY <1>4, <2>4 DEF Index
  <2>7. PICK k \in found \cap Identity : owner[k] = c
    BY <1>1, <2>4, <2>5, <2>6 DEF Carried
  <2>8. /\ nameIndex' = nameIndex \cup UNION {IndexRows(t, Q, c) : t \in titles}
        /\ proved' = proved \cup (titles \X {Q} \X found)
    BY <2>1, <2>2, <2>3, <2>4, <2>5
  <2>9. UNCHANGED <<owner, anchor, phoneEdge, unique, plural, front, settled>>
    BY <1>4 DEF Index
  <2>10. MemoryInv' /\ Extends
    BY <2>6, <2>7, <2>8, <2>9, IndexMemory DEF AnswerInv
  <2>11. CASE Moves(p, "resolved")
    BY <1>2, <2>10, <2>11, MovesToEnd
  <2>12. CASE Moves(p, "remember") /\ req[p].ask.title # NoTitle
    <3>1. PICK r : r = [req[p] EXCEPT !.at = "remember"]
      OBVIOUS
    <3>2. Goes(p, r)
      BY <2>12, <3>1 DEF Moves
    <3>3. /\ Fields \subseteq DOMAIN r /\ r.at = "remember" /\ r.ask = req[p].ask
          /\ r.found = req[p].found /\ r.cid = c /\ r.echo = req[p].echo
      BY <1>1, <2>4, <3>1 DEF Fields
    <3>4. Carried(r)
      BY <1>1, <3>3, <2>4 DEF Carried
    <3>5. Carried(r)' /\ Live(r.cid)'
      <4>1. Live(r.cid)'
        BY <2>6, <2>9, <3>3 DEF Live
      <4> QED BY <1>1, <2>6, <2>10, <3>3, <3>4, <4>1, CarriedOn DEF AnswerInv
    <3>6. \A j \in r.found : <<r.ask.title, r.ask.quals, j>> \in proved'
      <4>1. r.ask.title \in titles
        BY <2>2, <2>12, <3>3
      <4> QED BY <2>3, <2>5, <2>8, <3>3, <4>1
    <3>7. LocalOK(r)'
      BY <1>1, <2>12, <3>3, <3>5, <3>6 DEF LocalOK
    <3> QED BY <1>2, <2>10, <3>2, <3>7, StepKeeps, ActorIsOperator
  <2> QED BY <1>4, <2>11, <2>12 DEF Index
<1>5. CASE Remember(p)
  <2>1. /\ req[p].at = "remember" /\ req[p].ask.title # NoTitle
        /\ front = "cli" => Live(req[p].cid)
        /\ \A k \in req[p].found : <<req[p].ask.title, req[p].ask.quals, k>> \in proved
    BY <1>5 DEF Remember, AnswerInv, LocalsInv, LocalOK
  <2>2. PICK n \in Names : n = <<req[p].ask.title, req[p].ask.quals>>
    BY <1>1, <2>1, NamesAssumption DEF NameKeys, Requests
  <2>3. PICK c \in Cids : c = req[p].cid
    BY <1>1
  <2>4. n[1] \in Titles
    BY <1>1, <2>1, <2>2 DEF Requests
  <2>5. (front = "worker" => Minted(c)) /\ (front = "cli" => Live(c))
    BY <1>1, <2>1, <2>3 DEF Carried
  <2>6. Live(c) => NameProof(n, c)
    <3> SUFFICES ASSUME Live(c) PROVE NameProof(n, c)
      OBVIOUS
    <3>1. PICK k \in req[p].found \cap Identity : owner[k] = c
      BY <1>1, <2>3 DEF Carried
    <3>2. <<n[1], n[2], k>> \in proved
      BY <2>1, <2>2, <3>1
    <3>3. /\ <<n[1], n[2], k>>[1] = n[1] /\ <<n[1], n[2], k>>[2] = n[2]
          /\ <<n[1], n[2], k>>[3] = k
      OBVIOUS
    <3> QED BY <3>1, <3>2, <3>3 DEF NameProof
  <2>7. /\ RecordUnique(n, c)
        /\ settled' = IF Live(c) THEN settled \cup {n} ELSE settled \ {n}
        /\ UNCHANGED <<owner, anchor, phoneEdge, nameIndex, front, proved>>
        /\ Moves(p, "resolved")
    BY <1>5, <2>2, <2>3 DEF Remember
  <2>8. MemoryInv' /\ Extends
    BY <2>4, <2>5, <2>6, <2>7, UniqueMemory DEF AnswerInv
  <2> QED BY <1>2, <2>7, <2>8, MovesToEnd
<1> QED BY <1>3, <1>4, <1>5

-----------------------------------------------------------------------------
(***************************************************************************)
(* The other steps.                                                        *)
(***************************************************************************)

\* Nobody's locals move, and nobody of the command line is under way.
LEMMA OthersKeep ==
  ASSUME AnswerInv, MemoryInv', Extends, UNCHANGED req,
         front = "cli" => Resting(Operator)
  PROVE  AnswerInv'
<1>1. front' = front
  BY DEF Extends
<1>2. ASSUME NEW o \in Clients PROVE LocalOK(req[o])'
  <2>1. PICK s : s = req[o]
    OBVIOUS
  <2>2. LocalOK(s)
    BY <2>1 DEF AnswerInv, LocalsInv
  <2>3. front = "cli" => s.at \in Ends
    BY <2>1 DEF AnswerInv, LocalsInv, Resting
  <2>4. LocalOK(s)'
    BY <2>2, <2>3, LocalKept DEF AnswerInv
  <2> QED BY <2>1, <2>4 DEF LocalOK, Carried, Minted, Live, Known
<1> QED BY <1>1, <1>2 DEF AnswerInv, LocalsInv, Resting

\* Ingestion commits any record.
LEMMA IngestKeeps ==
  ASSUME HashInjective, AnswerInv, Ingest
  PROVE  AnswerInv'
<1>1. PICK a \in Records, strict \in Strict : Commit(a, strict)
  BY DEF Ingest, CommitStep
<1>2. a \in AnyRecord
  BY RecordsAssumption DEF AnyRecord
<1>3. MemoryInv' /\ Extends
  BY <1>1, <1>2, CommitMemory DEF Ingest, Keeps, AnswerInv
<1> QED BY <1>3, OthersKeep DEF Ingest

\* A correction meets nobody under way.
LEMMA CorrectKeeps ==
  ASSUME HashInjective, AnswerInv, Correct
  PROVE  AnswerInv'
<1>1. MemoryInv'
  BY JoinMemory, SplitMemory DEF Correct, AnswerInv
<1>2. ASSUME NEW o \in Clients PROVE LocalOK(req[o])'
  <2>1. LocalOK(req[o]) /\ req[o].at \in Ends
    BY DEF Correct, AnswerInv, LocalsInv, Resting
  <2> QED BY <2>1 DEF LocalOK, Correct, Ends
<1> QED BY <1>1, <1>2 DEF AnswerInv, LocalsInv, Correct, Resting

\* The invariant holds at first ...
LEMMA AnswerInit ==
  ASSUME RequestInit
  PROVE  AnswerInv
<1>1. /\ owner = [k \in StrongKeys |-> NoCid] /\ anchor = [c \in Cids |-> NoKey]
      /\ phoneEdge = {} /\ nameIndex = {} /\ unique = [n \in Names |-> NoCid]
      /\ plural = [n \in Names |-> {}]
  BY DEF RequestInit, MemoryInit, Init
<1>2. LiveCids = {}
  BY <1>1 DEF LiveCids, Live
<1>3. EntityInv
  <2>1. TypeOK /\ RowsLive
    BY <1>1 DEF TypeOK, RowsLive
  <2>2. \A k \in StrongKeys : CidOf(k) \in Cids
    BY CidOfType
  <2>3. AnchorIsCurrent /\ MintedKeyIsKnown
    BY <1>2, <2>2 DEF AnchorIsCurrent, MintedKeyIsKnown, LiveCids
  <2> QED BY <2>1, <2>3 DEF EntityInv
<1>4. MemoryInv
  BY <1>1, <1>2, <1>3, RequestAssumption DEF MemoryInv, RowsProved, UniqueProved,
     SettledKept, PluralRefs, FrontMemory, UniqueLive, RequestInit
<1>5. Rest.at = "idle" /\ Rest.echo = FALSE /\ Fields \subseteq DOMAIN Rest
  BY DEF Rest, Fields
<1>6. LocalOK(Rest)
  BY <1>5 DEF LocalOK
<1> QED BY <1>4, <1>5, <1>6 DEF AnswerInv, LocalsInv, RequestInit, Resting, Ends

\* ... and after every step.
LEMMA AnswerStep ==
  ASSUME HashInjective, AnswerInv, [RequestNext]_reqVars
  PROVE  AnswerInv'
<1>1. ASSUME NEW p \in Clients,
             Ask(p) \/ AskAgain(p) \/ RunCommand(p) \/ Handle(p) \/ Dies(p)
      PROVE  AnswerInv'
  BY <1>1, AskKeeps, RunCommandKeeps, DiesKeeps, IdsKeep, LookKeeps, ReserveKeeps, SiteKeeps,
     SearchKeeps, BindKeeps, EnrichKeeps, IndexKeeps DEF Handle
<1>2. CASE NextDay
  BY <1>2, SameMemory DEF NextDay, AnswerInv, LocalsInv, LocalOK, Carried, Minted, Live, Known,
     Resting, memoryVars, vars
<1>3. CASE UNCHANGED reqVars
  BY <1>3, SameMemory DEF reqVars, AnswerInv, LocalsInv, LocalOK, Carried, Minted, Live, Known,
     Resting, memoryVars, vars
<1> QED BY <1>1, <1>2, <1>3, IngestKeeps, CorrectKeeps DEF RequestNext

\* The invariant holds of every run.
LEMMA AnswersCorrect ==
  ASSUME HashInjective
  PROVE  RequestSpec => []AnswerInv
<1>1. RequestInit => AnswerInv
  BY AnswerInit
<1>2. AnswerInv /\ [RequestNext]_reqVars => AnswerInv'
  BY AnswerStep
<1> QED BY <1>1, <1>2, PTL DEF RequestSpec

-----------------------------------------------------------------------------
(***************************************************************************)
(* The theorems about states.                                              *)
(***************************************************************************)

\* Whatever requests and ingestion interleave with, and whatever an operator merges, links
\* and splits between commands: no name leads to an entity that is gone
\* (resolve_name_local, load_entity).
THEOREM NamesStayServable == HashInjective => (RequestSpec => []NamesNeverPoisoned)
<1> SUFFICES ASSUME HashInjective PROVE RequestSpec => []NamesNeverPoisoned
  OBVIOUS
<1>1. AnswerInv => NamesNeverPoisoned
  BY LookupFacts DEF AnswerInv, NamesNeverPoisoned
<1> QED BY <1>1, AnswersCorrect, PTL

\* In the same generality: an entity the memory answers with has a key that was some hub's
\* only answer to this name, for qualifiers this query has (index_resolved_name,
\* name_entities).
THEOREM MemoryAnswersWhatHubsDid == HashInjective => (RequestSpec => []AnswersWereProved)
<1> SUFFICES ASSUME HashInjective PROVE RequestSpec => []AnswersWereProved
  OBVIOUS
<1>1. AnswerInv => AnswersWereProved
  <2> SUFFICES ASSUME AnswerInv, NEW t \in Titles, NEW Q \in SUBSET Tokens,
                      Lookup(t, Q).is = "one"
               PROVE  \E proof \in proved : /\ proof[1] = t
                                            /\ owner[proof[3]] = Lookup(t, Q).cid
                                            /\ Q = {} \/ proof[2] \subseteq Q
    BY DEF AnswersWereProved
  <2> QED BY LookupFacts DEF AnswerInv
<1> QED BY <1>1, AnswersCorrect, PTL

\* Where no key is stored in a form that does not parse as a reference (a url: key is, see
\* the run that refutes EchoResolves for them), a caller who asks again with a candidate's
\* ref gets an entity: every candidate ever answered or remembered has an identity key for
\* its ref, and the grain rule refuses no identity key.
THEOREM EchoedRefsResolve == HashInjective /\ NoUrlKeys => (RequestSpec => []EchoResolves)
<1> SUFFICES ASSUME HashInjective, NoUrlKeys PROVE RequestSpec => []EchoResolves
  OBVIOUS
<1>1. AnswerInv => EchoResolves
  BY DEF AnswerInv, LocalsInv, LocalOK, EchoResolves, Resting, Ends
<1> QED BY <1>1, AnswersCorrect, PTL

-----------------------------------------------------------------------------
(***************************************************************************)
(* Who asks a hub, and when.                                               *)
(***************************************************************************)

\* Goes moves p alone, to where it says.
LEMMA GoesTo ==
  ASSUME DOMAIN req = Clients, NEW p \in Clients, NEW r, Goes(p, r)
  PROVE  req'[p].at = r.at /\ \A o \in Clients \ {p} : req'[o] = req[o]
<1>1. \A o \in Clients \ {p} : req'[o] = req[o]
  BY DEF Goes
<1>2. CASE r.at = "ambiguous"
  BY <1>2 DEF Goes, Rest
<1>3. CASE r.at \in Ends \ {"ambiguous"}
  BY <1>3 DEF Goes, Rest
<1>4. CASE r.at \notin Ends
  BY <1>4 DEF Goes, Ends
<1> QED BY <1>1, <1>2, <1>3, <1>4 DEF Ends

\* Moves moves p to a place, AnswersMany to an answer.
LEMMA MovesTo ==
  ASSUME AnswerInv, NEW p \in Clients
  PROVE  /\ \A at : Moves(p, at) =>
              req'[p].at = at /\ \A o \in Clients \ {p} : req'[o] = req[o]
         /\ \A candidates : AnswersMany(p, candidates) =>
              req'[p].at = "ambiguous" /\ \A o \in Clients \ {p} : req'[o] = req[o]
<1>1. Fields \subseteq DOMAIN req[p] /\ DOMAIN req = Clients
  BY DEF AnswerInv, LocalsInv, LocalOK
<1>2. ASSUME NEW at, Moves(p, at)
      PROVE  req'[p].at = at /\ \A o \in Clients \ {p} : req'[o] = req[o]
  <2>1. PICK r : r = [req[p] EXCEPT !.at = at]
    OBVIOUS
  <2>2. r.at = at /\ Goes(p, r)
    BY <1>1, <1>2, <2>1 DEF Moves, Fields
  <2> QED BY <1>1, <2>2, GoesTo
<1>3. ASSUME NEW candidates, AnswersMany(p, candidates)
      PROVE  req'[p].at = "ambiguous" /\ \A o \in Clients \ {p} : req'[o] = req[o]
  <2>1. PICK r : r = [req[p] EXCEPT !.at = "ambiguous", !.among = candidates]
    OBVIOUS
  <2>2. r.at = "ambiguous" /\ Goes(p, r)
    BY <1>1, <1>3, <2>1 DEF AnswersMany, Fields
  <2> QED BY <1>1, <2>2, GoesTo
<1> QED BY <1>2, <1>3

\* An answer from a lookup is an end.
LEMMA AnswersTo ==
  ASSUME AnswerInv, NEW p \in Clients, NEW found, found.is # "none",
         found.is \in {"one", "many", "error", "none"}, Answers(p, found)
  PROVE  /\ req'[p].at \in {"resolved", "ambiguous", "refused"}
         /\ \A o \in Clients \ {p} : req'[o] = req[o]
<1>1. CASE found.is = "one"
  <2>1. PICK r : r = [req[p] EXCEPT !.at = "resolved", !.cid = found.cid]
    OBVIOUS
  <2>2. Goes(p, r)
    BY <1>1, <2>1 DEF Answers
  <2>3. Fields \subseteq DOMAIN req[p] /\ DOMAIN req = Clients
    BY DEF AnswerInv, LocalsInv, LocalOK
  <2>4. r.at = "resolved"
    BY <2>1, <2>3 DEF Fields
  <2> QED BY <2>2, <2>3, <2>4, GoesTo
<1>2. CASE found.is = "many"
  BY <1>2, MovesTo DEF Answers
<1>3. CASE found.is = "error"
  BY <1>3, MovesTo DEF Answers
<1> QED BY <1>1, <1>2, <1>3

\* The four outcomes of a lookup.
LEMMA LookupOutcome ==
  ASSUME NEW ask
  PROVE  LookupOf(ask).is \in {"one", "many", "error", "none"}
<1>1. \A c : One(c).is \in {"one", "error"}
  BY DEF One
<1>2. \A candidates : Many(candidates).is = "many"
  BY DEF Many
<1>3. Nothing.is = "none"
  BY DEF Nothing
<1> QED BY <1>1, <1>2, <1>3 DEF LookupOf, Lookup

\* A commit, a bind, a hub's answer or a new command leads to no lookup.
LEMMA ElsewhereTo ==
  ASSUME AnswerInv, NEW p \in Clients,
         \/ Ask(p) \/ AskAgain(p) \/ RunCommand(p) \/ Dies(p) \/ CommitIds(p)
         \/ CommitDomain(p) \/ SiteIsFound(p) \/ SearchIsSingular(p) \/ Bind(p) \/ Reserve(p)
  PROVE  /\ req'[p].at \notin {"asking", "asking_site", "reserve"}
         /\ \A o \in Clients \ {p} : req'[o] = req[o]
<1>1. Fields \subseteq DOMAIN req[p] /\ DOMAIN req = Clients
  BY DEF AnswerInv, LocalsInv, LocalOK
<1> SUFFICES \E r : Goes(p, r) /\ r.at \notin {"asking", "asking_site", "reserve"}
  BY <1>1, GoesTo
<1>2. ASSUME NEW ask, NEW echo, Begins(p, ask, echo)
      PROVE  \E r : Goes(p, r) /\ r.at \notin {"asking", "asking_site", "reserve"}
  <2> DEFINE at == CASE ~ Usable(ask)  -> "refused"
                     [] ask.ids # {}  -> "ids"
                     [] OTHER         -> "look"
  <2>1. PICK r : r = [Rest EXCEPT !.ask = ask, !.echo = echo, !.at = at]
    OBVIOUS
  <2>2. at \notin {"asking", "asking_site", "reserve"}
    OBVIOUS
  <2> HIDE DEF at
  <2>3. r.at = at
    BY <2>1 DEF Rest
  <2>4. Goes(p, r)
    BY <1>2, <2>1 DEF Begins, at
  <2> QED BY <2>2, <2>3, <2>4
<1>3. CASE Ask(p) \/ AskAgain(p)
  BY <1>2, <1>3 DEF Ask, AskAgain
<1>4. CASE RunCommand(p)
  <2>1. PICK ask \in Asks :
          LET s == [Rest EXCEPT !.ask = ask]
              found == LookupOf(ask)
          IN  \/ Goes(p, [s EXCEPT !.at = "site"])
              \/ Goes(p, [s EXCEPT !.at = "search"])
              \/ Goes(p, [s EXCEPT
                   !.at = CASE found.is = "one"  -> "resolved"
                            [] found.is = "many" -> "ambiguous"
                            [] OTHER             -> "refused",
                   !.among = found.among])
    BY <1>4 DEF RunCommand
  <2> DEFINE found == LookupOf(ask)
             end == CASE found.is = "one"  -> "resolved"
                      [] found.is = "many" -> "ambiguous"
                      [] OTHER             -> "refused"
  <2>3. \A at, among : [[Rest EXCEPT !.ask = ask] EXCEPT !.at = at, !.among = among].at = at
    BY DEF Rest
  <2>4. end \notin {"asking", "asking_site", "reserve"}
    OBVIOUS
  <2>5. \/ Goes(p, [[Rest EXCEPT !.ask = ask] EXCEPT !.at = "site"])
        \/ Goes(p, [[Rest EXCEPT !.ask = ask] EXCEPT !.at = "search"])
        \/ Goes(p, [[Rest EXCEPT !.ask = ask] EXCEPT !.at = end, !.among = found.among])
    BY <2>1
  <2> HIDE DEF found, end
  <2>6. CASE Goes(p, [[Rest EXCEPT !.ask = ask] EXCEPT !.at = "site"])
    <3>1. PICK r : r = [[Rest EXCEPT !.ask = ask] EXCEPT !.at = "site"]
      OBVIOUS
    <3>2. r.at = "site"
      BY <3>1 DEF Rest
    <3> QED BY <2>6, <3>1, <3>2
  <2>7. CASE Goes(p, [[Rest EXCEPT !.ask = ask] EXCEPT !.at = "search"])
    <3>1. PICK r : r = [[Rest EXCEPT !.ask = ask] EXCEPT !.at = "search"]
      OBVIOUS
    <3>2. r.at = "search"
      BY <3>1 DEF Rest
    <3> QED BY <2>7, <3>1, <3>2
  <2>8. CASE Goes(p, [[Rest EXCEPT !.ask = ask] EXCEPT !.at = end, !.among = found.among])
    <3>1. PICK r : r = [[Rest EXCEPT !.ask = ask] EXCEPT !.at = end, !.among = found.among]
      OBVIOUS
    <3> QED BY <2>3, <2>4, <2>8, <3>1
  <2> QED BY <2>5, <2>6, <2>7, <2>8
<1>5. CASE Dies(p)
  BY <1>5 DEF Dies, Rest
<1>6. ASSUME NEW at, at \notin {"asking", "asking_site", "reserve"}, NEW used, NEW found,
             NEW sole, NEW cid,
             \/ Goes(p, [req[p] EXCEPT !.cid = cid, !.at = at])
             \/ Goes(p, [req[p] EXCEPT !.at = at, !.cid = cid])
             \/ Goes(p, [req[p] EXCEPT !.used = used, !.at = at])
             \/ Goes(p, [req[p] EXCEPT !.at = at, !.found = found, !.sole = sole])
      PROVE  \E r : Goes(p, r) /\ r.at \notin {"asking", "asking_site", "reserve"}
  <2>1. /\ [req[p] EXCEPT !.cid = cid, !.at = at].at = at
        /\ [req[p] EXCEPT !.at = at, !.cid = cid].at = at
        /\ [req[p] EXCEPT !.used = used, !.at = at].at = at
        /\ [req[p] EXCEPT !.at = at, !.found = found, !.sole = sole].at = at
    BY <1>1 DEF Fields
  <2> QED BY <1>6, <2>1
<1>7. CASE CommitIds(p)
  <2> DEFINE at == IF NewEdges(AskedRecord(p)) /\ OrgShaped(req[p].ask.type)
                     THEN "completing" ELSE "resolved"
  <2>1. PICK c \in Cids : Goes(p, [req[p] EXCEPT !.cid = c, !.at = at])
    BY <1>7 DEF CommitIds
  <2>2. at \notin {"asking", "asking_site", "reserve"}
    OBVIOUS
  <2> HIDE DEF at
  <2> QED BY <1>6, <2>1, <2>2
<1>8. CASE CommitDomain(p)
  <2>1. PICK c \in Cids : Goes(p, [req[p] EXCEPT !.at = "completing", !.cid = c])
    BY <1>8 DEF CommitDomain
  <2> QED BY <1>6, <2>1
<1>9. CASE Bind(p)
  <2>1. PICK c \in Cids : Goes(p, [req[p] EXCEPT !.at = "enrich", !.cid = c])
    BY <1>9 DEF Bind
  <2> QED BY <1>6, <2>1
<1>10. CASE SiteIsFound(p)
  <2>1. PICK d, k : Goes(p, [req[p] EXCEPT !.at = "bind", !.found = {k, d}, !.sole = TRUE])
    BY <1>10 DEF SiteIsFound
  <2> QED BY <1>6, <2>1
<1>11. CASE SearchIsSingular(p)
  <2>1. PICK F, P :
          Goes(p, [req[p] EXCEPT !.at = IF F \cup P = {} THEN "refused" ELSE "bind",
                                 !.found = F \cup P, !.sole = (F # {})])
    BY <1>11 DEF SearchIsSingular
  <2>2. PICK at, sole : /\ at = IF F \cup P = {} THEN "refused" ELSE "bind"
                        /\ sole = (F # {})
    OBVIOUS
  <2>3. at \notin {"asking", "asking_site", "reserve"}
    BY <2>2
  <2>4. Goes(p, [req[p] EXCEPT !.at = at, !.found = F \cup P, !.sole = sole])
    BY <2>1, <2>2
  <2> QED BY <1>6, <2>3, <2>4
<1>12. CASE Reserve(p)
  <2>1. CASE Moves(p, "refused")
    <3>1. [req[p] EXCEPT !.at = "refused"].at = "refused"
      BY <1>1 DEF Fields
    <3> QED BY <2>1, <3>1 DEF Moves
  <2>2. CASE ~ Moves(p, "refused")
    <3>1. PICK used, at : /\ at \in {"site", "search"}
                          /\ Goes(p, [req[p] EXCEPT !.used = used, !.at = at])
      BY <1>12, <2>2 DEF Reserve
    <3> QED BY <1>6, <3>1
  <2> QED BY <2>1, <2>2
<1> QED BY <1>3, <1>4, <1>5, <1>7, <1>8, <1>9, <1>10, <1>11, <1>12

\* A hub's several answers, a failure, a rest of the way: no lookup either.
LEMMA EndsTo ==
  ASSUME AnswerInv, NEW p \in Clients,
         \/ RefuseIds(p) \/ ReserveFails(p) \/ SiteFails(p) \/ SiteIsShared(p)
         \/ SearchIsPlural(p) \/ Enrich(p) \/ IndexFails(p) \/ Index(p) \/ Remember(p)
  PROVE  /\ req'[p].at \notin {"asking", "asking_site", "reserve"}
         /\ \A o \in Clients \ {p} : req'[o] = req[o]
<1> SUFFICES \/ \E at : /\ Moves(p, at)
                        /\ at \notin {"asking", "asking_site", "reserve"}
             \/ \E candidates : AnswersMany(p, candidates)
  BY MovesTo
<1>1. CASE RefuseIds(p)
  BY <1>1 DEF RefuseIds
<1>2. CASE ReserveFails(p)
  BY <1>2 DEF ReserveFails
<1>3. CASE SiteFails(p)
  BY <1>3 DEF SiteFails, AfterSite
<1>4. CASE SiteIsShared(p) \/ SearchIsPlural(p)
  BY <1>4 DEF SiteIsShared, SearchIsPlural, Plural
<1>5. CASE Enrich(p)
  BY <1>5 DEF Enrich, Completed
<1>6. CASE IndexFails(p) \/ Index(p) \/ Remember(p)
  BY <1>6 DEF IndexFails, Index, Remember
<1> QED BY <1>1, <1>2, <1>3, <1>4, <1>5, <1>6

\* The local lookup finds nothing when a call is reserved after it ...
LEMMA LookTo ==
  ASSUME AnswerInv, NEW p \in Clients, Look(p)
  PROVE  /\ \A o \in Clients \ {p} : req'[o] = req[o]
         /\ req'[p].at \notin {"asking", "asking_site"}
         /\ req'[p].at = "reserve" => /\ LookupOf(req[p].ask).is = "none"
                                      /\ RememberedSite(req[p].ask) = {}
<1>1. Fields \subseteq DOMAIN req[p] /\ DOMAIN req = Clients
  BY DEF AnswerInv, LocalsInv, LocalOK
<1>2. CASE LookupOf(req[p].ask).is # "none"
  <2>1. Answers(p, LookupOf(req[p].ask))
    BY <1>2 DEF Look
  <2>2. req'[p].at \in {"resolved", "ambiguous", "refused"}
        /\ \A o \in Clients \ {p} : req'[o] = req[o]
    BY <1>2, <2>1, LookupOutcome, AnswersTo
  <2> QED BY <2>2
<1>3. CASE LookupOf(req[p].ask).is = "none" /\ RememberedSite(req[p].ask) # {}
  BY <1>3, MovesTo DEF Look
<1>4. CASE LookupOf(req[p].ask).is = "none" /\ RememberedSite(req[p].ask) = {}
  <2>1. CASE Moves(p, "refused")
    BY <1>4, <2>1, MovesTo
  <2>2. CASE Goes(p, [req[p] EXCEPT !.at = "reserve", !.day = day])
    <3>1. PICK r : r = [req[p] EXCEPT !.at = "reserve", !.day = day]
      OBVIOUS
    <3>2. r.at = "reserve" /\ Goes(p, r)
      BY <1>1, <2>2, <3>1 DEF Fields
    <3> QED BY <1>1, <1>4, <3>2, GoesTo
  <2> QED BY <1>4, <2>1, <2>2 DEF Look
<1> QED BY <1>2, <1>3, <1>4

\* ... or a hub is searched after it.
LEMMA SearchTo ==
  ASSUME AnswerInv, NEW p \in Clients, SearchLocally(p)
  PROVE  /\ \A o \in Clients \ {p} : req'[o] = req[o]
         /\ req'[p].at \notin {"asking_site", "reserve"}
         /\ req'[p].at = "asking" => LookupOf(req[p].ask).is = "none"
<1>1. CASE LookupOf(req[p].ask).is # "none"
  <2>1. Answers(p, LookupOf(req[p].ask))
    BY <1>1 DEF SearchLocally
  <2>2. req'[p].at \in {"resolved", "ambiguous", "refused"}
        /\ \A o \in Clients \ {p} : req'[o] = req[o]
    BY <1>1, <2>1, LookupOutcome, AnswersTo
  <2> QED BY <2>2
<1>2. CASE LookupOf(req[p].ask).is = "none"
  <2>1. Moves(p, "asking")
    BY <1>2 DEF SearchLocally
  <2> QED BY <1>2, <2>1, MovesTo
<1> QED BY <1>1, <1>2

\* The publishers of a website are asked for only where no ambiguity is remembered for it.
LEMMA GuardTo ==
  ASSUME AnswerInv, NEW p \in Clients, GuardSite(p)
  PROVE  /\ \A o \in Clients \ {p} : req'[o] = req[o]
         /\ req'[p].at \notin {"asking", "reserve"}
         /\ req'[p].at = "asking_site" => \E d \in Website(req[p].ask) : plural[MemoKey(d)] = {}
<1>1. PICK d \in Website(req[p].ask) :
        \/ Moves(p, AfterSite(req[p].ask))
        \/ AnswersMany(p, plural[MemoKey(d)])
        \/ plural[MemoKey(d)] = {} /\ Moves(p, "asking_site")
  BY DEF GuardSite
<1>2. AfterSite(req[p].ask) \notin {"asking", "asking_site", "reserve"}
  BY DEF AfterSite
<1> QED BY <1>1, <1>2, MovesTo

\* What a hub has decided, the local lookups answer.
LEMMA SettledIsFound ==
  ASSUME AnswerInv, NEW p \in Clients, req[p].ask \in Requests
  PROVE  /\ NameSettled(req[p].ask) => LookupOf(req[p].ask).is # "none"
         /\ SiteSettled(req[p].ask) =>
              /\ RememberedSite(req[p].ask) # {}
              /\ \A d \in Website(req[p].ask) : plural[MemoKey(d)] # {}
<1> DEFINE ask == req[p].ask
<1>1. ask.title \in Titles \cup {NoTitle} /\ ask.quals \in SUBSET Tokens
  BY DEF Requests
<1>2. ASSUME NameSettled(ask) PROVE LookupOf(ask).is # "none"
  <2>1. <<ask.title, ask.quals>> \in Names /\ <<ask.title, ask.quals>> \in settled
    BY <1>2 DEF NameSettled, AnswerInv, MemoryInv, SettledKept
  <2>2. ask.title # NoTitle /\ ask.title \in Titles
    BY <1>1, <2>1, NamesAssumption DEF NameKeys, MemoKey, StrongKeys
  <2>3. PICK t \in Titles, Q \in SUBSET Tokens : t = ask.title /\ Q = ask.quals
    BY <1>1, <2>2
  <2>4. LookupOf(ask) = Lookup(t, Q) /\ <<t, Q>> \in settled
    BY <2>1, <2>2, <2>3 DEF LookupOf
  <2> QED BY <2>4, LookupFacts DEF AnswerInv
<1>3. ASSUME SiteSettled(ask), NEW e \in Website(ask) PROVE plural[MemoKey(e)] # {}
  <2>1. PICK d \in Website(ask) : MemoKey(d) \in settled
    BY <1>3 DEF SiteSettled
  <2>2. d = e /\ d \in StrongKeys /\ d \notin Titles
    BY <1>3, WebsiteDomain, NamesAssumption DEF StrongKeys
  <2>3. MemoKey(d)[1] = d
    BY DEF MemoKey
  <2> QED BY <2>1, <2>2, <2>3 DEF AnswerInv, MemoryInv, SettledKept
<1>4. SiteSettled(ask) => RememberedSite(ask) # {}
  BY <1>3 DEF SiteSettled, RememberedSite
<1> QED BY <1>2, <1>3, <1>4

\* No hub is asked, and no call reserved, for what a hub has decided before, whatever
\* happened to the graph since (handlers.rs, resolve_name and resolve_by_website).
THEOREM RepeatsStayLocal == HashInjective => (RequestSpec => RepeatsAreLocal)
<1> DEFINE Local ==
      \A p \in Clients :
        /\ NameSettled(req[p].ask) => ~ Enters(p, "asking")
        /\ SiteSettled(req[p].ask) => ~ Enters(p, "asking_site")
        /\ NameSettled(req[p].ask) \/ SiteSettled(req[p].ask) => ~ Enters(p, "reserve")
<1> SUFFICES ASSUME HashInjective PROVE RequestSpec => RepeatsAreLocal
  OBVIOUS
<1>1. AnswerInv /\ [RequestNext]_reqVars => [Local]_reqVars
  <2> SUFFICES ASSUME AnswerInv, RequestNext PROVE Local
    OBVIOUS
  <2>1. ASSUME NEW p \in Clients, req'[p] = req[p]
        PROVE  \A at : ~ Enters(p, at)
    BY <2>1 DEF Enters
  <2>2. CASE Ingest \/ Correct \/ NextDay
    BY <2>1, <2>2 DEF Ingest, Correct, NextDay
  <2>3. ASSUME NEW p \in Clients,
               Ask(p) \/ AskAgain(p) \/ RunCommand(p) \/ Handle(p) \/ Dies(p)
        PROVE  Local
    <3>1. CASE /\ req'[p].at \notin {"asking", "asking_site", "reserve"}
               /\ \A o \in Clients \ {p} : req'[o] = req[o]
      BY <2>1, <3>1 DEF Enters
    <3>2. CASE Look(p) \/ SearchLocally(p) \/ GuardSite(p)
      <4>1. req[p].ask \in Requests
        BY <3>2 DEF AnswerInv, LocalsInv, LocalOK, Look, SearchLocally, GuardSite
      <4>2. CASE Look(p)
        BY <2>1, <4>1, <4>2, LookTo, SettledIsFound DEF Enters
      <4>3. CASE SearchLocally(p)
        BY <2>1, <4>1, <4>3, SearchTo, SettledIsFound DEF Enters
      <4>4. CASE GuardSite(p)
        BY <2>1, <4>1, <4>4, GuardTo, SettledIsFound DEF Enters
      <4> QED BY <3>2, <4>2, <4>3, <4>4
    <3> QED BY <2>3, <3>1, <3>2, ElsewhereTo, EndsTo DEF Handle
  <2> QED BY <2>2, <2>3 DEF RequestNext
<1> QED BY <1>1, AnswersCorrect, PTL DEF RequestSpec, RepeatsAreLocal
=============================================================================
