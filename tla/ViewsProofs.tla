----------------------------- MODULE ViewsProofs -----------------------------
(***************************************************************************)
(* Views, for any lines, runs and pages: a page never sees two versions of *)
(* the store that contradict one another, although every part of it is     *)
(* read at another time.                                                   *)
(***************************************************************************)
EXTENDS Views, WellFoundedInduction, TLAPS

-----------------------------------------------------------------------------
(* Least and greatest. *)

LEMMA SmallestOf ==
  ASSUME NEW T, T \subseteq Nat, T # {}
  PROVE  \E x \in T : \A y \in T : x <= y
<1>1. PICK x \in T : \A y \in T : <<y, x>> \notin OpToRel(<, Nat)
  BY NatLessThanWellFounded, WFMin
<1>2. \A y \in T : ~(y < x)
  BY <1>1 DEF OpToRel
<1>3. x \in Nat /\ \A y \in T : y \in Nat
  OBVIOUS
<1> QED
  BY <1>2, <1>3

LEMMA GreatestOf ==
  ASSUME NEW T, NEW n \in Nat, T \subseteq 0..n, T # {}
  PROVE  \E x \in T : \A y \in T : y <= x
<1> DEFINE U == {n - y : y \in T}
<1>1. U \subseteq Nat /\ U # {}
  <2>1. \A y \in T : n - y \in Nat
    OBVIOUS
  <2> QED
    BY <2>1
<1>2. PICK u \in U : \A v \in U : u <= v
  BY <1>1, SmallestOf
<1>3. PICK x \in T : u = n - x
  BY <1>2
<1>4. \A y \in T : n - x <= n - y
  BY <1>2, <1>3
<1> QED
  BY <1>4

-----------------------------------------------------------------------------
(* Histories as prefixes of one another. *)

LEMMA PrefixOfItself ==
  ASSUME NEW s \in Seq(Decisions)
  PROVE  IsPrefix(s, s)
BY DEF IsPrefix

LEMMA PrefixOfAppend ==
  ASSUME NEW s \in Seq(Decisions), NEW t \in Seq(Decisions), NEW d \in Decisions, IsPrefix(s, t)
  PROVE  IsPrefix(s, Append(t, d))
<1>1. Len(s) <= Len(t) /\ \A n \in 1..Len(s) : s[n] = t[n]
  BY DEF IsPrefix
<1> QED
  BY <1>1 DEF IsPrefix

-----------------------------------------------------------------------------
(* The shape of the pages. *)

FieldNames ==
  {"pc", "shown", "run", "latest", "lines", "past", "after", "newest",
   "rec", "asDecided", "holds", "line", "overridable", "entries", "refusal"}

IsPage(q) == q = [f \in FieldNames |-> q[f]]

Shape == page = [p \in Pages |-> page[p]] /\ \A p \in Pages : IsPage(page[p])

Others(p) == \A q \in Pages : q # p => page'[q] = page[q]

(* What the actions of a page do to it: the fields they fill, and no others. *)
Same(p, fields) == \A f \in fields : page'[p][f] = page[p][f]

LEMMA OpenListEffect ==
  ASSUME Shape, NEW p \in Pages, OpenList(p)
  PROVE  /\ Shape' /\ Others(p) /\ At(p) = "idle"
         /\ UNCHANGED <<store, fresh>>
         /\ Same(p, {"shown", "newest", "rec", "asDecided", "holds", "line", "overridable",
                    "entries", "refusal"})
         /\ \E r \in StoredRuns :
              /\ page'[p].pc = "run"
              /\ page'[p].run = r
              /\ page'[p].latest = (r = NewestRun(StoredRuns))
              /\ page'[p].lines = Listed(r)
              /\ page'[p].past = Overridden
              /\ page'[p].after = {q \in Pages : At(q) = "listed"}
<1> DEFINE new(r) ==
             [page[p] EXCEPT !.pc = "run",
                             !.run = r,
                             !.latest = (r = NewestRun(StoredRuns)),
                             !.lines = Listed(r),
                             !.past = Overridden,
                             !.after = {q \in Pages : At(q) = "listed"}]
<1>1. PICK r \in StoredRuns : page' = [page EXCEPT ![p] = new(r)]
  BY DEF OpenList
<1>2. page'[p] = new(r) /\ Others(p) /\ page' = [q \in Pages |-> page'[q]]
  BY <1>1 DEF Shape, Others
<1>3. IsPage(page[p])
  BY DEF Shape
<1>4. /\ new(r).pc = "run"
      /\ new(r).run = r
      /\ new(r).latest = (r = NewestRun(StoredRuns))
      /\ new(r).lines = Listed(r)
      /\ new(r).past = Overridden
      /\ new(r).after = {q \in Pages : At(q) = "listed"}
  BY <1>3 DEF IsPage, FieldNames
<1>5. \A f \in {"shown", "newest", "rec", "asDecided", "holds", "line", "overridable", "entries", "refusal"} : new(r)[f] = page[p][f]
  BY <1>3 DEF IsPage, FieldNames
<1>6. IsPage(new(r))
  BY <1>3 DEF IsPage, FieldNames
<1> HIDE DEF new
<1> QED
  BY <1>1, <1>2, <1>4, <1>5, <1>6 DEF OpenList, Shape, Others, Same

LEMMA ReadOverridesEffect ==
  ASSUME Shape, NEW p \in Pages, ReadOverrides(p)
  PROVE  /\ Shape' /\ Others(p) /\ At(p) = "run"
         /\ UNCHANGED <<store, fresh>>
         /\ Same(p, {"run", "latest", "lines", "past", "after", "newest", "rec",
                    "asDecided", "holds", "line", "overridable", "entries", "refusal"})
         /\ page'[p].pc = "overrides"
         /\ page'[p].shown = [l \in page[p].lines |-> history[<<page[p].run, l>>]]
<1> DEFINE new ==
             [page[p] EXCEPT !.pc = "overrides",
                             !.shown = [l \in page[p].lines |-> history[<<page[p].run, l>>]]]
<1>1. page' = [page EXCEPT ![p] = new]
  BY DEF ReadOverrides
<1>2. page'[p] = new /\ Others(p) /\ page' = [q \in Pages |-> page'[q]]
  BY <1>1 DEF Shape, Others
<1>3. IsPage(page[p])
  BY DEF Shape
<1>4. /\ new.pc = "overrides"
      /\ new.shown = [l \in page[p].lines |-> history[<<page[p].run, l>>]]
  BY <1>3 DEF IsPage, FieldNames
<1>5. \A f \in {"run", "latest", "lines", "past", "after", "newest", "rec", "asDecided", "holds", "line", "overridable", "entries", "refusal"} : new[f] = page[p][f]
  BY <1>3 DEF IsPage, FieldNames
<1>6. IsPage(new)
  BY <1>3 DEF IsPage, FieldNames
<1> HIDE DEF new
<1> QED
  BY <1>1, <1>2, <1>4, <1>5, <1>6 DEF ReadOverrides, Shape, Others, Same

LEMMA ReadNewestEffect ==
  ASSUME Shape, NEW p \in Pages, ReadNewest(p)
  PROVE  /\ Shape' /\ Others(p) /\ At(p) = "overrides"
         /\ UNCHANGED <<store, fresh>>
         /\ Same(p, {"shown", "run", "latest", "lines", "past", "after", "rec",
                    "asDecided", "holds", "line", "overridable", "entries", "refusal"})
         /\ page'[p].pc = "listed"
         /\ page'[p].newest = [l \in page[p].lines |-> NewestOverride(l)]
<1> DEFINE new ==
             [page[p] EXCEPT !.pc = "listed",
                             !.newest = [l \in page[p].lines |-> NewestOverride(l)]]
<1>1. page' = [page EXCEPT ![p] = new]
  BY DEF ReadNewest
<1>2. page'[p] = new /\ Others(p) /\ page' = [q \in Pages |-> page'[q]]
  BY <1>1 DEF Shape, Others
<1>3. IsPage(page[p])
  BY DEF Shape
<1>4. /\ new.pc = "listed"
      /\ new.newest = [l \in page[p].lines |-> NewestOverride(l)]
  BY <1>3 DEF IsPage, FieldNames
<1>5. \A f \in {"shown", "run", "latest", "lines", "past", "after", "rec", "asDecided", "holds", "line", "overridable", "entries", "refusal"} : new[f] = page[p][f]
  BY <1>3 DEF IsPage, FieldNames
<1>6. IsPage(new)
  BY <1>3 DEF IsPage, FieldNames
<1> HIDE DEF new
<1> QED
  BY <1>1, <1>2, <1>4, <1>5, <1>6 DEF ReadNewest, Shape, Others, Same

LEMMA OpenDecisionEffect ==
  ASSUME Shape, NEW p \in Pages, OpenDecision(p)
  PROVE  /\ Shape' /\ Others(p) /\ At(p) = "idle"
         /\ UNCHANGED store /\ fresh' = fresh \cup {p}
         /\ Same(p, {"run", "latest", "lines", "past", "after", "newest", "asDecided", "holds",
                    "line", "overridable", "entries", "refusal"})
         /\ \E i \in Stored :
              /\ page'[p].pc = "record"
              /\ page'[p].rec = i
              /\ page'[p].shown = history[i]
<1> DEFINE new(i) ==
             [page[p] EXCEPT !.pc = "record",
                             !.rec = i,
                             !.shown = history[i]]
<1>1. PICK i \in Stored : page' = [page EXCEPT ![p] = new(i)]
  BY DEF OpenDecision
<1>2. page'[p] = new(i) /\ Others(p) /\ page' = [q \in Pages |-> page'[q]]
  BY <1>1 DEF Shape, Others
<1>3. IsPage(page[p])
  BY DEF Shape
<1>4. /\ new(i).pc = "record"
      /\ new(i).rec = i
      /\ new(i).shown = history[i]
  BY <1>3 DEF IsPage, FieldNames
<1>5. \A f \in {"run", "latest", "lines", "past", "after", "newest", "asDecided", "holds", "line", "overridable", "entries", "refusal"} : new(i)[f] = page[p][f]
  BY <1>3 DEF IsPage, FieldNames
<1>6. IsPage(new(i))
  BY <1>3 DEF IsPage, FieldNames
<1> HIDE DEF new
<1> QED
  BY <1>1, <1>2, <1>4, <1>5, <1>6 DEF OpenDecision, Shape, Others, Same

LEMMA ReadChargeEffect ==
  ASSUME Shape, NEW p \in Pages, ReadCharge(p)
  PROVE  /\ Shape' /\ Others(p) /\ At(p) = "record"
         /\ UNCHANGED <<store, fresh>>
         /\ Same(p, {"shown", "run", "latest", "lines", "past", "after", "newest",
                    "rec", "holds", "line", "overridable", "entries", "refusal"})
         /\ page'[p].pc = "charge"
         /\ page'[p].asDecided = (page[p].rec \notin broken["charge"])
<1> DEFINE new ==
             [page[p] EXCEPT !.pc = "charge",
                             !.asDecided = (page[p].rec \notin broken["charge"])]
<1>1. page' = [page EXCEPT ![p] = new]
  BY DEF ReadCharge
<1>2. page'[p] = new /\ Others(p) /\ page' = [q \in Pages |-> page'[q]]
  BY <1>1 DEF Shape, Others
<1>3. IsPage(page[p])
  BY DEF Shape
<1>4. /\ new.pc = "charge"
      /\ new.asDecided = (page[p].rec \notin broken["charge"])
  BY <1>3 DEF IsPage, FieldNames
<1>5. \A f \in {"shown", "run", "latest", "lines", "past", "after", "newest", "rec", "holds", "line", "overridable", "entries", "refusal"} : new[f] = page[p][f]
  BY <1>3 DEF IsPage, FieldNames
<1>6. IsPage(new)
  BY <1>3 DEF IsPage, FieldNames
<1> HIDE DEF new
<1> QED
  BY <1>1, <1>2, <1>4, <1>5, <1>6 DEF ReadCharge, Shape, Others, Same

LEMMA ReadEvidenceEffect ==
  ASSUME Shape, NEW p \in Pages, ReadEvidence(p)
  PROVE  /\ Shape' /\ Others(p) /\ At(p) = "charge"
         /\ UNCHANGED <<store, fresh>>
         /\ Same(p, {"shown", "run", "latest", "lines", "past", "after", "newest",
                    "rec", "asDecided", "line", "overridable", "entries", "refusal"})
         /\ page'[p].pc = "evidence"
         /\ page'[p].holds = (page[p].rec \notin broken["evidence"])
<1> DEFINE new ==
             [page[p] EXCEPT !.pc = "evidence",
                             !.holds = (page[p].rec \notin broken["evidence"])]
<1>1. page' = [page EXCEPT ![p] = new]
  BY DEF ReadEvidence
<1>2. page'[p] = new /\ Others(p) /\ page' = [q \in Pages |-> page'[q]]
  BY <1>1 DEF Shape, Others
<1>3. IsPage(page[p])
  BY DEF Shape
<1>4. /\ new.pc = "evidence"
      /\ new.holds = (page[p].rec \notin broken["evidence"])
  BY <1>3 DEF IsPage, FieldNames
<1>5. \A f \in {"shown", "run", "latest", "lines", "past", "after", "newest", "rec", "asDecided", "line", "overridable", "entries", "refusal"} : new[f] = page[p][f]
  BY <1>3 DEF IsPage, FieldNames
<1>6. IsPage(new)
  BY <1>3 DEF IsPage, FieldNames
<1> HIDE DEF new
<1> QED
  BY <1>1, <1>2, <1>4, <1>5, <1>6 DEF ReadEvidence, Shape, Others, Same

LEMMA ReadLineEffect ==
  ASSUME Shape, NEW p \in Pages, ReadLine(p)
  PROVE  /\ Shape' /\ Others(p) /\ At(p) = "evidence"
         /\ UNCHANGED <<store, fresh>>
         /\ Same(p, {"shown", "run", "latest", "lines", "past", "after", "newest",
                    "rec", "asDecided", "holds", "entries", "refusal"})
         /\ page'[p].pc = "line"
         /\ page'[p].line = Of(page[p].rec[2])
         /\ page'[p].overridable = (page[p].rec = Newest(Of(page[p].rec[2])))
<1> DEFINE new ==
             [page[p] EXCEPT !.pc = "line",
                             !.line = Of(page[p].rec[2]),
                             !.overridable = (page[p].rec = Newest(Of(page[p].rec[2])))]
<1>1. page' = [page EXCEPT ![p] = new]
  BY DEF ReadLine
<1>2. page'[p] = new /\ Others(p) /\ page' = [q \in Pages |-> page'[q]]
  BY <1>1 DEF Shape, Others
<1>3. IsPage(page[p])
  BY DEF Shape
<1>4. /\ new.pc = "line"
      /\ new.line = Of(page[p].rec[2])
      /\ new.overridable = (page[p].rec = Newest(Of(page[p].rec[2])))
  BY <1>3 DEF IsPage, FieldNames
<1>5. \A f \in {"shown", "run", "latest", "lines", "past", "after", "newest", "rec", "asDecided", "holds", "entries", "refusal"} : new[f] = page[p][f]
  BY <1>3 DEF IsPage, FieldNames
<1>6. IsPage(new)
  BY <1>3 DEF IsPage, FieldNames
<1> HIDE DEF new
<1> QED
  BY <1>1, <1>2, <1>4, <1>5, <1>6 DEF ReadLine, Shape, Others, Same

LEMMA ReadEntryEffect ==
  ASSUME Shape, NEW p \in Pages, ReadEntry(p)
  PROVE  /\ Shape' /\ Others(p) /\ At(p) = "line" /\ Unread(p) # {}
         /\ UNCHANGED <<store, fresh>>
         /\ Same(p, {"pc", "shown", "run", "latest", "lines", "past", "after",
                    "newest", "rec", "asDecided", "holds", "line", "overridable", "refusal"})
         /\ page'[p].entries = Append(page[p].entries, <<NextEntry(p), history[NextEntry(p)]>>)
<1> DEFINE new == [page[p] EXCEPT !.entries = Append(@, <<NextEntry(p), history[NextEntry(p)]>>)]
<1>1. page' = [page EXCEPT ![p] = new]
  BY DEF ReadEntry
<1>2. page'[p] = new /\ Others(p) /\ page' = [q \in Pages |-> page'[q]]
  BY <1>1 DEF Shape, Others
<1>3. IsPage(page[p])
  BY DEF Shape
<1>4. /\ new.entries = Append(page[p].entries, <<NextEntry(p), history[NextEntry(p)]>>)
  BY <1>3 DEF IsPage, FieldNames
<1>5. \A f \in {"pc", "shown", "run", "latest", "lines", "past", "after", "newest", "rec", "asDecided", "holds", "line", "overridable", "refusal"} : new[f] = page[p][f]
  BY <1>3 DEF IsPage, FieldNames
<1>6. IsPage(new)
  BY <1>3 DEF IsPage, FieldNames
<1> HIDE DEF new
<1> QED
  BY <1>1, <1>2, <1>4, <1>5, <1>6 DEF ReadEntry, Shape, Others, Same

LEMMA ReadClaimEffect ==
  ASSUME Shape, NEW p \in Pages, ReadClaim(p)
  PROVE  /\ Shape' /\ Others(p) /\ At(p) = "line" /\ Unread(p) = {}
         /\ UNCHANGED <<store, fresh>>
         /\ Same(p, {"shown", "run", "latest", "lines", "past", "after", "newest",
                    "rec", "asDecided", "holds", "line", "overridable", "entries"})
         /\ page'[p].pc = "shown"
         /\ page'[p].refusal = (page[p].rec \in barred)
<1> DEFINE new ==
             [page[p] EXCEPT !.pc = "shown",
                             !.refusal = (page[p].rec \in barred)]
<1>1. page' = [page EXCEPT ![p] = new]
  BY DEF ReadClaim
<1>2. page'[p] = new /\ Others(p) /\ page' = [q \in Pages |-> page'[q]]
  BY <1>1 DEF Shape, Others
<1>3. IsPage(page[p])
  BY DEF Shape
<1>4. /\ new.pc = "shown"
      /\ new.refusal = (page[p].rec \in barred)
  BY <1>3 DEF IsPage, FieldNames
<1>5. \A f \in {"shown", "run", "latest", "lines", "past", "after", "newest", "rec", "asDecided", "holds", "line", "overridable", "entries"} : new[f] = page[p][f]
  BY <1>3 DEF IsPage, FieldNames
<1>6. IsPage(new)
  BY <1>3 DEF IsPage, FieldNames
<1> HIDE DEF new
<1> QED
  BY <1>1, <1>2, <1>4, <1>5, <1>6 DEF ReadClaim, Shape, Others, Same

-----------------------------------------------------------------------------
(* The store. *)

KindsAreKept == broken = [k \in RowKinds |-> broken[k]]

(* A run dates and commits its decisions once and all of them at once. *)
StoreInv ==
  /\ clock \in Nat \ {0} /\ runAt \in [Runs -> 0..(clock - 1)]
  /\ \A r, s \in Runs : runAt[r] = runAt[s] => r = s \/ runAt[r] = 0
  /\ history \in [RecordIds -> Seq(Decisions)]
  /\ checked = [i \in RecordIds |-> checked[i]]
  /\ KindsAreKept
  /\ \A i \in RecordIds :
       checked[i] # None => i \in Stored /\ checked[i] \in Decisions \ {Last(history[i])}
  /\ \A i \in Stored : runAt[i[1]] # 0
  /\ \A i \in Stored : \A l \in Lines : <<i[1], l>> \in Stored

(* What every step keeps of the past. *)
Grows ==
  /\ \A i \in RecordIds : IsPrefix(history[i], history'[i])
  /\ Stored \subseteq Stored' /\ Overridden \subseteq Overridden'
  /\ \A r \in Runs : runAt[r] # 0 => runAt'[r] = runAt[r]

LEMMA KindsStay ==
  ASSUME KindsAreKept, \/ UNCHANGED claims
                       \/ \E i \in RecordIds : ClaimsChange(i)
  PROVE  KindsAreKept'
<1>1. CASE UNCHANGED broken
  BY <1>1 DEF KindsAreKept
<1>2. ASSUME NEW i, NEW k \in RowKinds, broken' = [broken EXCEPT ![k] = SymDiff(@, {i})]
      PROVE  KindsAreKept'
  BY <1>2 DEF KindsAreKept
<1> QED
  BY <1>1, <1>2 DEF ClaimsChange, claims

LEMMA StoreInit == Init => StoreInv
<1> SUFFICES ASSUME Init PROVE StoreInv
  OBVIOUS
<1>1. Stored = {}
  BY DEF Init, Stored
<1>2. << >> \in Seq(Decisions)
  OBVIOUS
<1> QED
  BY <1>1, <1>2 DEF Init, StoreInv, KindsAreKept

LEMMA StartRunStep ==
  ASSUME StoreInv, NEW r \in Runs, StartRun(r)
  PROVE  StoreInv' /\ Grows /\ Stored' = Stored
<1>1. history' = history /\ checked' = checked /\ runAt' = [runAt EXCEPT ![r] = clock] /\ clock' = clock + 1
  BY DEF StartRun
<1>2. Stored' = Stored /\ Overridden' = Overridden
  BY <1>1 DEF Stored, Overridden, Overrides
<1>3. \A i \in RecordIds : IsPrefix(history[i], history'[i])
  BY <1>1, PrefixOfItself DEF StoreInv
<1>4. runAt[r] = 0 /\ \A s \in Runs : runAt'[s] = IF s = r THEN clock ELSE runAt[s]
  BY <1>1 DEF StartRun, StoreInv
<1>5. Grows
  BY <1>2, <1>3, <1>4 DEF Grows
<1>6. /\ clock' \in Nat \ {0} /\ runAt' \in [Runs -> 0..(clock' - 1)]
      /\ \A s, t \in Runs : runAt'[s] = runAt'[t] => s = t \/ runAt'[s] = 0
  BY <1>1, <1>4 DEF StoreInv
<1>7. \A i \in Stored' : runAt'[i[1]] # 0
  BY <1>2, <1>4, <1>1 DEF StoreInv, Stored, RecordIds
<1> QED
  BY <1>1, <1>2, <1>5, <1>6, <1>7, KindsStay DEF StoreInv, StartRun

LEMMA CommitRunStep ==
  ASSUME StoreInv, NEW r \in Runs, CommitRun(r)
  PROVE  StoreInv' /\ Grows /\ fresh' = {}
<1>1. PICK result \in [Lines -> Decided] :
        history' = [i \in RecordIds |-> IF i[1] = r THEN <<result[i[2]]>> ELSE history[i]]
  BY DEF CommitRun
<1>2. /\ runAt[r] # 0 /\ runAt' = runAt /\ clock' = clock /\ checked' = checked /\ fresh' = {}
      /\ \A l \in Lines : history[<<r, l>>] = << >>
  BY DEF CommitRun
<1>3. \A i \in RecordIds : i = <<i[1], i[2]>> /\ i[1] \in Runs /\ i[2] \in Lines
  BY DEF RecordIds
<1>4. \A i \in RecordIds : i[1] = r => history[i] = << >>
  BY <1>2, <1>3
<1>5. Decided \subseteq Decisions
  BY DecidedAssumption
<1>6. history' \in [RecordIds -> Seq(Decisions)]
  BY <1>1, <1>3, <1>5 DEF StoreInv
<1>7. \A i \in RecordIds : i[1] = r => i \in Stored'
  BY <1>1 DEF Stored
<1>8. \A i \in RecordIds : i[1] # r => history'[i] = history[i]
  BY <1>1
<1>9. Stored' = Stored \cup {i \in RecordIds : i[1] = r}
  BY <1>7, <1>8, <1>4 DEF Stored
<1>10. Overridden' = Overridden
  <2>1. \A i \in RecordIds : i[1] = r => Len(history'[i]) = 1
    BY <1>1
  <2>2. \A i \in RecordIds : i[1] = r => Len(history[i]) = 0
    BY <1>4
  <2>3. ASSUME NEW i \in RecordIds PROVE i \in Overridden' <=> i \in Overridden
    <3>1. CASE i[1] = r
      <4>1. ~(Len(history[i]) - 1 > 0)
        BY <2>2, <3>1
      <4>2. ~(Len(history'[i]) - 1 > 0)
        <5>1. Len(history'[i]) = 1
          BY <2>1, <3>1
        <5> DEFINE n == Len(history'[i])
        <5>2. n = 1
          BY <5>1
        <5> HIDE DEF n
        <5>3. ~(n - 1 > 0)
          BY <5>2
        <5> QED
          BY <5>3 DEF n
      <4> QED
        BY <4>1, <4>2 DEF Overridden, Overrides
    <3>2. CASE i[1] # r
      BY <1>8, <1>9, <3>2 DEF Overridden, Overrides
    <3> QED
      BY <3>1, <3>2
  <2> QED
    BY <2>3 DEF Overridden, Stored
<1>11. Grows
  <2>1. ASSUME NEW i \in RecordIds PROVE IsPrefix(history[i], history'[i])
    <3>1. CASE i[1] = r
      BY <1>4, <1>6, <3>1 DEF IsPrefix
    <3>2. CASE i[1] # r
      BY <1>8, <3>2, PrefixOfItself DEF StoreInv
    <3> QED
      BY <3>1, <3>2
  <2> QED
    BY <2>1, <1>2, <1>9, <1>10 DEF Grows
<1>12. \A i \in RecordIds : checked'[i] # None => i[1] # r
  BY <1>2, <1>4 DEF StoreInv, Stored
<1>13. \A i \in Stored' : \A l \in Lines : <<i[1], l>> \in Stored'
  <2> SUFFICES ASSUME NEW i \in Stored', NEW l \in Lines PROVE <<i[1], l>> \in Stored'
    OBVIOUS
  <2>1. i \in RecordIds /\ <<i[1], l>> \in RecordIds
    BY <1>3 DEF Stored, RecordIds
  <2>2. CASE i[1] = r
    BY <1>7, <2>1, <2>2
  <2>3. CASE i[1] # r
    BY <1>9, <2>1, <2>3 DEF StoreInv
  <2> QED
    BY <2>2, <2>3
<1>14. \A i \in RecordIds :
         checked'[i] # None => i \in Stored' /\ checked'[i] \in Decisions \ {Last(history'[i])}
  BY <1>2, <1>8, <1>9, <1>12 DEF StoreInv
<1>15. \A i \in Stored' : runAt'[i[1]] # 0
  BY <1>2, <1>9 DEF StoreInv
<1>16. KindsAreKept'
  BY KindsStay DEF StoreInv, CommitRun
<1> QED
  BY <1>2, <1>6, <1>11, <1>13, <1>14, <1>15, <1>16 DEF StoreInv

LEMMA CommitOverrideStep ==
  ASSUME StoreInv, NEW i \in RecordIds, CommitOverride(i)
  PROVE  StoreInv' /\ Grows /\ Stored' = Stored /\ i \in Stored
         /\ history' = [history EXCEPT ![i] = Append(@, checked[i])]
         /\ checked[i] \in Decisions \ {Last(history[i])}
<1>1. /\ checked[i] # None
      /\ history' = [history EXCEPT ![i] = Append(@, checked[i])]
      /\ checked' = [checked EXCEPT ![i] = None]
      /\ runAt' = runAt /\ clock' = clock
  BY DEF CommitOverride
<1>2. i \in Stored /\ checked[i] \in Decisions \ {Last(history[i])} /\ history[i] \in Seq(Decisions)
  BY <1>1 DEF StoreInv
<1>3. /\ history'[i] = Append(history[i], checked[i]) /\ history'[i] \in Seq(Decisions)
      /\ Len(history'[i]) = Len(history[i]) + 1
  BY <1>1, <1>2 DEF StoreInv
<1>4. \A j \in RecordIds : j # i => history'[j] = history[j] /\ checked'[j] = checked[j]
  BY <1>1 DEF StoreInv
<1>5. history' \in [RecordIds -> Seq(Decisions)]
  BY <1>1, <1>3 DEF StoreInv
<1>6. Stored' = Stored
  BY <1>2, <1>3, <1>4 DEF Stored
<1>7. Overridden \subseteq Overridden'
  <2>1. ASSUME NEW j \in Overridden PROVE Len(history'[j]) - 1 > 0 /\ j \in Stored'
    <3>1. j \in Stored /\ j \in RecordIds /\ Len(history[j]) - 1 > 0
      BY DEF Overridden, Overrides, Stored
    <3>2. Len(history[j]) \in Nat
      BY <3>1 DEF StoreInv
    <3> QED
      BY <1>3, <1>4, <1>6, <3>1, <3>2
  <2> QED
    BY <2>1 DEF Overridden, Overrides
<1>8. \A j \in RecordIds : IsPrefix(history[j], history'[j])
  <2>1. IsPrefix(history[i], history'[i])
    BY <1>2, <1>3, PrefixOfItself, PrefixOfAppend
  <2> QED
    BY <2>1, <1>4, PrefixOfItself DEF StoreInv
<1>9. Grows
  BY <1>1, <1>6, <1>7, <1>8 DEF Grows
<1>10. /\ checked' = [j \in RecordIds |-> checked'[j]] /\ checked'[i] = None
  BY <1>1 DEF StoreInv
<1>11. KindsAreKept'
  BY KindsStay DEF StoreInv, CommitOverride
<1> QED
  BY <1>1, <1>2, <1>4, <1>5, <1>6, <1>9, <1>10, <1>11 DEF StoreInv

(* The other steps write no history. *)
LEMMA OtherStoreStep ==
  ASSUME StoreInv, NEW i \in RecordIds,
         AbortOverride(i) \/ ClaimsChange(i) \/ \E d \in Chosen : Check(i, d)
  PROVE  StoreInv' /\ Grows /\ history' = history /\ page' = page
<1>1. history' = history /\ runAt' = runAt /\ clock' = clock /\ page' = page
  BY DEF AbortOverride, ClaimsChange, Check, claims
<1>2. Stored' = Stored /\ Overridden' = Overridden
  BY <1>1 DEF Stored, Overridden, Overrides
<1>3. Grows
  BY <1>1, <1>2, PrefixOfItself DEF Grows, StoreInv
<1>4. /\ checked' = [j \in RecordIds |-> checked'[j]]
      /\ \A j \in RecordIds :
           checked'[j] # None => j \in Stored /\ checked'[j] \in Decisions \ {Last(history[j])}
  <2>1. CASE AbortOverride(i)
    BY <2>1 DEF AbortOverride, StoreInv
  <2>2. CASE ClaimsChange(i)
    BY <2>2 DEF ClaimsChange, StoreInv
  <2>3. ASSUME NEW d \in Chosen, Check(i, d)
        PROVE  /\ checked' = [j \in RecordIds |-> checked'[j]]
               /\ \A j \in RecordIds :
                    checked'[j] # None => j \in Stored /\ checked'[j] \in Decisions \ {Last(history[j])}
    <3>1. checked' = [checked EXCEPT ![i] = d] /\ i \in Stored /\ d \in Decisions \ {Last(history[i])}
      BY <2>3, DecidedAssumption DEF Check, Accepts, IsNewest
    <3> QED
      BY <3>1 DEF StoreInv
  <2> QED
    BY <2>1, <2>2, <2>3
<1>5. KindsAreKept'
  BY KindsStay DEF StoreInv, AbortOverride, Check
<1> QED
  BY <1>1, <1>2, <1>3, <1>4, <1>5 DEF StoreInv

(* A page reads; and so does everyone in a step that stutters. *)
LEMMA QuietStep ==
  ASSUME StoreInv, UNCHANGED store
  PROVE  StoreInv' /\ Grows
<1>1. history' = history /\ runAt' = runAt /\ clock' = clock /\ checked' = checked
  BY DEF store
<1>2. Stored' = Stored /\ Overridden' = Overridden
  BY <1>1 DEF Stored, Overridden, Overrides
<1>3. KindsAreKept'
  BY KindsStay DEF StoreInv, store
<1> QED
  BY <1>1, <1>2, <1>3, PrefixOfItself DEF Grows, StoreInv

LEMMA ViewIsQuiet ==
  ASSUME NEW p \in Pages, View(p)
  PROVE  UNCHANGED store /\ At(p) # "listed"
BY DEF View, OpenList, ReadOverrides, ReadNewest, OpenDecision, ReadCharge, ReadEvidence, ReadLine,
       ReadEntry, ReadClaim

LEMMA StoreStep == StoreInv /\ [Next]_vars => StoreInv' /\ Grows
<1> SUFFICES ASSUME StoreInv, [Next]_vars PROVE StoreInv' /\ Grows
  OBVIOUS
<1>1. CASE \E r \in Runs : StartRun(r) \/ CommitRun(r)
  BY <1>1, StartRunStep, CommitRunStep
<1>2. CASE \E i \in RecordIds : Review(i)
  BY <1>2, CommitOverrideStep, OtherStoreStep DEF Review
<1>3. CASE \E p \in Pages : View(p)
  BY <1>3, ViewIsQuiet, QuietStep
<1>4. CASE UNCHANGED vars
  BY <1>4, QuietStep DEF vars
<1> QED
  BY <1>1, <1>2, <1>3, <1>4 DEF Next

THEOREM StoreInvariant == Spec => []StoreInv
<1> QED
  BY StoreInit, StoreStep, PTL DEF Spec

(* Runs and reviewers keep, as Views takes them, the promise that Review is shown to
   keep: a history is begun by a run and extended by one changed decision at a time. *)
THEOREM ViewsImplementsHistory == Spec => HistoriesOnlyGrow
<1>1. Init => Log!Init
  BY DEF Init, Log!Init
<1>2. ASSUME StoreInv, StoreInv', [Next]_vars PROVE [Log!Next]_history
  <2>1. ASSUME NEW r \in Runs, CommitRun(r) PROVE Log!Decide
    <3>1. PICK result \in [Lines -> Decided] :
            history' = [i \in RecordIds |-> IF i[1] = r THEN <<result[i[2]]>> ELSE history[i]]
      BY <2>1 DEF CommitRun
    <3>2. \A i \in RecordIds : i = <<i[1], i[2]>> /\ i[2] \in Lines
      BY DEF RecordIds
    <3>3. \A l \in Lines : history[<<r, l>>] = << >> /\ result[l] \in Decisions
      BY <2>1, DecidedAssumption DEF CommitRun
    <3>4. ASSUME NEW i \in RecordIds
          PROVE  \/ history'[i] = history[i]
                 \/ history[i] = << >> /\ \E d \in Decisions : history'[i] = <<d>>
      BY <3>1, <3>2, <3>3
    <3> QED
      BY <1>2, <3>4 DEF Log!Decide, StoreInv
  <2>2. ASSUME NEW i \in RecordIds, CommitOverride(i)
        PROVE  \E d \in Decisions : Log!Override(i, d)
    <3>1. /\ i \in Stored /\ history' = [history EXCEPT ![i] = Append(@, checked[i])]
          /\ checked[i] \in Decisions \ {Last(history[i])}
      BY <1>2, <2>2, CommitOverrideStep
    <3> QED
      BY <3>1 DEF Log!Override, Stored, Last
  <2>3. CASE UNCHANGED history
    BY <2>3
  <2>4. CASE \E i \in RecordIds : Review(i)
    BY <1>2, <2>2, <2>3, <2>4, OtherStoreStep DEF Review, Log!Next
  <2>5. CASE \E r \in Runs : StartRun(r) \/ CommitRun(r)
    BY <2>1, <2>3, <2>5 DEF StartRun, Log!Next
  <2>6. CASE \E p \in Pages : View(p)
    BY <2>3, <2>6, ViewIsQuiet DEF store
  <2> QED
    BY <1>2, <2>3, <2>4, <2>5, <2>6 DEF Next, vars, store
<1> QED
  BY <1>1, <1>2, StoreInvariant, PTL DEF Spec, HistoriesOnlyGrow, Log!Spec

-----------------------------------------------------------------------------
(* Dates. *)

LEMMA PrefixOfPrefix ==
  ASSUME NEW s \in Seq(Decisions), NEW t \in Seq(Decisions), NEW u \in Seq(Decisions),
         IsPrefix(s, t), IsPrefix(t, u)
  PROVE  IsPrefix(s, u)
<1>1. Len(s) <= Len(t) /\ \A n \in 1..Len(s) : s[n] = t[n]
  BY DEF IsPrefix
<1>2. Len(t) <= Len(u) /\ \A n \in 1..Len(t) : t[n] = u[n]
  BY DEF IsPrefix
<1>3. Len(s) <= Len(u) /\ \A n \in 1..Len(s) : s[n] = u[n]
  BY <1>1, <1>2
<1> QED
  BY <1>3 DEF IsPrefix

LEMMA Ids == \A i \in RecordIds : i = <<i[1], i[2]>> /\ i[1] \in Runs /\ i[2] \in Lines
BY DEF RecordIds

LEMMA DateOfStored ==
  ASSUME StoreInv, NEW i \in Stored
  PROVE  DecidedAt(i) \in 0..(clock - 1) /\ DecidedAt(i) # 0 /\ i \in RecordIds
BY Ids DEF StoreInv, DecidedAt, Stored

(* Two decisions of one line are of different runs, which have different dates. *)
LEMMA DatesDiffer ==
  ASSUME StoreInv, NEW i \in Stored, NEW j \in Stored, i[2] = j[2], DecidedAt(i) = DecidedAt(j)
  PROVE  i = j
<1>1. i[1] = j[1]
  BY DateOfStored, Ids DEF StoreInv, DecidedAt
<1> QED
  BY <1>1, Ids, DateOfStored

LEMMA DatesStay ==
  ASSUME StoreInv, Grows, NEW i \in Stored
  PROVE  DecidedAt(i)' = DecidedAt(i) /\ runAt'[i[1]] = runAt[i[1]]
BY DateOfStored, Ids DEF Grows, DecidedAt

LEMMA NewestIs ==
  ASSUME StoreInv, NEW S, S \subseteq Stored, S # {}
  PROVE  Newest(S) \in S /\ \A j \in S : DecidedAt(j) <= DecidedAt(Newest(S))
<1> DEFINE T == {DecidedAt(i) : i \in S}
<1>1. T \subseteq 0..(clock - 1) /\ T # {} /\ clock - 1 \in Nat
  BY DateOfStored DEF StoreInv
<1>2. PICK x \in T : \A y \in T : y <= x
  BY <1>1, GreatestOf
<1>3. \E i \in S : \A j \in S : DecidedAt(j) <= DecidedAt(i)
  BY <1>2
<1> QED
  BY <1>3, Zenon DEF Newest

LEMMA NewestIsTheOne ==
  ASSUME StoreInv, NEW S, S \subseteq Stored, NEW i \in S, \A j \in S : j[2] = i[2]
  PROVE  i = Newest(S) <=> \A j \in S : DecidedAt(j) <= DecidedAt(i)
<1>1. Newest(S) \in S /\ \A j \in S : DecidedAt(j) <= DecidedAt(Newest(S))
  BY NewestIs
<1>2. ASSUME \A j \in S : DecidedAt(j) <= DecidedAt(i) PROVE i = Newest(S)
  <2>1. DecidedAt(i) = DecidedAt(Newest(S))
    BY <1>1, <1>2, DateOfStored
  <2> QED
    BY <1>1, <2>1, DatesDiffer
<1> QED
  BY <1>1, <1>2

LEMMA NewestRunIs ==
  ASSUME StoreInv, StoredRuns # {}
  PROVE  \A r \in StoredRuns : runAt[r] <= runAt[NewestRun(StoredRuns)]
<1> DEFINE T == {runAt[r] : r \in StoredRuns}
<1>1. StoredRuns \subseteq Runs
  BY Ids DEF StoredRuns, Stored
<1>2. T \subseteq 0..(clock - 1) /\ T # {} /\ clock - 1 \in Nat
  BY <1>1 DEF StoreInv
<1>3. PICK x \in T : \A y \in T : y <= x
  BY <1>2, GreatestOf
<1>4. \E r \in StoredRuns : \A s \in StoredRuns : runAt[s] <= runAt[r]
  BY <1>3
<1> QED
  BY <1>4, Zenon DEF NewestRun

LEMMA NextEntryIs ==
  ASSUME StoreInv, NEW p \in Pages, Unread(p) \subseteq Stored, Unread(p) # {}
  PROVE  NextEntry(p) \in Unread(p) /\ \A j \in Unread(p) : DecidedAt(NextEntry(p)) <= DecidedAt(j)
<1> DEFINE T == {DecidedAt(i) : i \in Unread(p)}
<1>1. T \subseteq Nat /\ T # {}
  BY DateOfStored DEF StoreInv
<1>2. PICK x \in T : \A y \in T : x <= y
  BY <1>1, SmallestOf
<1>3. \E i \in Unread(p) : \A j \in Unread(p) : DecidedAt(i) <= DecidedAt(j)
  BY <1>2
<1> QED
  BY <1>3, Zenon DEF NextEntry

-----------------------------------------------------------------------------
(* A list. *)

(* The run it shows is stored as a whole, and is dated no earlier than those of the
   lists it follows, if it shows the newest. *)
ListRun(p) ==
  At(p) \in {"run", "overrides", "listed"} =>
    /\ page[p].run \in StoredRuns /\ page[p].lines = Lines
    /\ page[p].past \subseteq Overridden /\ page[p].after \subseteq Pages
    /\ \A q \in page[p].after : At(q) = "listed" /\ page[q].run \in StoredRuns
    /\ page[p].latest => \A q \in page[p].after : runAt[page[q].run] <= runAt[page[p].run]

(* What it shows of a history is a beginning of it that grows from list to list. *)
ListShown(p) ==
  At(p) \in {"overrides", "listed"} =>
    /\ \A l \in Lines : /\ page[p].shown[l] \in Seq(Decisions)
                        /\ IsPrefix(page[p].shown[l], history[<<page[p].run, l>>])
    /\ \A q \in page[p].after :
         page[q].run = page[p].run =>
           \A l \in Lines : IsPrefix(page[q].shown[l], page[p].shown[l])

(* The newest override it found is at least as new as any there was. *)
ListNewest(p) ==
  At(p) = "listed" =>
    \A i \in page[p].past :
      /\ page[p].newest[i[2]] \in Overridden /\ page[p].newest[i[2]][2] = i[2]
      /\ DecidedAt(i) <= DecidedAt(page[p].newest[i[2]])

ListInv(p) == ListRun(p) /\ ListShown(p) /\ ListNewest(p)

(* Nobody else's step disturbs a list. *)
LEMMA ListFrame ==
  ASSUME StoreInv, StoreInv', Grows, NEW p \in Pages, ListInv(p),
         page'[p] = page[p],
         At(p) \in {"run", "overrides", "listed"} => \A q \in page[p].after : page'[q] = page[q]
  PROVE  ListInv(p)'
<1>1. At(p)' = At(p)
  BY DEF At
<1>2. Stored \subseteq Stored' /\ StoredRuns \subseteq StoredRuns' /\ Overridden \subseteq Overridden'
  BY DEF Grows, StoredRuns
<1>3. \A r \in StoredRuns : runAt'[r] = runAt[r]
  BY DatesStay DEF StoredRuns
<1>4. Overridden \subseteq Stored
  BY DEF Overridden
<1>5. ListRun(p)'
  <2> SUFFICES ASSUME At(p) \in {"run", "overrides", "listed"} PROVE ListRun(p)'
    BY <1>1 DEF ListRun
  <2>1. /\ page[p].run \in StoredRuns /\ page[p].lines = Lines
        /\ page[p].past \subseteq Overridden /\ page[p].after \subseteq Pages
        /\ \A q \in page[p].after : At(q) = "listed" /\ page[q].run \in StoredRuns
        /\ page[p].latest => \A q \in page[p].after : runAt[page[q].run] <= runAt[page[p].run]
    BY DEF ListInv, ListRun
  <2>2. \A q \in page[p].after : At(q)' = At(q) /\ page'[q].run = page[q].run
    BY DEF At
  <2> QED
    BY <1>2, <1>3, <2>1, <2>2 DEF ListRun
<1>6. ListShown(p)'
  <2> SUFFICES ASSUME At(p) \in {"overrides", "listed"} PROVE ListShown(p)'
    BY <1>1 DEF ListShown
  <2>1. page[p].run \in Runs
    BY Ids DEF ListInv, ListRun, StoredRuns, Stored
  <2>2. ASSUME NEW l \in Lines
        PROVE  IsPrefix(page[p].shown[l], history'[<<page[p].run, l>>])
    <3>1. <<page[p].run, l>> \in RecordIds
      BY <2>1 DEF RecordIds
    <3>2. /\ IsPrefix(page[p].shown[l], history[<<page[p].run, l>>])
          /\ IsPrefix(history[<<page[p].run, l>>], history'[<<page[p].run, l>>])
          /\ page[p].shown[l] \in Seq(Decisions)
          /\ history[<<page[p].run, l>>] \in Seq(Decisions)
          /\ history'[<<page[p].run, l>>] \in Seq(Decisions)
      BY <3>1 DEF ListInv, ListShown, Grows, StoreInv
    <3> QED
      BY <3>2, PrefixOfPrefix
  <2>3. \A q \in page[p].after : page'[q] = page[q]
    OBVIOUS
  <2> QED
    BY <2>2, <2>3 DEF ListInv, ListShown
<1>7. ListNewest(p)'
  <2> SUFFICES ASSUME At(p) = "listed", NEW i \in page[p].past
               PROVE  /\ page[p].newest[i[2]] \in Overridden' /\ page[p].newest[i[2]][2] = i[2]
                      /\ DecidedAt(i)' <= DecidedAt(page[p].newest[i[2]])'
    BY <1>1 DEF ListNewest
  <2>1. i \in Overridden
    BY DEF ListInv, ListRun
  <2>2. /\ page[p].newest[i[2]] \in Overridden /\ page[p].newest[i[2]][2] = i[2]
        /\ DecidedAt(i) <= DecidedAt(page[p].newest[i[2]])
    BY DEF ListInv, ListNewest
  <2>3. DecidedAt(i)' = DecidedAt(i)
    BY <1>4, <2>1, DatesStay
  <2>4. DecidedAt(page[p].newest[i[2]])' = DecidedAt(page[p].newest[i[2]])
    BY <1>4, <2>2, DatesStay
  <2> QED
    BY <1>2, <2>2, <2>3, <2>4
<1> QED
  BY <1>5, <1>6, <1>7 DEF ListInv

LEMMA OpenListStep ==
  ASSUME StoreInv, Shape, NEW p \in Pages, OpenList(p), \A q \in Pages : ListInv(q)
  PROVE  ListInv(p)'
<1>1. PICK r \in StoredRuns :
        /\ page'[p].pc = "run" /\ page'[p].run = r
        /\ page'[p].latest = (r = NewestRun(StoredRuns))
        /\ page'[p].lines = Listed(r) /\ page'[p].past = Overridden
        /\ page'[p].after = {q \in Pages : At(q) = "listed"}
  BY OpenListEffect
<1>2. Others(p) /\ At(p) = "idle" /\ UNCHANGED store
  BY OpenListEffect
<1>3. UNCHANGED <<history, runAt>>
  BY <1>2 DEF store
<1>4. Stored' = Stored /\ StoredRuns' = StoredRuns /\ Overridden' = Overridden
  BY <1>3 DEF Stored, StoredRuns, Overridden
<1>5. Listed(r) = Lines
  <2>1. PICK i \in Stored : r = i[1]
    BY DEF StoredRuns
  <2>2. \A l \in Lines : history[<<r, l>>] # << >>
    BY <2>1 DEF StoreInv, Stored
  <2> QED
    BY <2>2 DEF Listed
<1>6. \A q \in page'[p].after : /\ q \in Pages /\ page'[q] = page[q] /\ At(q) = "listed"
                                /\ page[q].run \in StoredRuns
  BY <1>1, <1>2 DEF Others, ListInv, ListRun
<1>7. page'[p].latest => \A q \in page'[p].after : runAt[page[q].run] <= runAt[r]
  BY <1>1, <1>6, NewestRunIs
<1>8. ListRun(p)'
  BY <1>1, <1>3, <1>4, <1>5, <1>6, <1>7 DEF ListRun, At
<1> QED
  BY <1>1, <1>8 DEF ListInv, ListShown, ListNewest, At

LEMMA ReadOverridesStep ==
  ASSUME StoreInv, Shape, NEW p \in Pages, ReadOverrides(p), \A q \in Pages : ListInv(q)
  PROVE  ListInv(p)'
<1>1. /\ page'[p].pc = "overrides" /\ page'[p].run = page[p].run /\ page'[p].latest = page[p].latest
      /\ page'[p].lines = page[p].lines /\ page'[p].past = page[p].past
      /\ page'[p].after = page[p].after
      /\ page'[p].shown = [l \in page[p].lines |-> history[<<page[p].run, l>>]]
      /\ Others(p) /\ At(p) = "run" /\ UNCHANGED store
  BY ReadOverridesEffect DEF Same
<1>2. UNCHANGED <<history, runAt>>
  BY <1>1 DEF store
<1>3. Stored' = Stored /\ StoredRuns' = StoredRuns /\ Overridden' = Overridden
  BY <1>2 DEF Stored, StoredRuns, Overridden
<1>4. /\ page[p].run \in StoredRuns /\ page[p].lines = Lines
      /\ page[p].past \subseteq Overridden /\ page[p].after \subseteq Pages
      /\ \A q \in page[p].after : At(q) = "listed" /\ page[q].run \in StoredRuns
      /\ page[p].latest => \A q \in page[p].after : runAt[page[q].run] <= runAt[page[p].run]
  BY <1>1 DEF ListInv, ListRun
<1>5. \A q \in page[p].after : page'[q] = page[q]
  BY <1>1, <1>4 DEF Others
<1>6. ListRun(p)'
  BY <1>1, <1>2, <1>3, <1>4, <1>5 DEF ListRun, At
<1>7. ListShown(p)'
  <2>1. page[p].run \in Runs
    BY <1>4, Ids DEF StoredRuns, Stored
  <2>2. \A l \in Lines : /\ page'[p].shown[l] = history[<<page[p].run, l>>]
                         /\ history[<<page[p].run, l>>] \in Seq(Decisions)
    BY <1>1, <1>4, <2>1 DEF StoreInv, RecordIds
  <2>3. \A l \in Lines : IsPrefix(page'[p].shown[l], history'[<<page'[p].run, l>>])
    BY <1>1, <1>2, <2>2, PrefixOfItself
  <2>4. ASSUME NEW q \in page[p].after, page[q].run = page[p].run, NEW l \in Lines
        PROVE  IsPrefix(page[q].shown[l], page'[p].shown[l])
    BY <1>4, <2>2, <2>4 DEF ListInv, ListShown
  <2> QED
    BY <1>1, <1>2, <1>5, <2>2, <2>3, <2>4 DEF ListShown
<1> QED
  BY <1>1, <1>6, <1>7 DEF ListInv, ListNewest, At

LEMMA ReadNewestStep ==
  ASSUME StoreInv, Shape, NEW p \in Pages, ReadNewest(p), \A q \in Pages : ListInv(q)
  PROVE  ListInv(p)'
<1>1. /\ page'[p].pc = "listed" /\ page'[p].run = page[p].run /\ page'[p].latest = page[p].latest
      /\ page'[p].lines = page[p].lines /\ page'[p].past = page[p].past
      /\ page'[p].after = page[p].after /\ page'[p].shown = page[p].shown
      /\ page'[p].newest = [l \in page[p].lines |-> NewestOverride(l)]
      /\ Others(p) /\ At(p) = "overrides" /\ UNCHANGED store
  BY ReadNewestEffect DEF Same
<1>2. UNCHANGED <<history, runAt>>
  BY <1>1 DEF store
<1>3. Stored' = Stored /\ StoredRuns' = StoredRuns /\ Overridden' = Overridden
  BY <1>2 DEF Stored, StoredRuns, Overridden
<1>4. /\ page[p].run \in StoredRuns /\ page[p].lines = Lines
      /\ page[p].past \subseteq Overridden /\ page[p].after \subseteq Pages
      /\ \A q \in page[p].after : At(q) = "listed" /\ page[q].run \in StoredRuns
      /\ page[p].latest => \A q \in page[p].after : runAt[page[q].run] <= runAt[page[p].run]
  BY <1>1 DEF ListInv, ListRun
<1>5. \A q \in page[p].after : page'[q] = page[q]
  BY <1>1, <1>4 DEF Others
<1>6. ListRun(p)'
  BY <1>1, <1>2, <1>3, <1>4, <1>5 DEF ListRun, At
<1>7. ListShown(p)'
  <2>1. /\ \A l \in Lines : /\ page[p].shown[l] \in Seq(Decisions)
                            /\ IsPrefix(page[p].shown[l], history[<<page[p].run, l>>])
        /\ \A q \in page[p].after :
             page[q].run = page[p].run =>
               \A l \in Lines : IsPrefix(page[q].shown[l], page[p].shown[l])
    BY <1>1 DEF ListInv, ListShown
  <2> QED
    BY <1>1, <1>2, <1>5, <2>1 DEF ListShown
<1>8. ListNewest(p)'
  <2> SUFFICES ASSUME NEW i \in page[p].past
               PROVE  /\ page'[p].newest[i[2]] \in Overridden' /\ page'[p].newest[i[2]][2] = i[2]
                      /\ runAt'[i[1]] <= runAt'[page'[p].newest[i[2]][1]]
    BY <1>1 DEF ListNewest, DecidedAt
  <2> DEFINE S == Overridden \cap Of(i[2])
  <2>1. i \in S /\ i[2] \in Lines /\ S \subseteq Stored /\ \A j \in S : j[2] = i[2]
    BY <1>4, Ids DEF Of, Overridden, Stored
  <2>2. page'[p].newest[i[2]] = Newest(S)
    BY <1>1, <1>4, <2>1 DEF NewestOverride
  <2>3. Newest(S) \in S /\ DecidedAt(i) <= DecidedAt(Newest(S))
    BY <2>1, NewestIs
  <2> HIDE DEF S
  <2>4. Newest(S) \in Overridden
    BY <2>3 DEF S
  <2> QED
    BY <1>2, <1>3, <2>1, <2>2, <2>3, <2>4 DEF DecidedAt
<1> QED
  BY <1>6, <1>7, <1>8 DEF ListInv

-----------------------------------------------------------------------------
(* A page of one decision. *)

InDecision == {"record", "charge", "evidence", "line", "shown"}

(* What it shows of its decision is a beginning of that history. *)
RecordRead(p) ==
  At(p) \in InDecision =>
    /\ page[p].rec \in Stored /\ page[p].shown \in Seq(Decisions)
    /\ IsPrefix(page[p].shown, history[page[p].rec])

NothingEntered(p) == At(p) \in {"idle", "record", "charge", "evidence"} => page[p].entries = << >>

(* The decisions of the line: its own is the last of them if it may be overridden. *)
LineRead(p) ==
  At(p) \in {"line", "shown"} =>
    /\ page[p].line \subseteq Stored /\ page[p].rec \in page[p].line
    /\ \A i \in page[p].line : i[2] = page[p].rec[2]
    /\ page[p].overridable <=> \A j \in page[p].line : DecidedAt(j) <= DecidedAt(page[p].rec)

(* The entries so far are in the order of the runs, and come before those to be read. *)
EntriesRead(p) ==
  At(p) \in {"line", "shown"} =>
    /\ page[p].entries \in Seq(page[p].line \X Seq(Decisions))
    /\ \A m, n \in 1..Len(page[p].entries) :
         m < n => DecidedAt(page[p].entries[m][1]) < DecidedAt(page[p].entries[n][1])
    /\ \A n \in 1..Len(page[p].entries) : \A j \in Unread(p) :
         DecidedAt(page[p].entries[n][1]) < DecidedAt(j)
    /\ \A n \in 1..Len(page[p].entries) :
         page[p].entries[n][1] = page[p].rec => IsPrefix(page[p].shown, page[p].entries[n][2])

AllRead(p) == At(p) = "shown" => Unread(p) = {}

DecisionInv(p) ==
  RecordRead(p) /\ NothingEntered(p) /\ LineRead(p) /\ EntriesRead(p) /\ AllRead(p)

(* Nobody else's step disturbs it. *)
LEMMA DecisionFrame ==
  ASSUME StoreInv, StoreInv', Grows, NEW p \in Pages, DecisionInv(p), page'[p] = page[p]
  PROVE  DecisionInv(p)'
<1>1. At(p)' = At(p) /\ Unread(p)' = Unread(p)
  BY DEF At, Unread
<1>2. RecordRead(p)'
  <2> SUFFICES ASSUME At(p) \in InDecision PROVE RecordRead(p)'
    BY <1>1 DEF RecordRead
  <2>1. /\ page[p].rec \in Stored /\ page[p].shown \in Seq(Decisions)
        /\ IsPrefix(page[p].shown, history[page[p].rec])
    BY DEF DecisionInv, RecordRead
  <2>2. /\ history[page[p].rec] \in Seq(Decisions) /\ history'[page[p].rec] \in Seq(Decisions)
        /\ IsPrefix(history[page[p].rec], history'[page[p].rec])
        /\ page[p].rec \in Stored'
    BY <2>1, DateOfStored DEF StoreInv, Grows
  <2> QED
    BY <2>1, <2>2, PrefixOfPrefix DEF RecordRead
<1>3. NothingEntered(p)'
  BY <1>1 DEF DecisionInv, NothingEntered
<1>4. At(p) \in {"line", "shown"} =>
        /\ page[p].line \subseteq Stored' /\ page[p].rec \in page[p].line
        /\ \A i \in page[p].line : DecidedAt(i)' = DecidedAt(i)
  BY DatesStay DEF DecisionInv, LineRead, Grows
<1>5. LineRead(p)'
  <2> SUFFICES ASSUME At(p) \in {"line", "shown"} PROVE LineRead(p)'
    BY <1>1 DEF LineRead
  <2>1. /\ \A i \in page[p].line : i[2] = page[p].rec[2]
        /\ page[p].overridable <=> \A j \in page[p].line : DecidedAt(j) <= DecidedAt(page[p].rec)
    BY DEF DecisionInv, LineRead
  <2> QED
    BY <1>4, <2>1 DEF LineRead, DecidedAt
<1>6. EntriesRead(p)'
  <2> SUFFICES ASSUME At(p) \in {"line", "shown"} PROVE EntriesRead(p)'
    BY <1>1 DEF EntriesRead
  <2>1. /\ page[p].entries \in Seq(page[p].line \X Seq(Decisions))
        /\ \A m, n \in 1..Len(page[p].entries) :
             m < n => DecidedAt(page[p].entries[m][1]) < DecidedAt(page[p].entries[n][1])
        /\ \A n \in 1..Len(page[p].entries) : \A j \in Unread(p) :
             DecidedAt(page[p].entries[n][1]) < DecidedAt(j)
        /\ \A n \in 1..Len(page[p].entries) :
             page[p].entries[n][1] = page[p].rec => IsPrefix(page[p].shown, page[p].entries[n][2])
    BY DEF DecisionInv, EntriesRead
  <2>2. \A n \in 1..Len(page[p].entries) : page[p].entries[n][1] \in page[p].line
    BY <2>1
  <2>3. \A n \in 1..Len(page[p].entries) :
          DecidedAt(page[p].entries[n][1])' = DecidedAt(page[p].entries[n][1])
    BY <1>4, <2>2 DEF DecidedAt
  <2>4. \A j \in Unread(p) : DecidedAt(j)' = DecidedAt(j)
    BY <1>4 DEF Unread
  <2> QED
    BY <1>1, <2>1, <2>3, <2>4 DEF EntriesRead, DecidedAt
<1>7. AllRead(p)'
  BY <1>1 DEF DecisionInv, AllRead
<1> QED
  BY <1>2, <1>3, <1>5, <1>6, <1>7 DEF DecisionInv

LEMMA OpenDecisionStep ==
  ASSUME StoreInv, Shape, NEW p \in Pages, OpenDecision(p), DecisionInv(p)
  PROVE  DecisionInv(p)'
<1>1. PICK i \in Stored : page'[p].pc = "record" /\ page'[p].rec = i /\ page'[p].shown = history[i]
  BY OpenDecisionEffect
<1>2. page'[p].entries = page[p].entries /\ At(p) = "idle" /\ UNCHANGED store
  BY OpenDecisionEffect DEF Same
<1>3. history' = history /\ Stored' = Stored
  BY <1>2 DEF store, Stored
<1>4. history[i] \in Seq(Decisions)
  BY DateOfStored DEF StoreInv
<1>5. RecordRead(p)'
  BY <1>1, <1>3, <1>4, PrefixOfItself DEF RecordRead, At
<1> QED
  BY <1>1, <1>2, <1>5
  DEF DecisionInv, NothingEntered, LineRead, EntriesRead, AllRead, At, InDecision

LEMMA ReadChargeStep ==
  ASSUME StoreInv, Shape, NEW p \in Pages, ReadCharge(p), DecisionInv(p)
  PROVE  DecisionInv(p)'
<1>1. /\ page'[p].pc = "charge" /\ page'[p].rec = page[p].rec /\ page'[p].shown = page[p].shown
      /\ page'[p].entries = page[p].entries /\ At(p) = "record" /\ UNCHANGED store
  BY ReadChargeEffect DEF Same
<1>2. history' = history /\ Stored' = Stored
  BY <1>1 DEF store, Stored
<1> QED
  BY <1>1, <1>2
  DEF DecisionInv, RecordRead, NothingEntered, LineRead, EntriesRead, AllRead, At, InDecision

LEMMA ReadEvidenceStep ==
  ASSUME StoreInv, Shape, NEW p \in Pages, ReadEvidence(p), DecisionInv(p)
  PROVE  DecisionInv(p)'
<1>1. /\ page'[p].pc = "evidence" /\ page'[p].rec = page[p].rec /\ page'[p].shown = page[p].shown
      /\ page'[p].entries = page[p].entries /\ At(p) = "charge" /\ UNCHANGED store
  BY ReadEvidenceEffect DEF Same
<1>2. history' = history /\ Stored' = Stored
  BY <1>1 DEF store, Stored
<1> QED
  BY <1>1, <1>2
  DEF DecisionInv, RecordRead, NothingEntered, LineRead, EntriesRead, AllRead, At, InDecision

LEMMA ReadLineStep ==
  ASSUME StoreInv, Shape, NEW p \in Pages, ReadLine(p), DecisionInv(p)
  PROVE  DecisionInv(p)'
<1>1. /\ page'[p].pc = "line" /\ page'[p].line = Of(page[p].rec[2])
      /\ page'[p].overridable = (page[p].rec = Newest(Of(page[p].rec[2])))
      /\ page'[p].rec = page[p].rec /\ page'[p].shown = page[p].shown
      /\ page'[p].entries = page[p].entries /\ At(p) = "evidence" /\ UNCHANGED store
  BY ReadLineEffect DEF Same
<1>2. history' = history /\ runAt' = runAt /\ Stored' = Stored
  BY <1>1 DEF store, Stored
<1>3. page[p].rec \in Stored /\ page[p].entries = << >>
  BY <1>1 DEF DecisionInv, RecordRead, NothingEntered, InDecision
<1>4. /\ page[p].rec \in Of(page[p].rec[2]) /\ Of(page[p].rec[2]) \subseteq Stored
      /\ \A j \in Of(page[p].rec[2]) : j[2] = page[p].rec[2]
  BY <1>3 DEF Of
<1>5. page'[p].overridable <=> \A j \in page'[p].line : DecidedAt(j) <= DecidedAt(page[p].rec)
  <2> DEFINE S == Of(page[p].rec[2])
             i == page[p].rec
  <2>1. S \subseteq Stored /\ i \in S /\ \A j \in S : j[2] = i[2]
    BY <1>4
  <2> HIDE DEF S, i
  <2>2. i = Newest(S) <=> \A j \in S : DecidedAt(j) <= DecidedAt(i)
    BY <2>1, NewestIsTheOne
  <2> QED
    BY <1>1, <2>2 DEF S, i
<1>6. LineRead(p)'
  BY <1>1, <1>2, <1>4, <1>5 DEF LineRead, DecidedAt
<1>7. EntriesRead(p)'
  <2>1. page'[p].entries = << >> /\ Len(<< >>) = 0
    BY <1>1, <1>3
  <2>2. << >> \in Seq(page'[p].line \X Seq(Decisions))
    OBVIOUS
  <2>3. 1..0 = {}
    OBVIOUS
  <2> QED
    BY <2>1, <2>2, <2>3 DEF EntriesRead
<1> QED
  BY <1>1, <1>2, <1>6, <1>7
  DEF DecisionInv, RecordRead, NothingEntered, AllRead, At, InDecision

LEMMA ReadEntryStep ==
  ASSUME StoreInv, Shape, NEW p \in Pages, ReadEntry(p), DecisionInv(p)
  PROVE  DecisionInv(p)'
<1> DEFINE k == NextEntry(p)
           old == page[p].entries
           new == page'[p].entries
<1>1. /\ page'[p].pc = page[p].pc /\ page'[p].line = page[p].line
      /\ page'[p].overridable = page[p].overridable
      /\ page'[p].rec = page[p].rec /\ page'[p].shown = page[p].shown
      /\ new = Append(old, <<k, history[k]>>)
      /\ At(p) = "line" /\ Unread(p) # {} /\ UNCHANGED store
  BY ReadEntryEffect DEF Same
<1>2. history' = history /\ runAt' = runAt /\ Stored' = Stored
  BY <1>1 DEF store, Stored
<1>3. At(p)' = "line"
  BY <1>1 DEF At
<1>4. /\ page[p].line \subseteq Stored /\ page[p].rec \in page[p].line
      /\ \A i \in page[p].line : i[2] = page[p].rec[2]
  BY <1>1 DEF DecisionInv, LineRead
<1>5. /\ old \in Seq(page[p].line \X Seq(Decisions))
      /\ \A m, n \in 1..Len(old) : m < n => DecidedAt(old[m][1]) < DecidedAt(old[n][1])
      /\ \A n \in 1..Len(old) : \A j \in Unread(p) : DecidedAt(old[n][1]) < DecidedAt(j)
      /\ \A n \in 1..Len(old) : old[n][1] = page[p].rec => IsPrefix(page[p].shown, old[n][2])
  BY <1>1 DEF DecisionInv, EntriesRead
<1>6. Unread(p) \subseteq page[p].line
  BY DEF Unread
<1>7. k \in Unread(p) /\ \A j \in Unread(p) : DecidedAt(k) <= DecidedAt(j)
  BY <1>1, <1>4, <1>6, NextEntryIs
<1>8. k \in page[p].line /\ k \in Stored /\ history[k] \in Seq(Decisions)
  BY <1>4, <1>6, <1>7, DateOfStored DEF StoreInv
<1> HIDE DEF k, old, new
<1>9. /\ new \in Seq(page[p].line \X Seq(Decisions)) /\ Len(new) = Len(old) + 1 /\ Len(old) \in Nat
      /\ \A n \in 1..Len(old) : new[n] = old[n]
      /\ new[Len(old) + 1] = <<k, history[k]>>
  BY <1>1, <1>5, <1>8
<1>10. Unread(p)' = Unread(p) \ {k}
  <2>1. \A n \in 1..Len(new) : n \in 1..Len(old) \/ n = Len(old) + 1
    BY <1>9
  <2>2. DOMAIN old = 1..Len(old) /\ DOMAIN new = 1..Len(new)
    BY <1>5, <1>9
  <2>3. {e[1] : e \in Range(new)} = {e[1] : e \in Range(old)} \cup {k}
    <3>1. Range(new) = {new[n] : n \in 1..Len(new)} /\ Range(old) = {old[n] : n \in 1..Len(old)}
      BY <2>2 DEF Range
    <3>2. ASSUME NEW e \in Range(new) PROVE e[1] = k \/ e \in Range(old)
      <4>1. PICK n \in 1..Len(new) : e = new[n]
        BY <3>1
      <4>2. CASE n \in 1..Len(old)
        <5>1. e = old[n]
          BY <1>9, <4>1, <4>2
        <5> QED
          BY <3>1, <4>2, <5>1
      <4>3. CASE n = Len(old) + 1
        BY <1>9, <4>1, <4>3
      <4> QED
        BY <2>1, <4>2, <4>3
    <3>3. ASSUME NEW e \in Range(old) PROVE e \in Range(new)
      <4>1. PICK n \in 1..Len(old) : e = old[n]
        BY <3>1
      <4>2. n \in 1..Len(new) /\ e = new[n]
        BY <1>9, <4>1
      <4> QED
        BY <3>1, <4>2
    <3>4. <<k, history[k]>> \in Range(new) /\ <<k, history[k]>>[1] = k
      <4>1. Len(old) + 1 \in 1..Len(new)
        BY <1>9
      <4> QED
        BY <1>9, <3>1, <4>1
    <3> QED
      BY <3>2, <3>3, <3>4
  <2> QED
    BY <1>1, <2>3 DEF Unread, new, old
<1>11. \A j \in Unread(p)' : DecidedAt(k) < DecidedAt(j)
  BY <1>4, <1>6, <1>7, <1>8, <1>10, DatesDiffer, DateOfStored
<1>12. RecordRead(p)' /\ NothingEntered(p)' /\ LineRead(p)' /\ AllRead(p)'
  BY <1>1, <1>2, <1>3
  DEF DecisionInv, RecordRead, NothingEntered, LineRead, AllRead, At, InDecision, DecidedAt
<1>13. EntriesRead(p)'
  <2>1. ASSUME NEW m \in 1..Len(new), NEW n \in 1..Len(new), m < n
        PROVE  DecidedAt(new[m][1]) < DecidedAt(new[n][1])
    <3>1. m \in 1..Len(old)
      BY <1>9, <2>1
    <3>2. CASE n \in 1..Len(old)
      BY <1>5, <1>9, <2>1, <3>1, <3>2
    <3>3. CASE n = Len(old) + 1
      <4>1. new[n][1] = k /\ new[m] = old[m]
        BY <1>9, <3>1, <3>3
      <4> QED
        BY <1>5, <1>7, <3>1, <4>1
    <3> QED
      BY <1>9, <3>2, <3>3
  <2>2. ASSUME NEW n \in 1..Len(new), NEW j \in Unread(p)'
        PROVE  DecidedAt(new[n][1]) < DecidedAt(j)
    <3>1. CASE n \in 1..Len(old)
      BY <1>5, <1>9, <1>10, <3>1
    <3>2. CASE n = Len(old) + 1
      BY <1>9, <1>11, <3>2
    <3> QED
      BY <1>9, <3>1, <3>2
  <2>3. ASSUME NEW n \in 1..Len(new), new[n][1] = page[p].rec
        PROVE  IsPrefix(page[p].shown, new[n][2])
    <3>1. CASE n \in 1..Len(old)
      BY <1>5, <1>9, <2>3, <3>1
    <3>2. CASE n = Len(old) + 1
      <4>1. k = page[p].rec /\ new[n][2] = history[k]
        BY <1>9, <2>3, <3>2
      <4> QED
        BY <1>1, <4>1 DEF DecisionInv, RecordRead, InDecision
    <3> QED
      BY <1>9, <3>1, <3>2
  <2> QED
    BY <1>1, <1>2, <1>9, <2>1, <2>2, <2>3 DEF EntriesRead, DecidedAt, new
<1> QED
  BY <1>12, <1>13 DEF DecisionInv

LEMMA ReadClaimStep ==
  ASSUME StoreInv, Shape, NEW p \in Pages, ReadClaim(p), DecisionInv(p)
  PROVE  DecisionInv(p)'
<1>1. /\ page'[p].pc = "shown" /\ page'[p].line = page[p].line
      /\ page'[p].overridable = page[p].overridable
      /\ page'[p].rec = page[p].rec /\ page'[p].shown = page[p].shown
      /\ page'[p].entries = page[p].entries
      /\ At(p) = "line" /\ Unread(p) = {} /\ UNCHANGED store
  BY ReadClaimEffect DEF Same
<1>2. history' = history /\ runAt' = runAt /\ Stored' = Stored /\ Unread(p)' = Unread(p)
  BY <1>1 DEF store, Stored, Unread
<1>3. RecordRead(p)' /\ NothingEntered(p)' /\ AllRead(p)'
  BY <1>1, <1>2 DEF DecisionInv, RecordRead, NothingEntered, AllRead, At, InDecision
<1>4. LineRead(p)'
  BY <1>1, <1>2 DEF DecisionInv, LineRead, DecidedAt
<1>5. EntriesRead(p)'
  <2>1. /\ page[p].entries \in Seq(page[p].line \X Seq(Decisions))
        /\ \A m, n \in 1..Len(page[p].entries) :
             m < n => DecidedAt(page[p].entries[m][1]) < DecidedAt(page[p].entries[n][1])
        /\ \A n \in 1..Len(page[p].entries) :
             page[p].entries[n][1] = page[p].rec => IsPrefix(page[p].shown, page[p].entries[n][2])
    BY <1>1 DEF DecisionInv, EntriesRead
  <2>2. \A i : DecidedAt(i)' = DecidedAt(i)
    BY <1>2 DEF DecidedAt
  <2> QED
    BY <1>1, <1>2, <2>1, <2>2 DEF EntriesRead, DecidedAt
<1> QED
  BY <1>3, <1>4, <1>5 DEF DecisionInv

-----------------------------------------------------------------------------
(* A page of a decision since whose first read nothing of that was committed. *)

(* The parts it has read are what the store says now. *)
UpToDate(p) ==
  LET rec == page[p].rec
  IN  /\ page[p].shown = history[rec]
      /\ At(p) # "record" => (page[p].asDecided <=> rec \notin broken["charge"])
      /\ At(p) \notin {"record", "charge"} => (page[p].holds <=> rec \notin broken["evidence"])
      /\ At(p) \in {"line", "shown"} =>
           (page[p].overridable <=> \A j \in Of(rec[2]) : DecidedAt(j) <= DecidedAt(rec))
      /\ At(p) = "shown" => (page[p].refusal <=> rec \in barred)

FreshInv(p) == p \in fresh => At(p) \in InDecision /\ UpToDate(p)

(* What a step leaves of the store for a page of decision i that stays fresh. *)
Undisturbed(i) ==
  /\ history'[i] = history[i] /\ Stored' = Stored
  /\ i \in barred' <=> i \in barred
  /\ \A k \in RowKinds : i \in broken'[k] <=> i \in broken[k]
  /\ \A j \in Stored : DecidedAt(j)' = DecidedAt(j)

LEMMA NothingDisturbs ==
  ASSUME UNCHANGED <<history, runAt, claims>>, NEW i
  PROVE  Undisturbed(i)
<1>1. Stored' = Stored /\ \A j : DecidedAt(j)' = DecidedAt(j)
  BY DEF Stored, DecidedAt
<1> QED
  BY <1>1 DEF claims, Undisturbed

LEMMA FreshFrame ==
  ASSUME StoreInv, NEW p \in Pages, RecordRead(p), FreshInv(p), page'[p] = page[p],
         p \in fresh' => p \in fresh /\ Undisturbed(page[p].rec)
  PROVE  FreshInv(p)'
<1> SUFFICES ASSUME p \in fresh' PROVE FreshInv(p)'
  BY DEF FreshInv
<1> DEFINE rec == page[p].rec
<1>1. p \in fresh /\ Undisturbed(rec) /\ At(p)' = At(p) /\ page'[p].rec = rec
  BY DEF At
<1>2. At(p) \in InDecision /\ UpToDate(p)
  BY <1>1 DEF FreshInv
<1>3. rec \in Stored
  BY <1>2 DEF RecordRead
<1>4. Of(rec[2])' = Of(rec[2]) /\ Of(rec[2]) \subseteq Stored
  BY <1>1 DEF Of, Undisturbed
<1>5. (\A j \in Of(rec[2]) : DecidedAt(j) <= DecidedAt(rec))'
        <=> \A j \in Of(rec[2]) : DecidedAt(j) <= DecidedAt(rec)
  BY <1>1, <1>3, <1>4 DEF Undisturbed, DecidedAt
<1>6. /\ history'[rec] = history[rec] /\ (rec \in barred' <=> rec \in barred)
      /\ rec \in broken'["charge"] <=> rec \in broken["charge"]
      /\ rec \in broken'["evidence"] <=> rec \in broken["evidence"]
  BY <1>1 DEF Undisturbed, RowKinds
<1>7. UpToDate(p)'
  BY <1>1, <1>2, <1>5, <1>6 DEF UpToDate
<1> QED
  BY <1>1, <1>2, <1>7 DEF FreshInv

(* The page's own reads. *)
LEMMA FreshRead ==
  ASSUME StoreInv, Shape, NEW p \in Pages, RecordRead(p), FreshInv(p),
         ReadCharge(p) \/ ReadEvidence(p) \/ ReadLine(p) \/ ReadEntry(p) \/ ReadClaim(p)
  PROVE  FreshInv(p)'
<1>1. /\ fresh' = fresh /\ UNCHANGED <<history, barred, broken, runAt>>
      /\ page'[p].rec = page[p].rec /\ page'[p].shown = page[p].shown
  BY ReadChargeEffect, ReadEvidenceEffect, ReadLineEffect, ReadEntryEffect, ReadClaimEffect
  DEF Same, store, claims
<1>2. Stored' = Stored /\ \A i : DecidedAt(i)' = DecidedAt(i)
  BY <1>1 DEF Stored, DecidedAt
<1>3. \A l : Of(l)' = Of(l)
  BY <1>2 DEF Of
<1> SUFFICES ASSUME p \in fresh PROVE FreshInv(p)'
  BY <1>1 DEF FreshInv
<1> DEFINE rec == page[p].rec
<1>4. UpToDate(p)
  BY DEF FreshInv
<1>5. SUFFICES ASSUME page'[p].pc \in InDecision
               PROVE  UpToDate(p)'
  <2>1. page'[p].pc \in InDecision
    BY ReadChargeEffect, ReadEvidenceEffect, ReadLineEffect, ReadEntryEffect, ReadClaimEffect
    DEF Same, InDecision, At
  <2> QED
    BY <1>5, <2>1 DEF FreshInv, At
<1>6. /\ page'[p].shown = history'[rec] /\ page'[p].rec = rec /\ At(p)' = page'[p].pc
      /\ (\A j \in Of(rec[2]) : DecidedAt(j) <= DecidedAt(rec))'
           <=> \A j \in Of(rec[2]) : DecidedAt(j) <= DecidedAt(rec)
  BY <1>1, <1>2, <1>3, <1>4 DEF UpToDate, At
<1>7. CASE ReadCharge(p)
  <2>1. page'[p].pc = "charge" /\ page'[p].asDecided = (rec \notin broken["charge"])
    BY <1>7, ReadChargeEffect
  <2> QED
    BY <1>1, <1>6, <2>1 DEF UpToDate
<1>8. CASE ReadEvidence(p)
  <2>1. /\ page'[p].pc = "evidence" /\ page'[p].holds = (rec \notin broken["evidence"])
        /\ page'[p].asDecided = page[p].asDecided /\ At(p) = "charge"
    BY <1>8, ReadEvidenceEffect DEF Same
  <2>2. page[p].asDecided <=> rec \notin broken["charge"]
    BY <1>4, <2>1 DEF UpToDate
  <2> QED
    BY <1>1, <1>6, <2>1, <2>2 DEF UpToDate
<1>9. CASE ReadLine(p)
  <2>1. /\ page'[p].pc = "line" /\ At(p) = "evidence"
        /\ page'[p].asDecided = page[p].asDecided /\ page'[p].holds = page[p].holds
        /\ page'[p].overridable = (rec = Newest(Of(rec[2])))
    BY <1>9, ReadLineEffect DEF Same
  <2>2. rec \in Stored
    BY <2>1 DEF RecordRead, InDecision
  <2> DEFINE S == Of(rec[2])
  <2>3. S \subseteq Stored /\ rec \in S /\ \A j \in S : j[2] = rec[2]
    BY <2>2 DEF Of
  <2>4. rec = Newest(S) <=> \A j \in S : DecidedAt(j) <= DecidedAt(rec)
    <3> HIDE DEF S, rec
    <3> QED
      BY <2>3, NewestIsTheOne
  <2>5. page'[p].overridable <=> \A j \in Of(rec[2]) : DecidedAt(j) <= DecidedAt(rec)
    BY <2>1, <2>4
  <2>6. /\ page[p].asDecided <=> rec \notin broken["charge"]
        /\ page[p].holds <=> rec \notin broken["evidence"]
    BY <1>4, <2>1 DEF UpToDate
  <2> QED
    BY <1>1, <1>6, <2>1, <2>5, <2>6 DEF UpToDate
<1>10. ASSUME At(p) = "line", page'[p].asDecided = page[p].asDecided, page'[p].holds = page[p].holds,
              page'[p].overridable = page[p].overridable,
              \/ page'[p].pc = "line"
              \/ page'[p].pc = "shown" /\ page'[p].refusal = (rec \in barred)
       PROVE  UpToDate(p)'
  <2>1. /\ page[p].asDecided <=> rec \notin broken["charge"]
        /\ page[p].holds <=> rec \notin broken["evidence"]
        /\ page[p].overridable <=> \A j \in Of(rec[2]) : DecidedAt(j) <= DecidedAt(rec)
    BY <1>4, <1>10 DEF UpToDate
  <2> QED
    BY <1>1, <1>6, <1>10, <2>1 DEF UpToDate
<1>11. CASE ReadEntry(p)
  BY <1>10, <1>11, ReadEntryEffect DEF Same, At
<1>12. CASE ReadClaim(p)
  BY <1>10, <1>12, ReadClaimEffect DEF Same, At
<1> QED
  BY <1>7, <1>8, <1>9, <1>11, <1>12

-----------------------------------------------------------------------------
(* Together. *)

PagesInv == \A p \in Pages : ListInv(p) /\ DecisionInv(p) /\ FreshInv(p)

Inv == StoreInv /\ Shape /\ PagesInv

LEMMA InvInit == Init => Inv
<1> SUFFICES ASSUME Init PROVE Inv
  OBVIOUS
<1>1. \A p \in Pages : page[p] = Unopened
  BY DEF Init
<1>2. Shape
  BY <1>1 DEF Init, Shape, IsPage, FieldNames, Unopened
<1>3. \A p \in Pages : At(p) = "idle" /\ page[p].entries = << >> /\ p \notin fresh
  BY <1>1 DEF Init, Unopened, At
<1>4. PagesInv
  BY <1>3 DEF PagesInv, ListInv, ListRun, ListShown, ListNewest, DecisionInv, RecordRead,
              NothingEntered, LineRead, EntriesRead, AllRead, FreshInv, InDecision
<1> QED
  BY <1>2, <1>4, StoreInit DEF Inv

(* A step that moves no page. *)
LEMMA StoreMoves ==
  ASSUME Inv, [Next]_vars, page' = page,
         \A p \in Pages : p \in fresh' => p \in fresh /\ Undisturbed(page[p].rec)
  PROVE  Inv'
<1>1. StoreInv' /\ Grows
  BY StoreStep DEF Inv
<1>2. Shape'
  BY DEF Inv, Shape, IsPage
<1>3. ASSUME NEW p \in Pages PROVE ListInv(p)' /\ DecisionInv(p)' /\ FreshInv(p)'
  <2>1. ListInv(p) /\ DecisionInv(p) /\ RecordRead(p) /\ FreshInv(p)
    BY DEF Inv, PagesInv, DecisionInv
  <2> QED
    BY <1>1, <2>1, ListFrame, DecisionFrame, FreshFrame DEF Inv
<1> QED
  BY <1>1, <1>2, <1>3 DEF Inv, PagesInv

(* A step of a page leaves the others where they are. *)
LEMMA OtherPages ==
  ASSUME Inv, NEW p \in Pages, View(p), Others(p), StoreInv', Grows,
         NEW q \in Pages, q # p, q \in fresh' => q \in fresh
  PROVE  ListInv(q)' /\ DecisionInv(q)' /\ FreshInv(q)'
<1>1. ListInv(q) /\ DecisionInv(q) /\ RecordRead(q) /\ FreshInv(q) /\ page'[q] = page[q]
  BY DEF Inv, PagesInv, DecisionInv, Others
<1>2. UNCHANGED store /\ At(p) # "listed"
  BY ViewIsQuiet
<1>3. At(q) \in {"run", "overrides", "listed"} => \A s \in page[q].after : page'[s] = page[s]
  BY <1>1, <1>2 DEF ListInv, ListRun, Others
<1>4. Undisturbed(page[q].rec)
  BY <1>2, NothingDisturbs DEF store
<1> QED
  BY <1>1, <1>3, <1>4, ListFrame, DecisionFrame, FreshFrame DEF Inv

LEMMA ListPageStep ==
  ASSUME Inv, [Next]_vars, NEW p \in Pages, OpenList(p) \/ ReadOverrides(p) \/ ReadNewest(p)
  PROVE  Inv'
<1>1. StoreInv' /\ Grows
  BY StoreStep DEF Inv
<1>2. View(p)
  BY DEF View
<1>3. /\ Shape' /\ Others(p) /\ fresh' = fresh /\ UNCHANGED store
      /\ At(p) \in {"idle", "run", "overrides"} /\ page'[p].entries = page[p].entries
      /\ page'[p].pc \in {"run", "overrides", "listed"}
  BY OpenListEffect, ReadOverridesEffect, ReadNewestEffect DEF Inv, Same
<1>4. ListInv(p)'
  BY OpenListStep, ReadOverridesStep, ReadNewestStep DEF Inv, PagesInv
<1>5. p \notin fresh
  BY <1>3 DEF Inv, PagesInv, FreshInv, InDecision
<1>6. DecisionInv(p)' /\ FreshInv(p)'
  BY <1>3, <1>5 DEF DecisionInv, RecordRead, NothingEntered, LineRead, EntriesRead, AllRead,
                    FreshInv, InDecision, At
<1>7. \A q \in Pages : q # p => ListInv(q)' /\ DecisionInv(q)' /\ FreshInv(q)'
  BY <1>1, <1>2, <1>3, OtherPages
<1> QED
  BY <1>1, <1>3, <1>4, <1>6, <1>7 DEF Inv, PagesInv

LEMMA DecisionPageStep ==
  ASSUME Inv, [Next]_vars, NEW p \in Pages,
         OpenDecision(p) \/ ReadCharge(p) \/ ReadEvidence(p) \/ ReadLine(p) \/ ReadEntry(p) \/ ReadClaim(p)
  PROVE  Inv'
<1>1. StoreInv' /\ Grows
  BY StoreStep DEF Inv
<1>2. View(p)
  BY DEF View
<1>3. /\ Shape' /\ Others(p) /\ UNCHANGED store
      /\ fresh' \subseteq fresh \cup {p} /\ page'[p].pc \in InDecision
  BY OpenDecisionEffect, ReadChargeEffect, ReadEvidenceEffect, ReadLineEffect, ReadEntryEffect, ReadClaimEffect
  DEF Inv, Same, InDecision, At
<1>4. DecisionInv(p) /\ RecordRead(p) /\ FreshInv(p) /\ StoreInv /\ Shape
  BY DEF Inv, PagesInv, DecisionInv
<1>5. DecisionInv(p)'
  BY <1>4, OpenDecisionStep, ReadChargeStep, ReadEvidenceStep, ReadLineStep, ReadEntryStep, ReadClaimStep
<1>6. FreshInv(p)'
  <2>1. CASE OpenDecision(p)
    <3>1. /\ page'[p].pc = "record" /\ page'[p].shown = history[page'[p].rec]
          /\ history' = history
      BY <1>3, <1>4, <2>1, OpenDecisionEffect DEF store
    <3> QED
      BY <3>1 DEF FreshInv, UpToDate, At, InDecision
  <2> QED
    BY <1>4, <2>1, FreshRead
<1>7. ListInv(p)'
  BY <1>3 DEF ListInv, ListRun, ListShown, ListNewest, At, InDecision
<1>8. \A q \in Pages : q # p => ListInv(q)' /\ DecisionInv(q)' /\ FreshInv(q)'
  BY <1>1, <1>2, <1>3, OtherPages
<1> QED
  BY <1>1, <1>3, <1>5, <1>6, <1>7, <1>8 DEF Inv, PagesInv

LEMMA InvStep == Inv /\ [Next]_vars => Inv'
<1> SUFFICES ASSUME Inv, [Next]_vars PROVE Inv'
  OBVIOUS
<1>1. ASSUME NEW r \in Runs, StartRun(r) PROVE Inv'
  <2>1. StoreInv' /\ Grows /\ Stored' = Stored /\ UNCHANGED <<history, claims, page, fresh>>
    BY <1>1, StartRunStep DEF Inv, StartRun
  <2>2. \A p \in Pages : Undisturbed(page[p].rec)
    BY <2>1, DatesStay DEF Undisturbed, claims, Inv
  <2> QED
    BY <2>1, <2>2, StoreMoves
<1>2. ASSUME NEW r \in Runs, CommitRun(r) PROVE Inv'
  BY <1>2, StoreMoves DEF CommitRun
<1>3. ASSUME NEW i \in RecordIds, Review(i) PROVE Inv'
  <2>0. \A p \in Pages \cap fresh : page[p].rec \in RecordIds
    BY DateOfStored DEF Inv, PagesInv, FreshInv, DecisionInv, RecordRead
  <2>1. CASE CommitOverride(i)
    <3>1. /\ UNCHANGED <<runAt, claims, page>> /\ fresh' = fresh \ Showing(i) /\ Stored' = Stored
          /\ \A j \in RecordIds : j # i => history'[j] = history[j]
      BY <2>1, CommitOverrideStep DEF CommitOverride, Inv, StoreInv
    <3>2. \A p \in Pages : p \in fresh' => p \in fresh /\ page[p].rec \in RecordIds \ {i}
      BY <2>0, <3>1 DEF Showing
    <3>3. \A p \in Pages : p \in fresh' => p \in fresh /\ Undisturbed(page[p].rec)
      BY <3>1, <3>2 DEF Undisturbed, claims, DecidedAt
    <3> QED
      BY <3>1, <3>3, StoreMoves
  <2>2. CASE ClaimsChange(i)
    <3>1. /\ UNCHANGED <<history, runAt, page>> /\ fresh' = fresh \ Showing(i) /\ i \in Stored
      BY <2>2 DEF ClaimsChange
    <3>2. \A p \in Pages : p \in fresh' => p \in fresh /\ page[p].rec # i
      BY <3>1 DEF Showing
    <3>3. \A j : j # i => (j \in barred' <=> j \in barred)
      BY <2>2 DEF ClaimsChange, SymDiff
    <3>4. ASSUME NEW j, j # i, NEW k \in RowKinds PROVE j \in broken'[k] <=> j \in broken[k]
      <4>1. broken = [n \in RowKinds |-> broken[n]]
        BY DEF Inv, StoreInv, KindsAreKept
      <4>2. CASE broken' = broken
        BY <4>2
      <4>3. ASSUME NEW n \in RowKinds, broken' = [broken EXCEPT ![n] = SymDiff(@, {i})]
            PROVE  j \in broken'[k] <=> j \in broken[k]
        <5>1. broken'[k] = IF k = n THEN SymDiff(broken[k], {i}) ELSE broken[k]
          BY <4>1, <4>3
        <5> QED
          BY <3>4, <5>1 DEF SymDiff
      <4> QED
        BY <2>2, <4>2, <4>3 DEF ClaimsChange
    <3>5. Stored' = Stored /\ \A j : DecidedAt(j)' = DecidedAt(j)
      BY <3>1 DEF Stored, DecidedAt
    <3>6. \A p \in Pages : p \in fresh' => p \in fresh /\ Undisturbed(page[p].rec)
      BY <3>1, <3>2, <3>3, <3>4, <3>5 DEF Undisturbed
    <3> QED
      BY <3>1, <3>6, StoreMoves
  <2>3. CASE AbortOverride(i) \/ \E d \in Chosen : Check(i, d)
    <3>1. UNCHANGED <<history, runAt, claims, page, fresh>>
      BY <2>3 DEF AbortOverride, Check
    <3>2. \A p \in Pages : Undisturbed(page[p].rec)
      BY <3>1, NothingDisturbs
    <3> QED
      BY <3>1, <3>2, StoreMoves
  <2> QED
    BY <1>3, <2>1, <2>2, <2>3 DEF Review
<1>4. ASSUME NEW p \in Pages, View(p) PROVE Inv'
  BY <1>4, ListPageStep, DecisionPageStep DEF View
<1>5. CASE UNCHANGED vars
  <2>1. UNCHANGED <<history, runAt, claims, page, fresh>>
    BY <1>5 DEF vars, store
  <2>2. \A p \in Pages : Undisturbed(page[p].rec)
    BY <2>1, NothingDisturbs
  <2> QED
    BY <2>1, <2>2, StoreMoves
<1> QED
  BY <1>1, <1>2, <1>3, <1>4, <1>5 DEF Next

THEOREM PageInvariant == Spec => []Inv
<1> QED
  BY InvInit, InvStep, PTL DEF Spec

-----------------------------------------------------------------------------
(* What follows. *)

(* However runs and reviewers go on between the four statements of a list, the newest
   human judgement of a line stays visible, but for the race JudgementStaysVisible
   names (_earlier_override). *)
THEOREM JudgementAlwaysVisible == Spec => []JudgementStaysVisible
<1>1. Inv => JudgementStaysVisible
  <2> SUFFICES ASSUME Inv, NEW p \in Finished("listed"), NEW l \in page[p].lines,
                      NEW i \in page[p].past, i[2] = l, DecidedAt(i) < runAt[page[p].run],
                      \A k \in Overridden : ~(k[2] = l /\ DecidedAt(k) >= runAt[page[p].run])
               PROVE  LET earlier == {k \in page[p].past : k[2] = l /\ DecidedAt(k) < runAt[page[p].run]}
                          found == EarlierOverride(p, l)
                      IN  found # None /\ \A k \in earlier : DecidedAt(k) <= DecidedAt(found)
    BY DEF JudgementStaysVisible
  <2> DEFINE found == page[p].newest[l]
  <2>1. p \in Pages /\ At(p) = "listed" /\ ListNewest(p)
    BY DEF Finished, Inv, PagesInv, ListInv
  <2>2. /\ found \in Overridden /\ found[2] = l
        /\ \A k \in page[p].past : k[2] = l => DecidedAt(k) <= DecidedAt(found)
    BY <2>1 DEF ListNewest
  <2>3. found # None
    BY <2>2, NoneAssumption DEF Overridden, Stored, RecordIds
  <2>4. ~(DecidedAt(found) >= runAt[page[p].run])
    BY <2>2
  <2> HIDE DEF found
  <2>5. EarlierOverride(p, l) = found
    BY <2>3, <2>4 DEF EarlierOverride, found
  <2> QED
    BY <2>2, <2>3, <2>5
<1> QED
  BY <1>1, PageInvariant, PTL

(* Reloading goes forward: a list of the newest run never shows an older run, or less
   of the same one, than a list that was complete before it was opened. *)
THEOREM ReloadsGoForward == Spec => []ReloadGoesForward
<1>1. Inv => ReloadGoesForward
  <2> SUFFICES ASSUME Inv, NEW p \in Finished("listed"), NEW q \in page[p].after,
                      page[p].latest, page[q].latest
               PROVE  /\ runAt[page[q].run] <= runAt[page[p].run]
                      /\ page[q].run = page[p].run =>
                           \A l \in page[q].lines : IsPrefix(Shown(q, l), Shown(p, l))
    BY DEF ReloadGoesForward
  <2>1. p \in Pages /\ At(p) = "listed" /\ ListRun(p) /\ ListShown(p)
    BY DEF Finished, Inv, PagesInv, ListInv
  <2>2. q \in Pages /\ At(q) = "listed" /\ ListRun(q)
    BY <2>1 DEF ListRun, Inv, PagesInv, ListInv
  <2> QED
    BY <2>1, <2>2 DEF ListRun, ListShown, Shown
<1> QED
  BY <1>1, PageInvariant, PTL

(* The page of one decision agrees with itself, however many runs and overrides commit
   between its statements. *)
THEOREM PagesAgreeWithThemselves == Spec => []PageAgreesWithItself
<1>1. Inv => PageAgreesWithItself
  <2> SUFFICES ASSUME Inv, NEW p \in Finished("shown")
               PROVE  LET entries == page[p].entries
                      IN  /\ \A m, n \in DOMAIN entries :
                               m < n => DecidedAt(entries[m][1]) < DecidedAt(entries[n][1])
                          /\ page[p].overridable <=> Last(entries)[1] = page[p].rec
                          /\ \E n \in DOMAIN entries :
                               entries[n][1] = page[p].rec /\ IsPrefix(page[p].shown, entries[n][2])
    BY Zenon DEF PageAgreesWithItself
  <2> DEFINE entries == page[p].entries
             rec == page[p].rec
             line == page[p].line
  <2>1. /\ p \in Pages /\ At(p) = "shown" /\ LineRead(p) /\ EntriesRead(p) /\ Unread(p) = {}
    BY DEF Finished, Inv, PagesInv, DecisionInv, AllRead
  <2>2. /\ line \subseteq Stored /\ rec \in line
        /\ page[p].overridable <=> \A j \in line : DecidedAt(j) <= DecidedAt(rec)
    BY <2>1 DEF LineRead
  <2>3. /\ entries \in Seq(line \X Seq(Decisions))
        /\ \A m, n \in 1..Len(entries) : m < n => DecidedAt(entries[m][1]) < DecidedAt(entries[n][1])
        /\ \A n \in 1..Len(entries) : entries[n][1] = rec => IsPrefix(page[p].shown, entries[n][2])
    BY <2>1 DEF EntriesRead
  <2>4. DOMAIN entries = 1..Len(entries) /\ Len(entries) \in Nat
    BY <2>3
  <2>5. \A j \in line : \E n \in 1..Len(entries) : entries[n][1] = j
    BY <2>1, <2>4 DEF Unread, Range
  <2>6. PICK k \in 1..Len(entries) : entries[k][1] = rec
    BY <2>2, <2>5
  <2>7. \A j \in line : DecidedAt(j) \in Nat
    <3>1. /\ clock \in Nat \ {0} /\ \A i \in Stored : DecidedAt(i) \in 0..(clock - 1)
      BY DateOfStored DEF Inv, StoreInv
    <3> QED
      BY <2>2, <3>1
  <2>8. Last(entries) = entries[Len(entries)] /\ Len(entries) \in 1..Len(entries)
    BY <2>4, <2>6 DEF Last
  <2> HIDE DEF entries, rec, line
  <2>9. \A n \in 1..Len(entries) : entries[n][1] \in line
    <3>1. ASSUME NEW n \in 1..Len(entries) PROVE entries[n] \in line \X Seq(Decisions)
      BY <2>3, <2>4
    <3> QED
      BY <3>1
  <2> DEFINE at(n) == DecidedAt(entries[n][1])
             last == Len(entries)
  <2>10. /\ last \in Nat /\ last \in 1..last /\ \A n \in 1..last : at(n) \in Nat
         /\ \A m, n \in 1..last : m < n => at(m) < at(n)
    BY <2>3, <2>4, <2>7, <2>8, <2>9
  <2>11. at(k) = DecidedAt(rec) /\ entries[last][1] \in line
    BY <2>6, <2>8, <2>9
  <2>12. \A j \in line : \E n \in 1..last : DecidedAt(j) = at(n)
    BY <2>5
  <2>13. ASSUME page[p].overridable PROVE Last(entries)[1] = rec
    <3>1. at(last) <= at(k)
      BY <2>2, <2>11, <2>13
    <3> HIDE DEF at, last
    <3>2. ~(k < last) /\ k <= last
      BY <2>6, <2>10, <3>1 DEF last
    <3>3. k = last
      BY <2>6, <2>10, <3>2 DEF last
    <3> QED
      BY <2>6, <2>8, <3>3 DEF last
  <2>14. ASSUME Last(entries)[1] = rec PROVE page[p].overridable
    <3>1. DecidedAt(rec) = at(last)
      BY <2>8, <2>14
    <3> HIDE DEF at, last
    <3>2. ASSUME NEW n \in 1..last PROVE at(n) <= at(last)
      BY <2>10
    <3> QED
      BY <2>2, <2>12, <3>1, <3>2
  <2>15. \E n \in DOMAIN entries : entries[n][1] = rec /\ IsPrefix(page[p].shown, entries[n][2])
    BY <2>3, <2>4, <2>6
  <2> QED
    BY <2>3, <2>4, <2>13, <2>14, <2>15 DEF entries, rec, line
<1> QED
  BY <1>1, PageInvariant, PTL

(* What a page says is closed stays closed, however old the page is; and a POST accepts
   exactly what a page offers as long as nothing of it is committed since its first
   read, but for a CLAIM that rests on edited rows, some of which no page shows. *)
THEOREM OffersAreAnswered == Spec => []OfferMatchesAnswer
<1>1. Inv => OfferMatchesAnswer
  <2> SUFFICES ASSUME Inv, NEW p \in Finished("shown"), NEW d \in Decisions
               PROVE  LET rec == page[p].rec
                          RowsHold == page[p].asDecided /\ page[p].holds /\ rec \notin broken["other"]
                      IN  /\ Accepts(rec, d) => page[p].overridable
                          /\ p \in fresh =>
                               (Accepts(rec, d) <=> Offers(p, d) /\ (d = "CLAIM" => RowsHold))
    BY DEF OfferMatchesAnswer
  <2> DEFINE rec == page[p].rec
             S == Of(rec[2])
  <2>1. p \in Pages /\ At(p) = "shown" /\ RecordRead(p) /\ LineRead(p) /\ FreshInv(p) /\ StoreInv
    BY DEF Finished, Inv, PagesInv, DecisionInv
  <2>2. rec \in Stored
    BY <2>1 DEF RecordRead, InDecision
  <2>3. S \subseteq Stored /\ rec \in S /\ \A j \in S : j[2] = rec[2]
    BY <2>2 DEF Of
  <2>4. rec = Newest(S) <=> \A j \in S : DecidedAt(j) <= DecidedAt(rec)
    <3> HIDE DEF S, rec
    <3> QED
      BY <2>1, <2>3, NewestIsTheOne
  <2>5. IsNewest(rec) <=> \A j \in S : DecidedAt(j) <= DecidedAt(rec)
    BY <2>2, <2>4 DEF IsNewest
  <2>6. Accepts(rec, d) => page[p].overridable
    <3>1. /\ page[p].line \subseteq Stored /\ \A j \in page[p].line : j[2] = rec[2]
          /\ page[p].overridable <=> \A j \in page[p].line : DecidedAt(j) <= DecidedAt(rec)
      BY <2>1 DEF LineRead
    <3>2. page[p].line \subseteq S
      BY <3>1 DEF Of
    <3> QED
      BY <2>5, <3>1, <3>2 DEF Accepts
  <2>7. ASSUME p \in fresh
        PROVE  Accepts(rec, d) <=> /\ Offers(p, d)
                                   /\ d = "CLAIM" => /\ page[p].asDecided /\ page[p].holds
                                                      /\ rec \notin broken["other"]
    <3>1. /\ page[p].shown = history[rec]
          /\ page[p].asDecided <=> rec \notin broken["charge"]
          /\ page[p].holds <=> rec \notin broken["evidence"]
          /\ page[p].overridable <=> \A j \in S : DecidedAt(j) <= DecidedAt(rec)
          /\ page[p].refusal <=> rec \in barred
      BY <2>1, <2>7 DEF FreshInv, UpToDate
    <3>2. (\A k \in RowKinds : rec \notin broken[k])
            <=> /\ rec \notin broken["charge"] /\ rec \notin broken["evidence"]
                /\ rec \notin broken["other"]
      BY DEF RowKinds
    <3> HIDE DEF S, rec
    <3>3. Accepts(rec, d) <=> /\ IsNewest(rec) /\ d # Last(history[rec])
                              /\ d = "CLAIM" => /\ rec \notin barred
                                                 /\ \A k \in RowKinds : rec \notin broken[k]
      BY DEF Accepts
    <3>4. Offers(p, d) <=> /\ page[p].overridable /\ d # Last(history[rec])
                           /\ d = "CLAIM" => ~page[p].refusal
      BY <3>1 DEF Offers
    <3> QED
      BY <2>5, <3>1, <3>2, <3>3, <3>4
  <2> QED
    BY <2>6, <2>7
<1> QED
  BY <1>1, PageInvariant, PTL
=============================================================================
