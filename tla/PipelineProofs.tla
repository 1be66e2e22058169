--------------------------- MODULE PipelineProofs ---------------------------
(***************************************************************************)
(* One run over any store of any size, with any uploads, failures and the  *)
(* owner's edits in between: every charge it read is decided once, a final *)
(* decision rests on rows that are intact, a fee is dismissed only with a  *)
(* cause and claimed only with a ground, and without an edit the engine    *)
(* and the citation validator agree.                                       *)
(***************************************************************************)
EXTENDS Pipeline, PrecheckProofs, FiniteSetTheorems, SequenceTheorems, TLAPS

-----------------------------------------------------------------------------
(* The order in which a run decides. *)

Keyed(S) ==
  /\ IsFiniteSet(S)
  /\ \A c \in S : IsLine(c)
  /\ \A c, d \in S : c.line = d.line => c = d

Once(s) == \A i, j \in DOMAIN s : s[i] = s[j] => i = j

Below(S, c) == {d \in S : d.line < c.line}

LEMMA BelowSize ==
  ASSUME NEW S, Keyed(S), NEW c \in S
  PROVE  Cardinality(Below(S, c)) \in 0..(Cardinality(S) - 1)
<1>1. IsFiniteSet(S) /\ c.line \in Int
  BY DEF Keyed, IsLine
<1>2. IsFiniteSet(S \ {c}) /\ Cardinality(S \ {c}) = Cardinality(S) - 1
  BY <1>1, FS_RemoveElement
<1>3. Below(S, c) \subseteq S \ {c}
  BY <1>1 DEF Below
<1>4. IsFiniteSet(Below(S, c)) /\ Cardinality(Below(S, c)) <= Cardinality(S \ {c})
  BY <1>2, <1>3, FS_Subset
<1>5. Cardinality(Below(S, c)) \in Nat /\ Cardinality(S) \in Nat
  BY <1>1, <1>4, FS_CardinalityType
<1> QED
  BY <1>2, <1>4, <1>5

LEMMA BelowGrows ==
  ASSUME NEW S, Keyed(S), NEW c \in S, NEW d \in S, c.line < d.line
  PROVE  Cardinality(Below(S, c)) # Cardinality(Below(S, d))
<1>1. /\ IsFiniteSet(S) /\ c.line \in Int /\ d.line \in Int
      /\ \A e \in S : e.line \in Int
  BY DEF Keyed, IsLine
<1>2. Below(S, c) \in SUBSET Below(S, d) /\ c \in Below(S, d) /\ c \notin Below(S, c)
  BY <1>1 DEF Below
<1>3. Below(S, d) \in SUBSET S
  BY DEF Below
<1>4. IsFiniteSet(Below(S, d))
  BY <1>1, <1>3, FS_Subset
<1> QED
  BY <1>2, <1>4, FS_Subset

LEMMA BelowTellsApart ==
  ASSUME NEW S, Keyed(S), NEW c \in S, NEW d \in S,
         Cardinality(Below(S, c)) = Cardinality(Below(S, d))
  PROVE  c = d
<1>1. c.line \in Int /\ d.line \in Int
  BY DEF Keyed, IsLine
<1>2. ~(c.line < d.line) /\ ~(d.line < c.line)
  BY BelowGrows
<1>3. c.line = d.line
  BY <1>1, <1>2
<1> QED
  BY <1>3 DEF Keyed

(* list_charges returns every line once. *)
LEMMA ByLineListsAll ==
  ASSUME NEW S, Keyed(S)
  PROVE  ByLine(S) \in Seq(S) /\ Once(ByLine(S)) /\ Range(ByLine(S)) = S
<1> DEFINE n == Cardinality(S)
           rank == [c \in S |-> Cardinality(Below(S, c)) + 1]
<1>1. IsFiniteSet(S) /\ n \in Nat
  BY FS_CardinalityType DEF Keyed
<1>2. rank \in [S -> 1..n]
  <2>1. ASSUME NEW c \in S PROVE Cardinality(Below(S, c)) + 1 \in 1..n
    BY <1>1, BelowSize
  <2> QED
    BY <2>1
<1>3. \A c, d \in S : rank[c] = rank[d] => c = d
  <2> SUFFICES ASSUME NEW c \in S, NEW d \in S, rank[c] = rank[d] PROVE c = d
    OBVIOUS
  <2>1. /\ Cardinality(Below(S, c)) \in 0..(n - 1)
        /\ Cardinality(Below(S, d)) \in 0..(n - 1)
    BY BelowSize
  <2>2. Cardinality(Below(S, c)) = Cardinality(Below(S, d))
    BY <1>1, <2>1
  <2> QED
    BY <2>2, BelowTellsApart
<1> HIDE DEF n
<1>4. \A i \in 1..n : \E c \in S : rank[c] = i
  <2> HIDE DEF rank
  <2>1. rank \in Injection(S, 1..n)
    BY <1>2, <1>3 DEF Injection, IsInjective
  <2>2. IsFiniteSet(1..n) /\ Cardinality(1..n) = n
    <3>1. IsFiniteSet(1..n) /\ Cardinality(1..n) = IF 1 > n THEN 0 ELSE n - 1 + 1
      BY <1>1, FS_Interval
    <3> QED
      BY <1>1, <3>1
  <2>3. rank \in Surjection(S, 1..n)
    BY <2>1, <2>2, FS_Injection DEF n
  <2> QED
    BY <2>3 DEF Surjection
<1> DEFINE s == ByLine(S)
<1>5. DOMAIN s = 1..n
  BY DEF ByLine, n
<1>6. ASSUME NEW i \in 1..n PROVE s[i] \in S /\ rank[s[i]] = i
  <2>1. PICK c \in S : rank[c] = i
    BY <1>4
  <2>2. Cardinality(Below(S, c)) = i - 1
    BY <2>1, BelowSize, <1>1 DEF n
  <2>3. s[i] = CHOOSE d \in S : Cardinality(Below(S, d)) = i - 1
    BY <1>5 DEF ByLine, Below, n
  <2>4. s[i] \in S /\ Cardinality(Below(S, s[i])) = i - 1
    BY <2>2, <2>3
  <2>5. Cardinality(Below(S, s[i])) + 1 = i
    BY <1>1, <2>4
  <2> QED
    BY <2>4, <2>5
<1>7. s = [i \in 1..n |-> s[i]]
  <2> DEFINE at(i) == CHOOSE c \in S : Cardinality({d \in S : d.line < c.line}) = i - 1
  <2>1. s = [i \in 1..n |-> at(i)]
    BY DEF ByLine, n
  <2> HIDE DEF s, at
  <2> QED
    BY <2>1
<1> HIDE DEF s, rank
<1>8. s \in Seq(S) /\ Len(s) = n
  BY <1>1, <1>5, <1>6, <1>7
<1>9. Once(s)
  BY <1>5, <1>6 DEF Once
<1>10. Range(s) = S
  <2>1. \A c \in S : \E i \in 1..n : s[i] = c
    <3> SUFFICES ASSUME NEW c \in S PROVE \E i \in 1..n : s[i] = c
      OBVIOUS
    <3>1. rank[c] \in 1..n
      BY <1>2
    <3> QED
      BY <1>3, <1>6, <3>1
  <2> QED
    BY <1>5, <1>6, <2>1 DEF Range
<1> QED
  BY <1>8, <1>9, <1>10 DEF s

-----------------------------------------------------------------------------
(* What an assessment finds, it finds in usable records, on checks they hold. *)

Among(a, usable) ==
  \A f \in a.findings : f.record \in usable /\ f.keys \subseteq DOMAIN f.record.checks

LEMMA InboundDefectFindsUsable ==
  ASSUME NEW c, NEW usable
  PROVE  Among(AssessInboundDefect(c, usable), usable)
<1> DEFINE known == c.category = NoRef \/ c.category \in DOMAIN DefectCategories
           keys == IF known THEN DefectKeys(c) ELSE {}
           speaking == {r \in usable : Recorded(r, keys) # {}}
           findings == {DefectFinding(r, keys) : r \in speaking}
<1>1. \A f \in findings : f.record \in usable /\ f.keys \subseteq DOMAIN f.record.checks
  BY DEF DefectFinding, Finding, Recorded
<1> HIDE DEF findings
<1>2. AssessInboundDefect(c, usable).findings \subseteq findings
  BY DEF AssessInboundDefect, Unsettled, NothingRelevant, Conflicting, Settled, Assessment, findings
<1> QED
  BY <1>1, <1>2 DEF Among

LEMMA WeightTierFindsUsable ==
  ASSUME NEW c, NEW usable
  PROVE  Among(AssessWeightTier(c, usable), usable)
BY DEF Among, AssessWeightTier, Unsettled, NothingRelevant, Assessment, Finding, Recorded

LEMMA LostInboundFindsUsable ==
  ASSUME NEW c, NEW usable
  PROVE  Among(AssessLostInbound(c, usable), usable)
<1> DEFINE findings == {LostInboundFinding(r) : r \in {s \in usable : s.agent \in {"prep", "returns"}}}
<1>1. \A f \in findings : f.record \in usable /\ f.keys \subseteq DOMAIN f.record.checks
  BY DEF LostInboundFinding, Finding, Recorded
<1> HIDE DEF findings
<1>2. AssessLostInbound(c, usable).findings \subseteq findings
  BY DEF AssessLostInbound, Unsettled, NothingRelevant, Settled, Assessment, findings
<1> QED
  BY <1>1, <1>2 DEF Among

LEMMA CombineKeeps ==
  ASSUME NEW findings, NEW contradicts, NEW supports
  PROVE  Combine(findings, contradicts, supports).findings \subseteq findings
BY DEF Combine, Unsettled, NothingRelevant, Conflicting, Settled, Assessment

LEMMA AssessFindsUsable ==
  ASSUME NEW c, c.type \in ChargeTypes, NEW usable
  PROVE  Among(Assess(c, usable), usable)
<1>1. CASE c.type = "inbound_defect_fee"
  BY <1>1, InboundDefectFindsUsable DEF Assess
<1>2. CASE c.type = "fulfilment_fee_weight_tier"
  BY <1>2, WeightTierFindsUsable DEF Assess
<1>3. CASE c.type = "lost_inbound"
  BY <1>3, LostInboundFindsUsable DEF Assess
<1>4. CASE c.type = "damaged_in_warehouse"
  <2> DEFINE findings == {DamagedFinding(r) : r \in usable}
  <2>1. \A f \in findings : f.record \in usable /\ f.keys \subseteq DOMAIN f.record.checks
    BY DEF DamagedFinding, Finding
  <2> HIDE DEF findings
  <2>2. Assess(c, usable) = Combine(findings, NoRow, "left_prep_undamaged")
    BY <1>4 DEF Assess, AssessDamaged, findings
  <2> QED
    BY <2>1, <2>2, CombineKeeps DEF Among
<1>5. CASE c.type = "refund_issued_item_not_returned"
  <2> DEFINE findings == {ReturnFinding(r) : r \in usable}
  <2>1. \A f \in findings : f.record \in usable /\ f.keys \subseteq DOMAIN f.record.checks
    BY DEF ReturnFinding, Finding, Says
  <2> HIDE DEF findings
  <2>2. Assess(c, usable).findings \subseteq findings
    BY <1>5, CombineKeeps DEF Assess, AssessRefundNotReturned, findings
  <2> QED
    BY <2>1, <2>2 DEF Among
<1> QED
  BY <1>1, <1>2, <1>3, <1>4, <1>5 DEF ChargeTypes

(* Every record a decision cites is one it was given, under the hash it had. *)
LEMMA CitesWhatItRead ==
  ASSUME NEW c, c.type \in ChargeTypes, NEW pre, NEW canonical, NEW records,
         NEW cite \in EvidenceCited(Decide(c, pre, canonical, records))
  PROVE  \E r \in records : cite.agent = r.agent /\ cite.id = r.id /\ cite.hash = r.seal
<1> DEFINE s == Situation(c, pre, records)
<1>1. Decide(c, pre, canonical, records).citations = Citations(s, canonical)
  BY DEF Decide
<1>2. \A f \in s.a.findings : f.record \in records
  <2>1. s.a = IF Resolved(c, records) THEN Assess(c, Usable(c, records)) ELSE Unsettled({})
    BY DEF Situation
  <2>2. Usable(c, records) \subseteq records
    BY DEF Usable, UnitRecords
  <2>3. Unsettled({}).findings = {}
    BY DEF Unsettled, Assessment
  <2> QED
    BY <2>1, <2>2, <2>3, AssessFindsUsable DEF Among
<1> HIDE DEF s
<1>3. cite \in Citations(s, canonical) /\ cite.kind = "evidence"
  BY <1>1 DEF EvidenceCited
<1>4. PICK f \in s.a.findings : cite = EvidenceCitation(f)
  BY <1>3 DEF Citations, ChargeCitation
<1> QED
  BY <1>2, <1>4 DEF EvidenceCitation

-----------------------------------------------------------------------------
(* The invariant. *)

WellFormed(b) ==
  /\ b = [k \in DOMAIN b |-> b[k]]
  /\ {"agent", "id", "status", "checks", "seal"} \subseteq DOMAIN b
  /\ AreChecks(b.checks)

(* The tables: keys are unique, and without an edit every row is as it was uploaded. *)
TablesInv ==
  /\ asOf \in {s.asOf : s \in Stores}
  /\ Keyed(charges)
  /\ \A v, w \in rows : SameRecord(v, w) => v = w
  /\ \A w \in rows : WellFormed(w.body)
  /\ edited = {} => \A w \in rows : IsIntact(w)

(* What the run has read: a body is intact, or it is the edited one, which is still
   stored. *)
SnapInv ==
  /\ Keyed(snap.charges)
  /\ \A b \in snap.bodies :
       \/ WellFormed(b) /\ b = Sealed(Content(b))
       \/ edited # {} /\ \E w \in rows : w.body = b

(* Every line that was read is either decided, once, or still to decide. *)
ChargesOf(S) == {d.charge : d \in S}

TodoInv ==
  /\ todo \in Seq(snap.charges) /\ Once(todo)
  /\ \A d, e \in decided : d.charge = e.charge => d = e
  /\ ChargesOf(decided) \cap Range(todo) = {}
  /\ ChargesOf(decided) \cup Range(todo) = snap.charges

PcInv ==
  /\ pc \in {"start", "charges", "deciding", "committed", "aborted"}
  /\ pc \in {"start", "aborted"} => snap = NothingRead /\ decided = {}
  /\ pc = "charges" => snap.bodies = {} /\ decided = {}
  /\ pc = "committed" => todo = <<>>
  /\ snap = [f \in {"charges", "bodies", "pre", "failed"} |-> snap[f]]

Inv == TablesInv /\ SnapInv /\ TodoInv /\ PcInv

LEMMA SealedIsWellFormed ==
  ASSUME NEW b, {"agent", "id", "status", "checks"} \subseteq DOMAIN b, AreChecks(b.checks)
  PROVE  /\ WellFormed(Sealed(Content(b)))
         /\ Sealed(Content(b)).agent = b.agent /\ Sealed(Content(b)).id = b.id
<1>1. /\ DOMAIN Content(b) = DOMAIN b \ {"seal"} /\ Content(b).agent = b.agent
      /\ Content(b).id = b.id /\ Content(b).checks = b.checks
  BY DEF Content
<1>2. DOMAIN Sealed(Content(b)) = (DOMAIN b \ {"seal"}) \cup {"seal"} /\ Sealed(Content(b)).checks = b.checks
  BY <1>1 DEF Sealed
<1> QED
  BY <1>1, <1>2 DEF WellFormed, Sealed

LEMMA IntactRow ==
  ASSUME NEW w, IsIntact(w)
  PROVE  WellFormed(w.body) /\ w.body = Sealed(Content(w.body)) /\ w.column = Content(w.body)
<1>1. w.body = Sealed(Content(w.body)) /\ w.column = Content(w.body)
  BY DEF IsIntact
<1>2. WellFormed(Sealed(Content(w.body)))
  BY SealedIsWellFormed DEF IsIntact
<1> QED
  BY <1>1, <1>2

LEMMA NothingReadInv ==
  ASSUME snap = NothingRead, todo = <<>>, decided = {}
  PROVE  SnapInv /\ TodoInv
<1>1. snap.charges = {} /\ snap.bodies = {}
  BY DEF NothingRead
<1>2. Keyed({})
  BY FS_EmptySet DEF Keyed
<1>3. todo \in Seq(snap.charges) /\ Once(todo) /\ Range(todo) = {}
  BY DEF Once, Range
<1> QED
  BY <1>1, <1>2, <1>3 DEF SnapInv, TodoInv, ChargesOf

LEMMA InvInit == Init => Inv
<1> SUFFICES ASSUME Init PROVE Inv
  OBVIOUS
<1>1. PICK s \in Stores : charges = s.charges /\ rows = s.rows /\ asOf = s.asOf
  BY DEF Init
<1>2. TablesInv
  <2>1. Keyed(charges)
    BY <1>1, StoresAssumption DEF Keyed
  <2>2. \A v, w \in rows : SameRecord(v, w) => v = w
    BY <1>1, StoresAssumption
  <2>3. \A w \in rows : IsIntact(w)
    BY <1>1, StoresAssumption
  <2> QED
    BY <1>1, <2>1, <2>2, <2>3, IntactRow DEF TablesInv
<1>3. SnapInv /\ TodoInv
  BY NothingReadInv DEF Init
<1>4. PcInv
  BY DEF Init, PcInv, NothingRead
<1> QED
  BY <1>2, <1>3, <1>4 DEF Inv

(* The other transactions. *)

LEMMA IngestChargeStep ==
  ASSUME Inv, NEW c \in LateCharges(asOf), IngestCharge(c)
  PROVE  Inv'
<1>1. Keyed(charges')
  <2>1. IsLine(c)
    BY StoresAssumption DEF Inv, TablesInv
  <2>2. charges' = charges \cup {c} /\ \A d \in charges : d.line # c.line
    BY DEF IngestCharge
  <2>3. IsFiniteSet(charges')
    BY <2>2, FS_AddElement DEF Inv, TablesInv, Keyed
  <2> QED
    BY <2>1, <2>2, <2>3 DEF Inv, TablesInv, Keyed
<1>2. UNCHANGED <<rows, asOf, edited, run>>
  BY DEF IngestCharge
<1> QED
  BY <1>1, <1>2 DEF Inv, TablesInv, SnapInv, TodoInv, PcInv, run, SameRecord

LEMMA EditChargeStep ==
  ASSUME Inv, NEW c \in charges, EditCharge(c)
  PROVE  Inv'
<1>1. PICK new \in {{[c EXCEPT !.amount = @ + 1]}, {}} : charges' = (charges \ {c}) \cup new
  BY DEF EditCharge
<1>2. edited = {} /\ edited' = {c} /\ UNCHANGED <<rows, asOf, run>>
  BY DEF EditCharge
<1>3. Keyed(charges')
  <2>1. Keyed(charges) /\ IsLine(c)
    BY DEF Inv, TablesInv, Keyed
  <2>2. \A d \in new : IsLine(d) /\ d.line = c.line
    BY <2>1 DEF IsLine
  <2>3. IsFiniteSet(charges')
    <3>1. IsFiniteSet(charges \ {c})
      BY <2>1, FS_RemoveElement DEF Keyed
    <3> QED
      BY <1>1, <3>1, FS_AddElement
  <2>4. \A d, e \in new : d = e
    BY <1>1
  <2> QED
    BY <1>1, <2>1, <2>2, <2>3, <2>4 DEF Keyed
<1>4. \A w \in rows : IsIntact(w)
  BY <1>2 DEF Inv, TablesInv
<1>5. SnapInv'
  BY <1>2 DEF Inv, SnapInv, run
<1> QED
  BY <1>2, <1>3, <1>5 DEF Inv, TablesInv, TodoInv, PcInv, run, SameRecord

LEMMA IngestRowStep ==
  ASSUME Inv, NEW w \in LateRows(asOf), IngestRow(w)
  PROVE  Inv'
<1>1. IsIntact(w)
  BY StoresAssumption DEF Inv, TablesInv
<1>2. rows' = rows \cup {w} /\ \A v \in rows : ~SameRecord(v, w) /\ ~SameRecord(w, v)
  BY DEF IngestRow, CitedRow, SameRecord
<1>3. UNCHANGED <<charges, asOf, edited, run>>
  BY DEF IngestRow
<1>4. TablesInv'
  <2>1. \A u, v \in rows' : SameRecord(u, v) => u = v
    BY <1>2 DEF Inv, TablesInv
  <2> QED
    BY <1>1, <1>2, <1>3, <2>1, IntactRow DEF Inv, TablesInv, SameRecord
<1>5. SnapInv'
  BY <1>2, <1>3 DEF Inv, SnapInv, run
<1> QED
  BY <1>3, <1>4, <1>5 DEF Inv, TodoInv, PcInv, run

LEMMA EditRowStep ==
  ASSUME Inv, NEW w \in rows, EditRow(w)
  PROVE  Inv'
<1>1. PICK k \in EditedChecks :
        \E new \in {{[w EXCEPT !.body = [w.body EXCEPT !.checks = k]]},
                    {[w EXCEPT !.body = Sealed(Content([w.body EXCEPT !.checks = k]))]},
                    {[w EXCEPT !.column = Content([w.body EXCEPT !.checks = k])]}, {}} :
           rows' = (rows \ {w}) \cup new
  BY DEF EditRow
<1>2. edited = {} /\ edited' = {w} /\ UNCHANGED <<charges, asOf, run>>
  BY DEF EditRow
<1>3. PICK new : /\ rows' = (rows \ {w}) \cup new
                 /\ \A u, v \in new : u = v
                 /\ \A v \in new : WellFormed(v.body) /\ SameRecord(v, w)
  <2> DEFINE body == [w.body EXCEPT !.checks = k]
  <2>1. /\ WellFormed(w.body)
        /\ w = [body |-> w.body, column |-> w.column]
    <3>1. IsIntact(w)
      BY <1>2 DEF Inv, TablesInv
    <3> QED
      BY <3>1, IntactRow DEF IsIntact
  <2>2. WellFormed(body) /\ body.agent = w.body.agent /\ body.id = w.body.id
    <3>1. body.checks = k /\ AreChecks(k)
      BY <2>1, EditedChecksAssumption DEF WellFormed
    <3> QED
      BY <2>1, <3>1 DEF WellFormed
  <2> HIDE DEF body
  <2>3. /\ WellFormed(Sealed(Content(body)))
        /\ Sealed(Content(body)).agent = w.body.agent /\ Sealed(Content(body)).id = w.body.id
    BY <2>2, SealedIsWellFormed DEF WellFormed
  <2> DEFINE v1 == [w EXCEPT !.body = body]
             v2 == [w EXCEPT !.body = Sealed(Content(body))]
             v3 == [w EXCEPT !.column = Content(body)]
  <2>4. v1.body = body /\ v2.body = Sealed(Content(body)) /\ v3.body = w.body
    BY <2>1
  <2>5. \E new \in {{v1}, {v2}, {v3}, {}} : rows' = (rows \ {w}) \cup new
    BY <1>1 DEF body
  <2> HIDE DEF v1, v2, v3
  <2>6. \A v \in {v1, v2, v3} : WellFormed(v.body) /\ SameRecord(v, w)
    BY <2>1, <2>2, <2>3, <2>4 DEF SameRecord
  <2> QED
    BY <2>5, <2>6
<1>4. TablesInv'
  <2>1. \A u, v \in rows' : SameRecord(u, v) => u = v
    BY <1>3 DEF Inv, TablesInv, SameRecord
  <2>2. \A v \in rows' : WellFormed(v.body)
    BY <1>3 DEF Inv, TablesInv
  <2> QED
    BY <1>2, <2>1, <2>2 DEF Inv, TablesInv, SameRecord
<1>5. SnapInv'
  BY <1>2 DEF Inv, SnapInv, run
<1> QED
  BY <1>2, <1>4, <1>5 DEF Inv, TodoInv, PcInv, run

(* The run. *)

LEMMA ReadChargesStep ==
  ASSUME Inv, ReadCharges
  PROVE  Inv'
<1>1. /\ pc = "start" /\ pc' = "charges" /\ UNCHANGED <<decided, store>>
      /\ snap' = [snap EXCEPT !.charges = charges] /\ todo' = ByLine(charges)
  BY DEF ReadCharges
<1>2. snap = NothingRead /\ decided = {}
  BY <1>1 DEF Inv, PcInv
<1>3. snap' = [charges |-> charges, bodies |-> {}, pre |-> <<>>, failed |-> FALSE]
  BY <1>1, <1>2 DEF NothingRead
<1>4. Keyed(charges)
  BY DEF Inv, TablesInv
<1>5. ByLine(charges) \in Seq(charges) /\ Once(ByLine(charges)) /\ Range(ByLine(charges)) = charges
  BY <1>4, ByLineListsAll
<1>6. TodoInv'
  BY <1>1, <1>2, <1>3, <1>5 DEF TodoInv, ChargesOf
<1>7. SnapInv'
  BY <1>1, <1>3, <1>4 DEF SnapInv, store, Keyed
<1>8. TablesInv'
  BY <1>1 DEF Inv, TablesInv, store
<1>9. PcInv'
  <2>1. snap'.bodies = {} /\ snap' = [f \in {"charges", "bodies", "pre", "failed"} |-> snap'[f]]
    BY <1>3
  <2> QED
    BY <1>1, <1>2, <2>1 DEF PcInv
<1> QED
  BY <1>6, <1>7, <1>8, <1>9 DEF Inv

LEMMA ReadRecordsStep ==
  ASSUME Inv, ReadRecords
  PROVE  Inv'
<1>1. /\ pc = "charges" /\ pc' = "deciding" /\ UNCHANGED <<todo, decided, store>>
      /\ \E failed \in BOOLEAN :
           snap' = [snap EXCEPT !.bodies = {w.body : w \in rows}, !.failed = failed,
                                !.pre = IF failed THEN <<>> ELSE RunPrechecks(snap.charges)]
  BY DEF ReadRecords
<1>2. /\ snap'.charges = snap.charges /\ snap'.bodies = {w.body : w \in rows}
      /\ snap' = [f \in {"charges", "bodies", "pre", "failed"} |-> snap'[f]]
  BY <1>1 DEF Inv, PcInv
<1>3. SnapInv'
  <2>1. Keyed(snap'.charges)
    BY <1>2 DEF Inv, SnapInv
  <2>2. ASSUME NEW w \in rows
        PROVE  \/ WellFormed(w.body) /\ w.body = Sealed(Content(w.body))
               \/ edited # {} /\ \E v \in rows : v.body = w.body
    BY IntactRow DEF Inv, TablesInv
  <2> QED
    BY <1>1, <1>2, <2>1, <2>2 DEF SnapInv, store
<1>4. TodoInv'
  BY <1>1, <1>2 DEF Inv, TodoInv
<1>5. TablesInv' /\ PcInv'
  BY <1>1, <1>2 DEF Inv, TablesInv, PcInv, store
<1> QED
  BY <1>3, <1>4, <1>5 DEF Inv

(* The first line to decide gets a decision. *)
LEMMA StoreStep ==
  ASSUME Inv, pc = "deciding", todo # <<>>, NEW d, d.charge = Head(todo), Store(d)
  PROVE  Inv'
<1> DEFINE c == Head(todo)
<1>1. /\ decided' = decided \cup {d} /\ todo' = Tail(todo)
      /\ UNCHANGED <<pc, snap, store>>
  BY DEF Store
<1>2. /\ todo \in Seq(snap.charges) /\ Once(todo) /\ Len(todo) \in Nat \ {0}
      /\ DOMAIN todo = 1..Len(todo) /\ c = todo[1]
  BY DEF Inv, TodoInv
<1>3. /\ todo' \in Seq(snap.charges) /\ DOMAIN todo' = 1..(Len(todo) - 1)
      /\ \A i \in DOMAIN todo' : todo'[i] = todo[i + 1]
  BY <1>1, <1>2
<1>4. Once(todo')
  <2> SUFFICES ASSUME NEW i \in DOMAIN todo', NEW j \in DOMAIN todo', todo'[i] = todo'[j]
               PROVE  i = j
    BY DEF Once
  <2>1. i + 1 \in DOMAIN todo /\ j + 1 \in DOMAIN todo
    BY <1>2, <1>3
  <2>2. i + 1 = j + 1
    BY <1>2, <1>3, <2>1 DEF Once
  <2> QED
    BY <1>2, <1>3, <2>2
<1>5. Range(todo') = Range(todo) \ {c} /\ c \in Range(todo)
  <2>1. \A i \in DOMAIN todo' : i + 1 \in DOMAIN todo /\ i + 1 # 1
    BY <1>2, <1>3
  <2>2. \A i \in DOMAIN todo : i = 1 \/ (i - 1 \in DOMAIN todo' /\ todo'[i - 1] = todo[i])
    BY <1>2, <1>3
  <2>3. 1 \in DOMAIN todo
    BY <1>2
  <2>4. ASSUME NEW x \in Range(todo') PROVE x \in Range(todo) \ {c}
    <3>1. PICK i \in DOMAIN todo' : x = todo'[i]
      BY DEF Range
    <3>2. x = todo[i + 1] /\ i + 1 \in DOMAIN todo /\ i + 1 # 1
      BY <1>3, <2>1, <3>1
    <3> QED
      BY <1>2, <2>3, <3>2 DEF Range, Once
  <2>5. ASSUME NEW x \in Range(todo) \ {c} PROVE x \in Range(todo')
    <3>1. PICK i \in DOMAIN todo : x = todo[i]
      BY DEF Range
    <3> QED
      BY <1>2, <2>2, <3>1 DEF Range
  <2> QED
    BY <1>2, <2>3, <2>4, <2>5 DEF Range
<1> HIDE DEF c
<1>6. ChargesOf(decided') = ChargesOf(decided) \cup {c}
  BY <1>1 DEF ChargesOf, c
<1>7. \A e \in decided : e.charge # c
  BY <1>5 DEF Inv, TodoInv, ChargesOf
<1>8. \A e, f \in decided' : e.charge = f.charge => e = f
  BY <1>1, <1>7 DEF Inv, TodoInv, c
<1>9. TodoInv'
  <2>1. /\ ChargesOf(decided) \cap Range(todo) = {}
        /\ ChargesOf(decided) \cup Range(todo) = snap.charges
    BY DEF Inv, TodoInv
  <2>2. /\ ChargesOf(decided') \cap Range(todo') = {}
        /\ ChargesOf(decided') \cup Range(todo') = snap.charges
    BY <1>5, <1>6, <2>1
  <2> QED
    BY <1>1, <1>3, <1>4, <1>8, <2>2 DEF TodoInv, ChargesOf
<1>10. TablesInv' /\ SnapInv'
  BY <1>1 DEF Inv, TablesInv, SnapInv, store
<1>11. PcInv'
  BY <1>1 DEF Inv, PcInv
<1> QED
  BY <1>9, <1>10, <1>11 DEF Inv

(* What each of the three ways to decide a line stores. *)
LEMMA StoredDecision ==
  ASSUME DecideOne \/ FailOpenOnError \/ FailOpenOnDatabase
  PROVE  /\ pc = "deciding" /\ todo # <<>>
         /\ \E d : /\ d.charge = Head(todo) /\ Store(d)
                   /\ \/ d.status = "pending" /\ \E code : d = FailOpen(Head(todo), code)
                      \/ /\ ~snap.failed /\ ~Raises(DecideLine(Head(todo)))
                         /\ d = Enforce(DecideLine(Head(todo)),
                                        Valid(DecideLine(Head(todo)), charges, rows, FALSE))
<1>1. \A c, code : FailOpen(c, code).charge = c /\ FailOpen(c, code).status = "pending"
  BY DEF FailOpen
<1>2. \A c, v : Enforce(DecideLine(c), v).charge = c
  BY DEF DecideLine, Decide, Enforce
<1>3. CASE DecideOne
  BY <1>2, <1>3 DEF DecideOne
<1>4. CASE FailOpenOnError
  <2>1. pc = "deciding" /\ todo # <<>> /\ Store(FailOpen(Head(todo), "ENGINE_ERROR"))
    BY <1>4 DEF FailOpenOnError
  <2> QED
    BY <1>1, <2>1
<1>5. CASE FailOpenOnDatabase
  BY <1>1, <1>5 DEF FailOpenOnDatabase
<1> QED
  BY <1>3, <1>4, <1>5

LEMMA InvStep == Inv /\ [Next]_vars => Inv'
<1> SUFFICES ASSUME Inv, [Next]_vars PROVE Inv'
  OBVIOUS
<1>1. CASE DecideOne \/ FailOpenOnError \/ FailOpenOnDatabase
  BY <1>1, StoredDecision, StoreStep
<1>2. CASE Commit
  BY <1>2 DEF Commit, Inv, TablesInv, SnapInv, TodoInv, PcInv, store
<1>3. CASE Abort
  <2>1. /\ pc' = "aborted" /\ snap' = NothingRead /\ todo' = <<>> /\ decided' = {}
        /\ UNCHANGED store
    BY <1>3 DEF Abort
  <2>2. SnapInv' /\ TodoInv'
    <3>1. Keyed({}) /\ NothingRead.charges = {} /\ NothingRead.bodies = {}
      BY FS_EmptySet DEF Keyed, NothingRead
    <3>2. <<>> \in Seq({}) /\ Once(<<>>) /\ Range(<<>>) = {}
      BY DEF Once, Range
    <3> QED
      BY <2>1, <3>1, <3>2 DEF SnapInv, TodoInv, ChargesOf
  <2>3. TablesInv' /\ PcInv'
    BY <2>1 DEF Inv, TablesInv, PcInv, store, NothingRead
  <2> QED
    BY <2>2, <2>3 DEF Inv
<1>4. CASE Restart
  BY <1>4 DEF Restart, Inv, TablesInv, SnapInv, TodoInv, PcInv, store
<1>5. CASE UNCHANGED vars
  BY <1>5 DEF vars, store, run, Inv, TablesInv, SnapInv, TodoInv, PcInv
<1>6. ASSUME NEW c \in LateCharges(asOf), IngestCharge(c) PROVE Inv'
  BY <1>6, IngestChargeStep
<1>7. ASSUME NEW w \in LateRows(asOf), IngestRow(w) PROVE Inv'
  BY <1>7, IngestRowStep
<1>8. ASSUME NEW w \in rows, EditRow(w) PROVE Inv'
  BY <1>8, EditRowStep
<1>9. ASSUME NEW c \in charges, EditCharge(c) PROVE Inv'
  BY <1>9, EditChargeStep
<1> QED
  BY <1>1, <1>2, <1>3, <1>4, <1>5, <1>6, <1>7, <1>8, <1>9, ReadChargesStep, ReadRecordsStep
  DEF Next, Step, Done

THEOREM RunInvariant == Spec => []Inv
<1> QED
  BY InvInit, InvStep, PTL DEF Spec

-----------------------------------------------------------------------------
(* What follows. *)

(* Whatever fails and whoever commits meanwhile, a run that commits has decided every
   charge it read, each once (pipeline doc, "Every charge gets a persisted decision"). *)
THEOREM EveryChargeIsDecided == Spec => []CommitCoversSnapshot
<1>1. Inv => CommitCoversSnapshot
  <2> SUFFICES ASSUME Inv, pc = "committed"
               PROVE  /\ Cardinality(decided) = Cardinality(snap.charges)
                      /\ ChargesOf(decided) = snap.charges
    BY DEF CommitCoversSnapshot, ChargesOf
  <2>1. ChargesOf(decided) = snap.charges
    <3>1. Range(todo) = {}
      BY DEF Inv, PcInv, Range
    <3> QED
      BY <3>1 DEF Inv, TodoInv
  <2>2. \A d, e \in decided : d.charge = e.charge => d = e
    BY DEF Inv, TodoInv
  <2> DEFINE f == [d \in decided |-> d.charge]
  <2>3. f \in Injection(decided, snap.charges) /\ f \in Surjection(decided, snap.charges)
    BY <2>1, <2>2 DEF Injection, IsInjective, Surjection, ChargesOf
  <2>4. IsFiniteSet(snap.charges)
    BY DEF Inv, SnapInv, Keyed
  <2> HIDE DEF f
  <2>5. Cardinality(decided) = Cardinality(snap.charges)
    BY <2>3, <2>4, FS_Injection
  <2> QED
    BY <2>1, <2>5
<1> QED
  BY <1>1, RunInvariant, PTL

(* A row that hashes to the hash it is cited under is the row that was read. *)
LEMMA CitedRowWasRead ==
  ASSUME Inv, NEW b \in snap.bodies, NEW w \in rows, HashVerifies(w.body),
         w.body.seal = b.seal, w.body.agent = b.agent, w.body.id = b.id
  PROVE  w.body \in snap.bodies
<1>1. WellFormed(w.body)
  BY DEF Inv, TablesInv
<1>2. CASE WellFormed(b) /\ b = Sealed(Content(b))
  <2>1. b.seal = Content(b)
    BY <1>2 DEF Sealed
  <2>2. w.body = Sealed(Content(w.body))
    <3> DEFINE r == Content(w.body)
    <3>1. DOMAIN r = DOMAIN w.body \ {"seal"} /\ \A k \in DOMAIN r : r[k] = w.body[k]
      BY DEF Content
    <3>2. w.body.seal = r
      BY DEF HashVerifies
    <3> HIDE DEF r
    <3>3. DOMAIN Sealed(r) = DOMAIN w.body /\ \A k \in DOMAIN w.body : Sealed(r)[k] = w.body[k]
      BY <1>1, <3>1, <3>2 DEF Sealed, WellFormed
    <3>4. Sealed(r) = [k \in DOMAIN w.body |-> Sealed(r)[k]]
      BY <3>1, <1>1 DEF Sealed, WellFormed
    <3> QED
      BY <1>1, <3>3, <3>4 DEF WellFormed, r
  <2>3. Content(w.body) = Content(b)
    BY <2>1 DEF HashVerifies
  <2> QED
    BY <1>2, <2>2, <2>3
<1>3. CASE \E v \in rows : v.body = b
  BY <1>3 DEF Inv, TablesInv, SameRecord
<1> QED
  BY <1>2, <1>3 DEF Inv, SnapInv

(* A decision is stored as final only while what it cites is intact, whoever edits a
   row or a line between the run's reading it and the validator's. *)
THEOREM FinalRestsOnIntact == Spec => FinalRestsOnIntactRows
<1> DEFINE Rests(d) ==
      /\ d.charge \in charges
      /\ \A cite \in d.citations \ EvidenceCited(d) : cite.hash \in charges
      /\ \A cite \in EvidenceCited(d) :
           \E w \in CitedRow(cite, rows) :
             w.body \in snap.bodies /\ w.body.seal = Content(w.body) /\ w.column = w.body.seal
<1>1. ASSUME Inv, [Next]_vars, NEW d \in decided' \ decided, d.status = "final"
      PROVE  Rests(d)
  <2>1. CASE DecideOne \/ FailOpenOnError \/ FailOpenOnDatabase
    <3> DEFINE c == Head(todo)
               x == DecideLine(c)
    <3>1. /\ todo # <<>>
          /\ \E e : /\ Store(e)
                    /\ e.status = "pending" \/ e = Enforce(x, Valid(x, charges, rows, FALSE))
      BY <2>1, StoredDecision
    <3>2. d.status = "pending" \/ d = Enforce(x, Valid(x, charges, rows, FALSE))
      BY <3>1 DEF Store
    <3>3. x.charge = c /\ c \in snap.charges /\ c.type \in ChargeTypes
      <4>1. x.charge = c
        BY DEF DecideLine, Decide
      <4>2. todo \in Seq(snap.charges) /\ \A e \in snap.charges : IsLine(e)
        BY <1>1 DEF Inv, TodoInv, SnapInv, Keyed
      <4> QED
        BY <3>1, <4>1, <4>2 DEF IsLine
    <3>4. /\ DOMAIN x = DOMAIN Enforce(x, FALSE) /\ Enforce(x, FALSE).status = "pending"
      BY DEF DecideLine, Decide, Enforce
    <3>5. \A cite \in EvidenceCited(x) :
            \E b \in snap.bodies : cite.agent = b.agent /\ cite.id = b.id /\ cite.hash = b.seal
      BY <3>3, CitesWhatItRead DEF DecideLine
    <3> HIDE DEF x, c
    <3>6. Valid(x, charges, rows, FALSE) /\ d = x
      <4>1. CASE Valid(x, charges, rows, FALSE)
        BY <1>1, <3>2, <4>1 DEF Enforce
      <4>2. CASE ~Valid(x, charges, rows, FALSE)
        <5>1. Enforce(x, Valid(x, charges, rows, FALSE)) = Enforce(x, FALSE)
          BY <4>2 DEF Enforce
        <5> QED
          BY <1>1, <3>2, <3>4, <5>1
      <4> QED
        BY <4>1, <4>2
    <3>7. /\ d.charge \in charges
          /\ \A cite \in d.citations :
               IF cite.kind = "evidence" THEN EvidenceCitationHolds(cite, d.charge, rows)
                                         ELSE ChargeCitationHolds(cite, charges)
      BY <3>6 DEF Valid
    <3>8. \A cite \in d.citations \ EvidenceCited(d) : cite.hash \in charges
      BY <3>7 DEF EvidenceCited, ChargeCitationHolds
    <3>9. ASSUME NEW cite \in EvidenceCited(d)
          PROVE  \E w \in CitedRow(cite, rows) :
                   w.body \in snap.bodies /\ w.body.seal = Content(w.body) /\ w.column = w.body.seal
      <4>1. PICK b \in snap.bodies : cite.agent = b.agent /\ cite.id = b.id /\ cite.hash = b.seal
        BY <3>5, <3>6
      <4>2. PICK w \in CitedRow(cite, rows) :
              w.column = cite.hash /\ w.body.seal = cite.hash /\ HashVerifies(w.body)
        BY <3>7 DEF EvidenceCited, EvidenceCitationHolds
      <4>3. w \in rows /\ w.body.agent = b.agent /\ w.body.id = b.id /\ w.body.seal = b.seal
        BY <4>1, <4>2 DEF CitedRow
      <4>4. w.body \in snap.bodies
        BY <1>1, <4>2, <4>3, CitedRowWasRead
      <4> QED
        BY <4>2, <4>4 DEF HashVerifies
    <3> QED
      BY <3>7, <3>8, <3>9
  <2>2. CASE ~(DecideOne \/ FailOpenOnError \/ FailOpenOnDatabase)
    <3>1. decided' \subseteq decided
      <4>1. CASE UNCHANGED vars
        BY <4>1 DEF vars, run
      <4>2. CASE ReadCharges \/ ReadRecords \/ Commit \/ Abort \/ Restart
        BY <4>2 DEF ReadCharges, ReadRecords, Commit, Abort, Restart
      <4>3. CASE \/ \E e \in LateCharges(asOf) : IngestCharge(e)
                 \/ \E w \in LateRows(asOf) : IngestRow(w)
                 \/ \E w \in rows : EditRow(w)
                 \/ \E e \in charges : EditCharge(e)
        BY <4>3 DEF IngestCharge, IngestRow, EditRow, EditCharge, run
      <4> QED
        BY <1>1, <2>2, <4>1, <4>2, <4>3 DEF Next, Step, Done
    <3> QED
      BY <1>1, <3>1
  <2> QED
    BY <2>1, <2>2
<1>2. Inv /\ [Next]_vars =>
        [\A d \in decided' \ decided : d.status = "final" => Rests(d)]_vars
  BY <1>1
<1> QED
  BY <1>2, RunInvariant, PTL DEF Spec, FinalRestsOnIntactRows

-----------------------------------------------------------------------------
(* Which rule fires. *)

LEMMA FirstOf ==
  ASSUME NEW n \in Nat, NEW T, T \subseteq 1..n, T # {}
  PROVE  \E i \in T : \A j \in 1..(i - 1) : j \notin T
<1>1. T \subseteq Nat /\ T # {}
  OBVIOUS
<1>2. PICK i \in T : \A j \in T : <<j, i>> \notin OpToRel(<, Nat)
  BY <1>1, NatLessThanWellFounded, WFMin
<1>3. \A j \in T : ~(j < i)
  BY <1>1, <1>2 DEF OpToRel
<1> QED
  BY <1>1, <1>3

(* One of the rules, none before which applies. *)
First(rules, f) ==
  \E i \in DOMAIN rules :
    /\ f = rules[i] /\ rules[i].applies
    /\ \A j \in 1..(i - 1) : ~rules[j].applies

None(rules) == \A i \in DOMAIN rules : ~rules[i].applies

LEMMA FirstOfTwo ==
  ASSUME NEW U, NEW r \in Seq(U), NEW t \in Seq(U),
         \E i \in DOMAIN t : t[i].applies,
         NEW f, f = (r \o t)[CHOOSE i \in DOMAIN (r \o t) :
                               /\ (r \o t)[i].applies
                               /\ \A j \in 1..(i - 1) : ~(r \o t)[j].applies]
  PROVE  First(r, f) \/ (None(r) /\ First(t, f))
<1> DEFINE rules == r \o t
           T == {i \in DOMAIN rules : rules[i].applies}
<1>1. /\ Len(r) \in Nat /\ Len(t) \in Nat /\ DOMAIN r = 1..Len(r) /\ DOMAIN t = 1..Len(t)
      /\ DOMAIN rules = 1..(Len(r) + Len(t))
      /\ \A i \in 1..(Len(r) + Len(t)) : rules[i] = IF i <= Len(r) THEN r[i] ELSE t[i - Len(r)]
  BY ConcatProperties
<1> HIDE DEF rules
<1>2. T # {}
  <2>1. PICK i \in 1..Len(t) : t[i].applies
    BY <1>1
  <2>2. i + Len(r) \in DOMAIN rules /\ rules[i + Len(r)] = t[i]
    <3> DEFINE m == i + Len(r)
    <3>1. m \in 1..(Len(r) + Len(t)) /\ ~(m <= Len(r)) /\ m - Len(r) = i
      BY <1>1
    <3> HIDE DEF m
    <3>2. rules[m] = t[m - Len(r)]
      BY <1>1, <3>1
    <3> QED
      BY <1>1, <3>1, <3>2 DEF m
  <2> QED
    BY <2>1, <2>2
<1>3. \E i \in DOMAIN rules : rules[i].applies /\ \A j \in 1..(i - 1) : ~rules[j].applies
  <2>1. Len(r) + Len(t) \in Nat /\ T \subseteq 1..(Len(r) + Len(t))
    BY <1>1
  <2>2. PICK i \in T : \A j \in 1..(i - 1) : j \notin T
    <3> HIDE DEF T
    <3> QED
      BY <1>2, <2>1, FirstOf
  <2> QED
    BY <1>1, <2>1, <2>2
<1>4. PICK i \in DOMAIN rules : f = rules[i] /\ rules[i].applies /\ \A j \in 1..(i - 1) : ~rules[j].applies
  <2> DEFINE k == CHOOSE i \in DOMAIN rules :
                    rules[i].applies /\ \A j \in 1..(i - 1) : ~rules[j].applies
  <2>1. k \in DOMAIN rules /\ rules[k].applies /\ \A j \in 1..(k - 1) : ~rules[j].applies
    BY <1>3
  <2>2. f = rules[k]
    BY DEF rules
  <2> QED
    BY <2>1, <2>2
<1>5. CASE i <= Len(r)
  <2>1. i \in DOMAIN r /\ f = r[i] /\ r[i].applies /\ \A j \in 1..(i - 1) : ~r[j].applies
    BY <1>1, <1>4, <1>5
  <2> QED
    BY <2>1 DEF First
<1>6. CASE ~(i <= Len(r))
  <2>1. None(r)
    <3> SUFFICES ASSUME NEW j \in 1..Len(r) PROVE ~r[j].applies
      BY <1>1 DEF None
    <3>1. j \in 1..(i - 1) /\ rules[j] = r[j]
      BY <1>1, <1>4, <1>6
    <3> QED
      BY <1>4, <3>1
  <2>2. i - Len(r) \in DOMAIN t /\ f = t[i - Len(r)] /\ t[i - Len(r)].applies
    BY <1>1, <1>4, <1>6
  <2>3. ASSUME NEW j \in 1..(i - Len(r) - 1) PROVE ~t[j].applies
    <3>1. j + Len(r) \in 1..(i - 1) /\ rules[j + Len(r)] = t[j]
      BY <1>1, <1>4, <1>6
    <3> QED
      BY <1>4, <3>1
  <2> QED
    BY <2>1, <2>2, <2>3 DEF First
<1> QED
  BY <1>5, <1>6

Rest(s) == IF IsFee(s.charge) THEN FeeRules(s) ELSE LossRules(s)

LEMMA FourRules ==
  ASSUME NEW t, NEW a, NEW b, NEW c, NEW d,
         t = <<a, b, c, d>>
  PROVE  /\ \E U : t \in Seq(U)
         /\ DOMAIN t = 1..4
         /\ t[1] = a /\ t[2] = b /\ t[3] = c /\ t[4] = d
<1>1. t \in Seq({a, b, c, d})
  OBVIOUS
<1>2. \E U : t \in Seq(U)
  BY <1>1
<1>3. /\ DOMAIN t = 1..4
      /\ t[1] = a /\ t[2] = b /\ t[3] = c /\ t[4] = d
  OBVIOUS
<1> QED
  BY <1>2, <1>3

LEMMA TenRules ==
  ASSUME NEW t, NEW a, NEW b, NEW c, NEW d, NEW e, NEW f, NEW g, NEW h, NEW i, NEW j,
         t = <<a, b, c, d, e, f, g, h, i, j>>
  PROVE  /\ \E U : t \in Seq(U)
         /\ DOMAIN t = 1..10
         /\ t[1] = a /\ t[2] = b /\ t[3] = c /\ t[4] = d
         /\ t[5] = e /\ t[6] = f /\ t[7] = g /\ t[8] = h
         /\ t[9] = i /\ t[10] = j
<1>1. t \in Seq({a, b, c, d, e, f, g, h, i, j})
  OBVIOUS
<1>2. \E U : t \in Seq(U)
  BY <1>1
<1>3. /\ DOMAIN t = 1..10
      /\ t[1] = a /\ t[2] = b /\ t[3] = c /\ t[4] = d
      /\ t[5] = e /\ t[6] = f /\ t[7] = g /\ t[8] = h
      /\ t[9] = i /\ t[10] = j
  OBVIOUS
<1> QED
  BY <1>2, <1>3

(* The conditions of the line rules that are more than one term. *)
NoCharge(s) == IsFee(s.charge) /\ s.charge.amount = 0
RepeatOwed(s) == s.pre.duplicate /\ s.charge.amount - s.pre.reimbursed > 0
RepeatTooLate(s) == RepeatOwed(s) /\ s.pre.filing = "passed"
PaidBack(s) == s.charge.amount > 0 /\ s.charge.amount - s.pre.reimbursed <= 0
NoneUsable(s) == s.inScope # {} /\ s.usable = {}
Has(s, status) == s.a.status = status
Due(s) == s.pre.filing = "passed"
NoCategory(s) == s.charge.type = "inbound_defect_fee" /\ s.charge.category = NoRef

LineList(r, s) ==
  /\ \E U : r \in Seq(U)
  /\ DOMAIN r = 1..10
  /\ r[1] = When(s.pre.filing = "not_open", "R_FILING_WINDOW_NOT_OPEN", "REVIEW",
                 "FILING_WINDOW_NOT_OPEN")
  /\ r[2] = When(IsFeeRefundLine(s.charge), "R_FEE_REFUND_LINE", "DO_NOT_CLAIM", NoCode)
  /\ r[3] = When(NoCharge(s), "R_ZERO_FEE", "DO_NOT_CLAIM", NoCode)
  /\ r[4] = When(s.pre.ambiguous # {}, "R_REIMBURSEMENT_AMBIGUOUS", "REVIEW", NoCode)
  /\ r[5] = WindowPassed(RepeatTooLate(s))
  /\ r[6] = When(RepeatOwed(s), "R_DUPLICATE", "CLAIM", "DUPLICATE_CHARGE")
  /\ r[7] = When(PaidBack(s), "R_ALREADY_REIMBURSED", "DO_NOT_CLAIM", "ALREADY_REIMBURSED")
  /\ r[8] = When(~s.resolved, "R_UNRESOLVED_UNIT", "REVIEW", "UNRESOLVED_UNIT")
  /\ r[9] = When(NoneUsable(s), "R_EVIDENCE_OUTSIDE_WINDOW", "REVIEW", "EVIDENCE_OUTSIDE_WINDOW")
  /\ r[10] = When(s.a.noRelevant, "R_NO_RELEVANT_EVIDENCE", "REVIEW", "NO_RELEVANT_EVIDENCE")

FeeList(r, s) ==
  /\ \E U : r \in Seq(U)
  /\ DOMAIN r = 1..8
  /\ r[1] = When(Has(s, "CONFLICTING"), "R_CONFLICTING", "REVIEW", NoCode)
  /\ r[2] = When(Has(s, "SUPPORTED"), "R_SUPPORTED", "DO_NOT_CLAIM", NoCode)
  /\ r[3] = When(Has(s, "INSUFFICIENT"), "R_INSUFFICIENT", "REVIEW", NoCode)
  /\ r[4] = When(AmountVerdict(s.charge) = "FAIL", "R_AMOUNT_NOT_COMPUTABLE", "REVIEW", NoCode)
  /\ r[5] = When(s.a.coverage # "whole", "R_PARTIAL_COVERAGE", "REVIEW", NoCode)
  /\ r[6] = When(NoCategory(s), "R_DEFECT_CATEGORY_MISSING", "REVIEW", NoCode)
  /\ r[7] = WindowPassed(Due(s))
  /\ r[8] = When(TRUE, "R_CONTRADICTED_FULL", "CLAIM", NoCode)

LEMMA LineRulesAre ==
  ASSUME NEW s
  PROVE  LineList(LineRules(s), s)
<1> DEFINE a == When(s.pre.filing = "not_open", "R_FILING_WINDOW_NOT_OPEN", "REVIEW",
                     "FILING_WINDOW_NOT_OPEN")
           b == When(IsFeeRefundLine(s.charge), "R_FEE_REFUND_LINE", "DO_NOT_CLAIM", NoCode)
           c == When(NoCharge(s), "R_ZERO_FEE", "DO_NOT_CLAIM", NoCode)
           d == When(s.pre.ambiguous # {}, "R_REIMBURSEMENT_AMBIGUOUS", "REVIEW", NoCode)
           e == WindowPassed(RepeatTooLate(s))
           f == When(RepeatOwed(s), "R_DUPLICATE", "CLAIM", "DUPLICATE_CHARGE")
           g == When(PaidBack(s), "R_ALREADY_REIMBURSED", "DO_NOT_CLAIM", "ALREADY_REIMBURSED")
           h == When(~s.resolved, "R_UNRESOLVED_UNIT", "REVIEW", "UNRESOLVED_UNIT")
           i == When(NoneUsable(s), "R_EVIDENCE_OUTSIDE_WINDOW", "REVIEW", "EVIDENCE_OUTSIDE_WINDOW")
           j == When(s.a.noRelevant, "R_NO_RELEVANT_EVIDENCE", "REVIEW", "NO_RELEVANT_EVIDENCE")
<1>1. LineRules(s) = <<a, b, c, d, e, f, g, h, i, j>>
  BY DEF LineRules, NoCharge, RepeatOwed, RepeatTooLate, PaidBack, NoneUsable, AlreadyReimbursed
<1> HIDE DEF a, b, c, d, e, f, g, h, i, j
<1>2. LET r == LineRules(s)
      IN  /\ \E U : r \in Seq(U)
          /\ DOMAIN r = 1..10
          /\ r[1] = a /\ r[2] = b /\ r[3] = c /\ r[4] = d /\ r[5] = e
          /\ r[6] = f /\ r[7] = g /\ r[8] = h /\ r[9] = i /\ r[10] = j
  BY <1>1, TenRules
<1> QED
  BY <1>2 DEF a, b, c, d, e, f, g, h, i, j, LineList

LEMMA FeeRulesAre ==
  ASSUME NEW s
  PROVE  FeeList(FeeRules(s), s)
<1> DEFINE a == When(Has(s, "CONFLICTING"), "R_CONFLICTING", "REVIEW", NoCode)
           b == When(Has(s, "SUPPORTED"), "R_SUPPORTED", "DO_NOT_CLAIM", NoCode)
           c == When(Has(s, "INSUFFICIENT"), "R_INSUFFICIENT", "REVIEW", NoCode)
           d == When(AmountVerdict(s.charge) = "FAIL", "R_AMOUNT_NOT_COMPUTABLE", "REVIEW", NoCode)
           e == When(s.a.coverage # "whole", "R_PARTIAL_COVERAGE", "REVIEW", NoCode)
           f == When(NoCategory(s), "R_DEFECT_CATEGORY_MISSING", "REVIEW", NoCode)
           g == WindowPassed(Due(s))
           h == When(TRUE, "R_CONTRADICTED_FULL", "CLAIM", NoCode)
           p == <<a, b, c, d, e, f>>
           q == ContradictedRules(s)
<1>1. p = <<a, b, c, d, e, f>> /\ q = <<g, h>> /\ FeeRules(s) = p \o q
  BY DEF FeeRules, ContradictedRules, NoCategory, Has, Due, Conflict, Insufficient
<1> HIDE DEF a, b, c, d, e, f, g, h
<1> HIDE DEF p, q
<1>2. FeeRules(s) \in Seq({a, b, c, d, e, f, g, h})
  BY <1>1
<1>3. LET r == FeeRules(s)
      IN  /\ DOMAIN r = 1..8
          /\ r[1] = a /\ r[2] = b /\ r[3] = c /\ r[4] = d
          /\ r[5] = e /\ r[6] = f /\ r[7] = g /\ r[8] = h
  BY <1>1
<1>4. \E U : FeeRules(s) \in Seq(U)
  BY <1>2
<1> QED
  BY <1>3, <1>4 DEF a, b, c, d, e, f, g, h, FeeList

LEMMA WhatFires ==
  ASSUME NEW s
  PROVE  First(LineRules(s), Fire(s)) \/ (None(LineRules(s)) /\ First(Rest(s), Fire(s)))
<1>1. PICK U : LineRules(s) \in Seq(U)
  BY LineRulesAre DEF LineList
<1>2. PICK V : Rest(s) \in Seq(V) /\ \E i \in DOMAIN Rest(s) : Rest(s)[i].applies
  <2>1. CASE IsFee(s.charge)
    <3>1. /\ \E V : FeeRules(s) \in Seq(V)
          /\ DOMAIN FeeRules(s) = 1..8
          /\ FeeRules(s)[8] = When(TRUE, "R_CONTRADICTED_FULL", "CLAIM", NoCode)
      BY FeeRulesAre DEF FeeList
    <3> QED
      BY <2>1, <3>1 DEF Rest, When
  <2>2. CASE ~IsFee(s.charge)
    <3>1. /\ \E V : LossRules(s) \in Seq(V)
          /\ DOMAIN LossRules(s) = 1..4
          /\ LossRules(s)[4] = LossRow(s)
      BY FourRules DEF LossRules
    <3>2. LossRow(s).applies
      BY DEF LossRow, When
    <3> QED
      BY <2>2, <3>1, <3>2 DEF Rest
  <2> QED
    BY <2>1, <2>2
<1>3. LineRules(s) \in Seq(U \cup V) /\ Rest(s) \in Seq(U \cup V)
  BY <1>1, <1>2, SeqMonotonic
<1>4. Fire(s) = (LineRules(s) \o Rest(s))[CHOOSE i \in DOMAIN (LineRules(s) \o Rest(s)) :
                   /\ (LineRules(s) \o Rest(s))[i].applies
                   /\ \A j \in 1..(i - 1) : ~(LineRules(s) \o Rest(s))[j].applies]
  BY DEF Fire, Rules, Rest
<1> QED
  BY <1>2, <1>3, <1>4, FirstOfTwo

(* What a rule that dismisses a fee says of it. *)
Dismissal(s) ==
  \/ IsFeeRefundLine(s.charge) \/ s.charge.amount = 0
  \/ s.charge.amount > 0 /\ s.charge.amount - s.pre.reimbursed <= 0
  \/ s.pre.filing = "passed" /\ s.pre.duplicate
  \/ s.a.status = "SUPPORTED"
  \/ s.pre.filing = "passed" /\ s.a.status \notin {"CONFLICTING", "SUPPORTED", "INSUFFICIENT"}

LEMMA LineRuleDismisses ==
  ASSUME NEW s, NEW r, LineList(r, s), NEW f, First(r, f), f.decision = "DO_NOT_CLAIM"
  PROVE  Dismissal(s)
<1>1. PICK i \in 1..10 : f = r[i] /\ r[i].applies
  BY DEF First, LineList
<1>2. CASE i \in {1, 4, 6, 8, 9, 10}
  BY <1>1, <1>2 DEF When, LineList
<1>3. CASE i = 2
  BY <1>1, <1>3 DEF When, LineList, Dismissal
<1>4. CASE i = 3
  <2>1. NoCharge(s)
    BY <1>1, <1>4 DEF When, LineList
  <2> QED
    BY <2>1 DEF NoCharge, Dismissal
<1>5. CASE i = 5
  <2>1. RepeatTooLate(s)
    BY <1>1, <1>5 DEF When, WindowPassed, LineList
  <2> QED
    BY <2>1 DEF RepeatTooLate, RepeatOwed, Dismissal
<1>6. CASE i = 7
  <2>1. PaidBack(s)
    BY <1>1, <1>6 DEF When, LineList
  <2> QED
    BY <2>1 DEF PaidBack, Dismissal
<1> QED
  BY <1>2, <1>3, <1>4, <1>5, <1>6

LEMMA FeeRuleDismisses ==
  ASSUME NEW s, NEW r, FeeList(r, s), NEW f, First(r, f), f.decision = "DO_NOT_CLAIM"
  PROVE  Dismissal(s)
<1>1. PICK i \in 1..8 : f = r[i] /\ r[i].applies /\ \A j \in 1..(i - 1) : ~r[j].applies
  BY DEF First, FeeList
<1>2. CASE i \in {1, 3, 4, 5, 6, 8}
  BY <1>1, <1>2 DEF When, FeeList
<1>3. CASE i = 2
  <2>1. Has(s, "SUPPORTED")
    BY <1>1, <1>3 DEF When, FeeList
  <2> QED
    BY <2>1 DEF Has, Dismissal
<1>4. CASE i = 7
  <2>1. ~r[1].applies /\ ~r[2].applies /\ ~r[3].applies
    BY <1>1, <1>4
  <2>2. Due(s)
    BY <1>1, <1>4 DEF When, WindowPassed, FeeList
  <2>3. ~Has(s, "CONFLICTING") /\ ~Has(s, "SUPPORTED") /\ ~Has(s, "INSUFFICIENT")
    BY <2>1 DEF When, FeeList
  <2> QED
    BY <2>2, <2>3 DEF Dismissal, Has, Due
<1> QED
  BY <1>2, <1>3, <1>4

(* A final record of the unit failed a check. *)
FailedCheck(c, records) ==
  \E r \in records :
    r.unit = c.unit /\ r.status = "final" /\ \E k \in DOMAIN r.checks : r.checks[k] = "FAIL"

LEMMA SupportIsAFailedCheck ==
  ASSUME NEW c, IsFee(c), NEW records, Assess(c, Usable(c, records)).status = "SUPPORTED"
  PROVE  FailedCheck(c, records)
<1> DEFINE usable == Usable(c, records)
           known == c.category = NoRef \/ c.category \in DOMAIN DefectCategories
           keys == IF known THEN DefectKeys(c) ELSE {}
           speaking == {r \in usable : Recorded(r, keys) # {}}
           said == [k \in keys |-> {Weight(r, k) : r \in {s \in speaking : k \in DOMAIN s.checks}}]
<1>1. c.type \in {"inbound_defect_fee", "fulfilment_fee_weight_tier"}
  BY FeeTypesAssumption DEF IsFee
<1>2. AssessWeightTier(c, usable).status # "SUPPORTED"
  BY DEF AssessWeightTier, NothingRelevant, Unsettled, Assessment
<1>3. Assess(c, usable) = AssessInboundDefect(c, usable)
  BY <1>1, <1>2 DEF Assess
<1>4. \E k \in keys : "FAIL" \in said[k]
  <2> DEFINE findings == {DefectFinding(r, keys) : r \in speaking}
             conflict == \E k \in keys : {"PASS", "FAIL"} \subseteq said[k]
             fails == \E k \in keys : "FAIL" \in said[k]
             missing == IF c.category = NoRef THEN {} ELSE {k \in keys : said[k] = {}}
             open == missing # {} \/ \E k \in keys : "UNCERTAIN" \in said[k]
  <2>1. Assess(c, usable) =
          IF ~known THEN Unsettled({})
          ELSE IF findings = {} THEN NothingRelevant
          ELSE IF conflict THEN Conflicting(findings)
          ELSE IF fails
               THEN Settled("SUPPORTED", {f \in findings : f.polarity = "supports"}, "none", NoRow)
          ELSE IF open THEN Unsettled(findings)
          ELSE Settled("CONTRADICTED", findings, UnitCoverage(c), NoRow)
    BY <1>3, Zenon DEF AssessInboundDefect
  <2> HIDE DEF known, findings, conflict, fails, open
  <2>2. fails
    BY <2>1 DEF NothingRelevant, Unsettled, Conflicting, Settled, Assessment
  <2> QED
    BY <2>2 DEF fails
<1>5. PICK k \in keys, r \in speaking : k \in DOMAIN r.checks /\ Weight(r, k) = "FAIL"
  BY <1>4
<1>6. r \in records /\ r.unit = c.unit
  BY <1>5 DEF Usable, UnitRecords
<1>7. r.status = "final" /\ r.checks[k] = "FAIL"
  BY <1>5 DEF Weight, NotFinal
<1> QED
  BY <1>5, <1>6, <1>7 DEF FailedCheck

LEMMA FeeStatuses ==
  ASSUME NEW c, IsFee(c), NEW usable
  PROVE  Assess(c, usable).status \in {"CONFLICTING", "SUPPORTED", "INSUFFICIENT", "CONTRADICTED"}
<1>1. c.type \in {"inbound_defect_fee", "fulfilment_fee_weight_tier"}
  BY FeeTypesAssumption DEF IsFee
<1>2. AssessInboundDefect(c, usable).status
        \in {"CONFLICTING", "SUPPORTED", "INSUFFICIENT", "CONTRADICTED"}
  BY DEF AssessInboundDefect, NothingRelevant, Unsettled, Conflicting, Settled, Assessment
<1>3. AssessWeightTier(c, usable).status = "INSUFFICIENT"
  BY DEF AssessWeightTier, NothingRelevant, Unsettled, Assessment
<1> QED
  BY <1>1, <1>2, <1>3 DEF Assess

(* The cause of DismissedWithCause, over the records the run read. *)
Cause(d, records) ==
  \/ IsFeeRefundLine(d.charge) \/ d.charge.amount = 0
  \/ d.charge.amount > 0 /\ d.charge.amount - d.reimbursed <= 0
  \/ d.checks.within_filing_window = "FAIL"
       /\ (d.checks.not_duplicate = "FAIL" \/ d.evidence = "CONTRADICTED")
  \/ FailedCheck(d.charge, records)

LEMMA DismissalHasCause ==
  ASSUME NEW c, IsFee(c), NEW pre, NEW canonical, NEW records,
         Decide(c, pre, canonical, records).decision = "DO_NOT_CLAIM"
  PROVE  Cause(Decide(c, pre, canonical, records), records)
<1> DEFINE d == Decide(c, pre, canonical, records)
           s == Situation(c, pre, records)
<1>1. /\ d.charge = c /\ d.reimbursed = pre.reimbursed /\ d.evidence = s.a.status
      /\ d.checks.within_filing_window = FilingVerdict(pre.filing)
      /\ d.checks.not_duplicate = IF pre.duplicate THEN "FAIL" ELSE "PASS"
      /\ s.charge = c /\ s.pre = pre
      /\ s.a = IF Resolved(c, records) THEN Assess(c, Usable(c, records)) ELSE Unsettled({})
  BY DEF Decide, Situation, Checks
<1>2. Fire(s).decision = "DO_NOT_CLAIM"
  BY DEF Decide
<1> HIDE DEF d, s
<1>3. First(LineRules(s), Fire(s)) \/ First(FeeRules(s), Fire(s))
  BY <1>1, WhatFires DEF Rest
<1>4. Dismissal(s)
  BY <1>2, <1>3, LineRulesAre, FeeRulesAre, LineRuleDismisses, FeeRuleDismisses
<1>5. s.a.status \in {"CONFLICTING", "SUPPORTED", "INSUFFICIENT", "CONTRADICTED"}
  BY <1>1, FeeStatuses DEF Unsettled, Assessment
<1>6. s.a.status = "SUPPORTED" => FailedCheck(c, records)
  BY <1>1, SupportIsAFailedCheck DEF Unsettled, Assessment
<1>7. FilingVerdict("passed") = "FAIL"
  BY DEF FilingVerdict
<1>8. Cause(d, records)
  BY <1>1, <1>4, <1>5, <1>6, <1>7 DEF Cause, Dismissal
<1> QED
  BY <1>8 DEF d

-----------------------------------------------------------------------------
(* Every dismissal in the store. *)

DismissalInv ==
  \A d \in decided : d.decision = "DO_NOT_CLAIM" /\ IsFee(d.charge) => Cause(d, snap.bodies)

LEMMA DismissalInvStep == Inv /\ DismissalInv /\ [Next]_vars => DismissalInv'
<1> SUFFICES ASSUME Inv, DismissalInv, [Next]_vars PROVE DismissalInv'
  OBVIOUS
<1>1. CASE DecideOne \/ FailOpenOnError \/ FailOpenOnDatabase
  <2>1. PICK d : /\ d.charge = Head(todo) /\ Store(d)
                 /\ \/ d.status = "pending" /\ \E code : d = FailOpen(Head(todo), code)
                    \/ d = Enforce(DecideLine(Head(todo)),
                                   Valid(DecideLine(Head(todo)), charges, rows, FALSE))
    BY <1>1, StoredDecision
  <2>2. decided' = decided \cup {d} /\ snap' = snap
    BY <2>1 DEF Store
  <2>3. d.decision = "DO_NOT_CLAIM" /\ IsFee(d.charge) => Cause(d, snap.bodies)
    <3> SUFFICES ASSUME d.decision = "DO_NOT_CLAIM", IsFee(d.charge) PROVE Cause(d, snap.bodies)
      OBVIOUS
    <3>1. \A code : FailOpen(Head(todo), code).decision = "REVIEW"
      BY DEF FailOpen
    <3>2. \A e : Enforce(e, FALSE).decision = "REVIEW" \/ Enforce(e, FALSE) = e
      BY DEF Enforce
    <3>3. d = DecideLine(Head(todo))
      BY <2>1, <3>1, <3>2 DEF Enforce
    <3> QED
      BY <2>1, <3>3, DismissalHasCause DEF DecideLine
  <2> QED
    BY <2>2, <2>3 DEF DismissalInv
<1>2. CASE ReadCharges \/ ReadRecords \/ Abort
  <2>1. decided' = {}
    BY <1>2 DEF ReadCharges, ReadRecords, Abort, Inv, PcInv
  <2> QED
    BY <2>1 DEF DismissalInv
<1>3. ASSUME UNCHANGED run PROVE DismissalInv'
  BY <1>3 DEF DismissalInv, run
<1>4. CASE Commit \/ Restart
  <2>1. UNCHANGED <<snap, decided>>
    BY <1>4 DEF Commit, Restart
  <2> QED
    BY <2>1 DEF DismissalInv
<1>5. ASSUME NEW c \in LateCharges(asOf), IngestCharge(c) PROVE UNCHANGED run
  BY <1>5 DEF IngestCharge
<1>6. ASSUME NEW w \in LateRows(asOf), IngestRow(w) PROVE UNCHANGED run
  BY <1>6 DEF IngestRow
<1>7. ASSUME NEW w \in rows, EditRow(w) PROVE UNCHANGED run
  BY <1>7 DEF EditRow
<1>8. ASSUME NEW c \in charges, EditCharge(c) PROVE UNCHANGED run
  BY <1>8 DEF EditCharge
<1>9. CASE Done \/ UNCHANGED vars
  BY <1>3, <1>9 DEF Done, vars
<1> QED
  BY <1>1, <1>2, <1>3, <1>4, <1>5, <1>6, <1>7, <1>8, <1>9 DEF Next, Step

(* No fee is given up for want of evidence: a stored DO_NOT_CLAIM of a fee has one of the
   causes the rules name, whatever is uploaded or fails while the run decides
   (engine/__init__.py, the ordered rules). *)
THEOREM DismissalsHaveACause == Spec => []DismissedWithCause
<1>1. Init => DismissalInv
  BY DEF Init, DismissalInv
<1>2. DismissalInv => DismissedWithCause
  BY DEF DismissalInv, DismissedWithCause, Cause, FailedCheck
<1> QED
  BY <1>1, <1>2, RunInvariant, DismissalInvStep, PTL DEF Spec

-----------------------------------------------------------------------------
(* What the rule that fires says of the situation. *)

LossList(r, s) ==
  /\ DOMAIN r = 1..4
  /\ r[1] = WindowPassed(Due(s))
  /\ r[2] = When(Has(s, "CONFLICTING"), "R_CONFLICTING", "REVIEW", NoCode)
  /\ r[3] = When(Has(s, "INSUFFICIENT"), "R_INSUFFICIENT", "REVIEW", NoCode)
  /\ r[4] = LossRow(s)

LEMMA LossRulesAre ==
  ASSUME NEW s
  PROVE  LossList(LossRules(s), s)
<1> DEFINE a == WindowPassed(Due(s))
           b == When(Has(s, "CONFLICTING"), "R_CONFLICTING", "REVIEW", NoCode)
           c == When(Has(s, "INSUFFICIENT"), "R_INSUFFICIENT", "REVIEW", NoCode)
           d == LossRow(s)
<1>1. LossRules(s) = <<a, b, c, d>>
  BY DEF LossRules, Conflict, Insufficient, Has, Due
<1> HIDE DEF a, b, c, d
<1>2. LET r == LossRules(s)
      IN  DOMAIN r = 1..4 /\ r[1] = a /\ r[2] = b /\ r[3] = c /\ r[4] = d
  BY <1>1, FourRules
<1> QED
  BY <1>2 DEF a, b, c, d, LossList

(* Money may be asked for: the line is no refund, and nothing about its refunds is open. *)
Askable(s) == ~IsFeeRefundLine(s.charge) /\ s.pre.ambiguous = {} /\ ~Due(s)

ClaimsRepeat(s, f) ==
  f.decision = "CLAIM" /\ f.rule = "R_DUPLICATE" /\ RepeatOwed(s)

ClaimsDefect(s, f) ==
  /\ f.decision = "CLAIM" /\ f.rule = "R_CONTRADICTED_FULL" /\ IsFee(s.charge)
  /\ ~Has(s, "CONFLICTING") /\ ~Has(s, "SUPPORTED") /\ ~Has(s, "INSUFFICIENT")
  /\ s.a.coverage = "whole" /\ ~NoCategory(s)

HasRow(s) ==
  LET table == LossOutcomes[s.charge.type]
  IN  s.a.outcome \in DOMAIN table /\ table[s.a.outcome].status = s.a.status

FindsNoRow(s, f) ==
  /\ f.decision = "none" /\ f.rule = "raises" /\ ~IsFee(s.charge) /\ ~HasRow(s)
  /\ ~Has(s, "CONFLICTING") /\ ~Has(s, "INSUFFICIENT")

Dismisses(f) == f.decision = "DO_NOT_CLAIM" /\ f.rule # "raises"

Postpones(f) == f.decision = "REVIEW" /\ f.rule # "raises"

Judgement(s, f) ==
  /\ f.rule # "R_CITATION_INVALID" /\ f.code # "ENGINE_ERROR"
  /\ IF s.pre.filing = "not_open" THEN Postpones(f)
     ELSE \/ Dismisses(f)
          \/ ~IsFeeRefundLine(s.charge) /\ Postpones(f)
          \/ Askable(s) /\ (ClaimsRepeat(s, f) \/ ClaimsDefect(s, f))
          \/ FindsNoRow(s, f)

LEMMA LineConditions ==
  ASSUME NEW s, NEW r, LineList(r, s)
  PROVE  /\ IF r[1].applies THEN s.pre.filing = "not_open" ELSE s.pre.filing # "not_open"
         /\ IF r[2].applies THEN IsFeeRefundLine(s.charge) ELSE ~IsFeeRefundLine(s.charge)
         /\ IF r[4].applies THEN s.pre.ambiguous # {} ELSE s.pre.ambiguous = {}
         /\ IF r[5].applies THEN RepeatTooLate(s) ELSE ~RepeatTooLate(s)
         /\ IF r[6].applies THEN RepeatOwed(s) ELSE ~RepeatOwed(s)
<1> DEFINE notOpen == s.pre.filing = "not_open"
           unclear == s.pre.ambiguous # {}
<1>1. IF r[1].applies THEN notOpen ELSE ~notOpen
  <2>1. r[1] = When(notOpen, "R_FILING_WINDOW_NOT_OPEN", "REVIEW", "FILING_WINDOW_NOT_OPEN")
    BY DEF LineList
  <2> HIDE DEF notOpen
  <2> QED
    BY <2>1 DEF When
<1>2. IF r[2].applies THEN IsFeeRefundLine(s.charge) ELSE ~IsFeeRefundLine(s.charge)
  BY DEF LineList, When
<1>4. IF r[4].applies THEN unclear ELSE ~unclear
  <2>1. r[4] = When(unclear, "R_REIMBURSEMENT_AMBIGUOUS", "REVIEW", NoCode)
    BY DEF LineList
  <2> HIDE DEF unclear
  <2> QED
    BY <2>1 DEF When
<1>5. IF r[5].applies THEN RepeatTooLate(s) ELSE ~RepeatTooLate(s)
  BY DEF LineList, When, WindowPassed
<1>6. IF r[6].applies THEN RepeatOwed(s) ELSE ~RepeatOwed(s)
  BY DEF LineList, When
<1> QED
  BY <1>1, <1>2, <1>4, <1>5, <1>6

LEMMA LineRuleJudges ==
  ASSUME NEW s, NEW r, LineList(r, s), NEW f, First(r, f)
  PROVE  Judgement(s, f)
<1>1. PICK i \in 1..10 : f = r[i] /\ r[i].applies /\ \A j \in 1..(i - 1) : ~r[j].applies
  BY DEF First, LineList
<1>2. /\ IF r[1].applies THEN s.pre.filing = "not_open" ELSE s.pre.filing # "not_open"
      /\ IF r[2].applies THEN IsFeeRefundLine(s.charge) ELSE ~IsFeeRefundLine(s.charge)
      /\ IF r[4].applies THEN s.pre.ambiguous # {} ELSE s.pre.ambiguous = {}
      /\ IF r[5].applies THEN RepeatTooLate(s) ELSE ~RepeatTooLate(s)
      /\ IF r[6].applies THEN RepeatOwed(s) ELSE ~RepeatOwed(s)
  BY LineConditions
<1>3. f.rule # "R_CITATION_INVALID" /\ f.rule # "raises" /\ f.code # "ENGINE_ERROR"
  BY <1>1 DEF LineList, When, WindowPassed, NoCode
<1>4. CASE i = 1
  <2>1. f.decision = "REVIEW" /\ s.pre.filing = "not_open"
    BY <1>1, <1>2, <1>4 DEF LineList, When
  <2> QED
    BY <1>3, <2>1 DEF Judgement, Postpones
<1>5. CASE i # 1
  <2>1. s.pre.filing # "not_open"
    BY <1>1, <1>2, <1>5
  <2>2. CASE i \in {2, 3, 5, 7}
    <3>1. f.decision = "DO_NOT_CLAIM"
      BY <1>1, <2>2 DEF LineList, When, WindowPassed
    <3> QED
      BY <1>3, <2>1, <3>1 DEF Judgement, Dismisses
  <2>3. CASE i \in {4, 8, 9, 10}
    <3>1. f.decision = "REVIEW" /\ ~IsFeeRefundLine(s.charge)
      BY <1>1, <1>2, <2>3 DEF LineList, When
    <3> QED
      BY <1>3, <2>1, <3>1 DEF Judgement, Postpones
  <2>4. CASE i = 6
    <3>1. f.decision = "CLAIM" /\ f.rule = "R_DUPLICATE"
      BY <1>1, <2>4 DEF LineList, When
    <3>2. /\ ~r[2].applies /\ ~r[4].applies /\ ~r[5].applies /\ r[6].applies
      BY <1>1, <2>4
    <3>3. ~IsFeeRefundLine(s.charge) /\ s.pre.ambiguous = {} /\ ~RepeatTooLate(s) /\ RepeatOwed(s)
      BY <1>2, <3>2
    <3>4. ~Due(s)
      BY <3>3 DEF Due, RepeatTooLate
    <3> QED
      BY <1>3, <2>1, <3>1, <3>3, <3>4 DEF Judgement, Askable, ClaimsRepeat
  <2> QED
    BY <1>5, <2>2, <2>3, <2>4
<1> QED
  BY <1>4, <1>5

LEMMA FeeRuleJudges ==
  ASSUME NEW s, IsFee(s.charge), NEW l, LineList(l, s), None(l),
         NEW r, FeeList(r, s), NEW f, First(r, f)
  PROVE  Judgement(s, f)
<1>1. PICK i \in 1..8 : f = r[i] /\ r[i].applies /\ \A j \in 1..(i - 1) : ~r[j].applies
  BY DEF First, FeeList
<1>2. s.pre.filing # "not_open" /\ ~IsFeeRefundLine(s.charge) /\ s.pre.ambiguous = {}
  <2>1. ~l[1].applies /\ ~l[2].applies /\ ~l[4].applies
    BY DEF None, LineList
  <2> QED
    BY <2>1, LineConditions
<1>3. f.rule # "R_CITATION_INVALID" /\ f.rule # "raises" /\ f.code # "ENGINE_ERROR"
  BY <1>1 DEF FeeList, When, WindowPassed, NoCode
<1>4. CASE i \in {2, 7}
  <2>1. f.decision = "DO_NOT_CLAIM"
    BY <1>1, <1>4 DEF FeeList, When, WindowPassed
  <2> QED
    BY <1>2, <1>3, <2>1 DEF Judgement, Dismisses
<1>5. CASE i \in {1, 3, 4, 5, 6}
  <2>1. f.decision = "REVIEW"
    BY <1>1, <1>5 DEF FeeList, When
  <2> QED
    BY <1>2, <1>3, <2>1 DEF Judgement, Postpones
<1>6. CASE i = 8
  <2>1. f.decision = "CLAIM" /\ f.rule = "R_CONTRADICTED_FULL"
    BY <1>1, <1>6 DEF FeeList, When
  <2>2. ~r[1].applies /\ ~r[2].applies /\ ~r[3].applies /\ ~r[5].applies /\ ~r[6].applies /\ ~r[7].applies
    BY <1>1, <1>6
  <2>3. ~Has(s, "CONFLICTING") /\ ~Has(s, "SUPPORTED") /\ ~Has(s, "INSUFFICIENT")
    BY <2>2 DEF FeeList, When
  <2>4. s.a.coverage = "whole" /\ ~NoCategory(s) /\ ~Due(s)
    <3>1. s.a.coverage # "whole" => r[5].applies
      <4> DEFINE partial == s.a.coverage # "whole"
      <4>1. r[5] = When(partial, "R_PARTIAL_COVERAGE", "REVIEW", NoCode)
        BY DEF FeeList
      <4>2. partial => r[5].applies
        <5> HIDE DEF partial
        <5> QED
          BY <4>1 DEF When
      <4> QED
        BY <4>2
    <3>2. NoCategory(s) => r[6].applies
      BY DEF FeeList, When
    <3>3. Due(s) => r[7].applies
      BY DEF FeeList, When, WindowPassed
    <3> QED
      BY <2>2, <3>1, <3>2, <3>3
  <2> QED
    BY <1>2, <1>3, <2>1, <2>3, <2>4 DEF Judgement, Askable, ClaimsDefect
<1> QED
  BY <1>4, <1>5, <1>6

LEMMA LossRuleJudges ==
  ASSUME NEW s, s.charge.type \in ChargeTypes, ~IsFee(s.charge), NEW l, LineList(l, s), None(l),
         NEW r, LossList(r, s), NEW f, First(r, f)
  PROVE  Judgement(s, f)
<1>1. PICK i \in 1..4 : f = r[i] /\ r[i].applies /\ \A j \in 1..(i - 1) : ~r[j].applies
  BY DEF First, LossList
<1>2. s.pre.filing # "not_open" /\ ~IsFeeRefundLine(s.charge)
  <2>1. ~l[1].applies /\ ~l[2].applies
    BY DEF None, LineList
  <2> QED
    BY <2>1, LineConditions
<1>3. CASE i = 1
  BY <1>1, <1>2, <1>3 DEF LossList, When, WindowPassed, Judgement, Dismisses
<1>4. CASE i \in {2, 3}
  BY <1>1, <1>2, <1>4 DEF LossList, When, Judgement, Postpones, NoCode
<1>5. CASE i = 4
  <2>1. f = LossRow(s)
    BY <1>1, <1>5 DEF LossList
  <2>2. ~r[2].applies /\ ~r[3].applies
    BY <1>1, <1>5
  <2>3. ~Has(s, "CONFLICTING") /\ ~Has(s, "INSUFFICIENT")
    BY <2>2 DEF LossList, When
  <2>4. s.charge.type \in DOMAIN LossOutcomes
    BY LossOutcomesAssumption DEF IsFee
  <2>5. CASE HasRow(s)
    <3> DEFINE row == LossOutcomes[s.charge.type][s.a.outcome]
    <3>1. f = When(TRUE, row.rule, IF row.amountNeeded THEN "REVIEW" ELSE row.decision, NoCode)
      BY <2>1, <2>5 DEF HasRow, LossRow
    <3>2. row.decision \in {"DO_NOT_CLAIM", "REVIEW"} /\ row.rule \notin {"R_CITATION_INVALID", "raises"}
      BY <2>4, <2>5, LossOutcomesAssumption DEF HasRow
    <3> HIDE DEF row
    <3>3. f.rule = row.rule /\ f.decision \in {"DO_NOT_CLAIM", "REVIEW"} /\ f.code = NoCode
      BY <3>1, <3>2 DEF When
    <3> QED
      BY <1>2, <3>2, <3>3 DEF Judgement, Dismisses, Postpones, NoCode
  <2>6. CASE ~HasRow(s)
    <3>1. f = When(TRUE, "raises", "none", NoCode)
      BY <2>1, <2>6 DEF HasRow, LossRow
    <3> QED
      BY <1>2, <2>3, <2>6, <3>1 DEF When, NoCode, Judgement, FindsNoRow
  <2> QED
    BY <2>5, <2>6
<1> QED
  BY <1>3, <1>4, <1>5

(* Whichever rule fires, this is what it says. *)
LEMMA FiredRuleJudges ==
  ASSUME NEW s, s.charge.type \in ChargeTypes
  PROVE  Judgement(s, Fire(s))
<1>1. LineList(LineRules(s), s) /\ FeeList(FeeRules(s), s) /\ LossList(LossRules(s), s)
  BY LineRulesAre, FeeRulesAre, LossRulesAre
<1>2. CASE First(LineRules(s), Fire(s))
  BY <1>1, <1>2, LineRuleJudges
<1>3. CASE None(LineRules(s)) /\ First(Rest(s), Fire(s))
  <2>1. CASE IsFee(s.charge)
    BY <1>1, <1>3, <2>1, FeeRuleJudges DEF Rest
  <2>2. CASE ~IsFee(s.charge)
    BY <1>1, <1>3, <2>2, LossRuleJudges DEF Rest
  <2> QED
    BY <2>1, <2>2
<1> QED
  BY <1>2, <1>3, WhatFires

-----------------------------------------------------------------------------
(* What the decisions come to. *)

(* A claim on a whole fee asks for all that is not paid back. *)
LEMMA WholeClaim ==
  ASSUME NEW c, c.amount \in Int, NEW paid \in Nat
  PROVE  LET claim == FullAmountClaim(c, "whole", paid)
         IN  /\ claim \in Nat
             /\ claim # 0 => c.amount > 0 /\ paid < c.amount /\ claim = c.amount - paid
             /\ c.amount > paid => claim # 0
<1> DEFINE cap == IF c.amount > paid THEN c.amount - paid ELSE 0
           least == Smaller(c.amount, cap)
<1>1. FullAmountClaim(c, "whole", paid) = IF least > 0 THEN least ELSE 0
  BY DEF FullAmountClaim
<1>2. least = IF c.amount <= cap THEN c.amount ELSE cap
  BY DEF Smaller
<1> QED
  BY <1>1, <1>2

(* The parts of a decision, by the situation it judges. *)
LEMMA DecisionIs ==
  ASSUME NEW c, NEW pre, NEW canonical, NEW records
  PROVE  LET d == Decide(c, pre, canonical, records)
             s == Situation(c, pre, records)
             f == Fire(s)
             coverage == IF f.rule = "R_DUPLICATE" THEN "whole" ELSE s.a.coverage
             claim == IF f.decision = "CLAIM" THEN FullAmountClaim(c, coverage, pre.reimbursed) ELSE 0
             empty == f.decision = "CLAIM" /\ claim = 0
         IN  /\ d.charge = c /\ d.status = "final" /\ d.code = f.code
             /\ d.decision = IF empty THEN "REVIEW" ELSE f.decision
             /\ d.rule = IF empty THEN "R_AMOUNT_NOT_COMPUTABLE" ELSE f.rule
             /\ d.evidence = s.a.status /\ d.coverage = s.a.coverage
             /\ d.charged = c.amount /\ d.reimbursed = pre.reimbursed /\ d.claim = claim
             /\ d.checks = Checks(s) /\ d.citations = Citations(s, canonical)
             /\ s.charge = c /\ s.pre = pre
             /\ s.a = IF Resolved(c, records) THEN Assess(c, Usable(c, records)) ELSE Unsettled({})
BY DEF Decide, Situation

(* What a run has computed of a line that it read. *)
IsPrecheck(pre, c, S, day) == pre = PrecheckOf(c, S, day)

LEMMA PrecheckIs ==
  ASSUME NEW S, Ledger(S), NEW c, NEW day, NEW pre, IsPrecheck(pre, c, S, day)
  PROVE  /\ pre.reimbursed \in Nat
         /\ pre.duplicate => IsDuplicate(c, S)
         /\ pre.filing \in {"not_open", "unknown", "passed", "open"}
<1>1. /\ pre.reimbursed = Paid(PaidToFee(MatchReimbursements(S), c))
      /\ pre.duplicate = IsDuplicate(c, S) /\ pre.filing = FilingState(c, day)
  BY DEF IsPrecheck, PrecheckOf
<1>2. pre.reimbursed \in Nat
  BY <1>1, PaidToFeeIsNat
<1>3. pre.filing \in {"not_open", "unknown", "passed", "open"}
  BY <1>1 DEF FilingState
<1> QED
  BY <1>1, <1>2, <1>3

(* What a decision that asks for money rests on. *)
LEMMA ClaimRests ==
  ASSUME NEW S, Ledger(S), NEW c, c.amount \in Int, c.type \in ChargeTypes,
         NEW day, NEW pre, IsPrecheck(pre, c, S, day), NEW canonical, NEW records,
         Decide(c, pre, canonical, records).decision = "CLAIM"
  PROVE  LET d == Decide(c, pre, canonical, records)
             s == Situation(c, pre, records)
         IN  /\ IsChargeableFee(c) /\ pre.reimbursed < c.amount
             /\ d.claim = c.amount - pre.reimbursed /\ d.claim \in Nat /\ d.claim > 0
             /\ pre.ambiguous = {} /\ pre.filing \in {"open", "unknown"}
             /\ IsDuplicate(c, S) \/ ClaimsDefect(s, Fire(s))
<1> DEFINE d == Decide(c, pre, canonical, records)
           s == Situation(c, pre, records)
           f == Fire(s)
           coverage == IF f.rule = "R_DUPLICATE" THEN "whole" ELSE s.a.coverage
           claim == IF f.decision = "CLAIM" THEN FullAmountClaim(c, coverage, pre.reimbursed) ELSE 0
<1>1. /\ d.decision = (IF f.decision = "CLAIM" /\ claim = 0 THEN "REVIEW" ELSE f.decision)
      /\ d.claim = claim /\ s.charge = c /\ s.pre = pre
  BY DecisionIs
<1>2. f.decision = "CLAIM" /\ claim # 0
  BY <1>1
<1>3. Judgement(s, f)
  BY <1>1, FiredRuleJudges
<1>4. /\ pre.reimbursed \in Nat /\ pre.filing \in {"not_open", "unknown", "passed", "open"}
      /\ pre.duplicate => IsDuplicate(c, S)
  BY PrecheckIs
<1> HIDE DEF d, s, f, claim, coverage
<1>5. pre.filing # "not_open" /\ Askable(s) /\ (ClaimsRepeat(s, f) \/ ClaimsDefect(s, f))
  <2>1. CASE FindsNoRow(s, f)
    BY <1>1, <1>2, <1>3, <2>1 DEF Judgement, Postpones, Dismisses, FindsNoRow
  <2> QED
    BY <1>1, <1>2, <1>3, <2>1 DEF Judgement, Postpones, Dismisses
<1>6. claim = FullAmountClaim(c, "whole", pre.reimbursed)
  <2>1. coverage = "whole"
    BY <1>5 DEF ClaimsRepeat, ClaimsDefect, coverage
  <2> QED
    BY <1>2, <2>1 DEF claim
<1>7. /\ claim \in Nat /\ c.amount > 0 /\ pre.reimbursed < c.amount
      /\ claim = c.amount - pre.reimbursed
  BY <1>2, <1>4, <1>6, WholeClaim
<1>8. ClaimsRepeat(s, f) => IsDuplicate(c, S)
  BY <1>1, <1>4 DEF ClaimsRepeat, RepeatOwed
<1>9. IsChargeableFee(c)
  <2>1. CASE IsDuplicate(c, S)
    BY <2>1 DEF IsDuplicate, Fees
  <2>2. CASE ClaimsDefect(s, f)
    BY <1>1, <1>5, <1>7, <2>2 DEF ClaimsDefect, Askable, IsChargeableFee
  <2> QED
    BY <1>5, <1>8, <2>1, <2>2
<1>10. pre.ambiguous = {} /\ pre.filing \in {"open", "unknown"}
  BY <1>1, <1>4, <1>5 DEF Askable, Due
<1>11. claim > 0
  BY <1>2, <1>7
<1>12. IsDuplicate(c, S) \/ ClaimsDefect(s, f)
  BY <1>5, <1>8
<1>13. d.claim = claim
  BY <1>1
<1> QED
  BY <1>7, <1>9, <1>10, <1>11, <1>12, <1>13 DEF d, s, f

(* A decision is one the review is built for: it asks only where a claim may be asked. *)
LEMMA DecisionIsReadable ==
  ASSUME NEW S, Ledger(S), NEW c, c.amount \in Int, c.type \in ChargeTypes,
         NEW day, NEW pre, IsPrecheck(pre, c, S, day), NEW canonical, NEW records,
         ~Raises(Decide(c, pre, canonical, records))
  PROVE  ReviewView(Decide(c, pre, canonical, records)) \in FinalRecords(c, pre)
<1> DEFINE d == Decide(c, pre, canonical, records)
           s == Situation(c, pre, records)
           f == Fire(s)
           partial == d.coverage = "part"
<1>1. /\ d.charge = c /\ d.status = "final" /\ d.charged = c.amount
      /\ d.reimbursed = pre.reimbursed /\ d.checks = Checks(s) /\ s.charge = c /\ s.pre = pre
      /\ f.decision # "CLAIM" => d.decision = f.decision /\ d.rule = f.rule /\ d.claim = 0
      /\ f.decision = "CLAIM" => d.decision = "CLAIM" \/ (d.decision = "REVIEW" /\ d.claim = 0)
  BY DecisionIs
<1>2. Judgement(s, f)
  BY <1>1, FiredRuleJudges
<1>3. /\ Checks(s).amount_computable = AmountVerdict(c)
      /\ Checks(s).within_filing_window = FilingVerdict(pre.filing)
      /\ Checks(s).not_already_reimbursed = ReimbursedVerdict(c, pre)
  BY <1>1 DEF Checks
<1>4. d.decision = "CLAIM" =>
        /\ IsChargeableFee(c) /\ pre.reimbursed < c.amount
        /\ d.claim = c.amount - pre.reimbursed
        /\ pre.ambiguous = {} /\ pre.filing \in {"open", "unknown"}
  BY ClaimRests
<1>5. ~Raises(d)
  OBVIOUS
<1>6. ReviewView(d) =
        [charge |-> d.charge, decision |-> d.decision, status |-> d.status,
         computable |-> d.checks.amount_computable, window |-> d.checks.within_filing_window,
         settled |-> d.checks.not_already_reimbursed, partial |-> partial,
         charged |-> d.charged, reimbursed |-> d.reimbursed, claim |-> d.claim]
  BY DEF ReviewView
<1>7. partial \in BOOLEAN
  OBVIOUS
<1> HIDE DEF d, s, f, partial
<1>8. d.decision \in Decisions /\ (d.decision # "CLAIM" => d.claim = 0) /\ MayDecide(c, pre, d.decision)
  <2>1. CASE f.decision = "CLAIM"
    <3>1. ~IsFeeRefundLine(c)
      BY <1>1, <1>2, <2>1 DEF Judgement, Postpones, Dismisses, FindsNoRow, Askable
    <3> QED
      BY <1>1, <1>4, <2>1, <3>1 DEF MayDecide, Decisions
  <2>2. CASE f.decision # "CLAIM"
    <3>1. f.rule # "raises"
      BY <1>1, <1>5, <2>2 DEF Raises
    <3>2. \/ f.decision = "REVIEW" /\ (pre.filing = "not_open" \/ ~IsFeeRefundLine(c))
          \/ f.decision = "DO_NOT_CLAIM" /\ pre.filing # "not_open"
      BY <1>1, <1>2, <2>2, <3>1
      DEF Judgement, Postpones, Dismisses, FindsNoRow, ClaimsRepeat, ClaimsDefect
    <3> QED
      BY <1>1, <2>2, <3>2 DEF MayDecide, Decisions
  <2> QED
    BY <2>1, <2>2
<1>9. ReviewView(d) = FinalRecord(c, pre, d.decision, partial)
  BY <1>1, <1>3, <1>4, <1>6, <1>8 DEF FinalRecord
<1>10. ReviewView(d) \in FinalRecords(c, pre)
  BY <1>7, <1>8, <1>9 DEF FinalRecords
<1> QED
  BY <1>10 DEF d

(* What the review reads of a decision, its last question answered. *)
ViewOf(d, partial) ==
  [charge |-> d.charge, decision |-> d.decision, status |-> d.status,
   computable |-> d.checks.amount_computable, window |-> d.checks.within_filing_window,
   settled |-> d.checks.not_already_reimbursed, partial |-> partial,
   charged |-> d.charged, reimbursed |-> d.reimbursed, claim |-> d.claim]

LEMMA ViewIs ==
  ASSUME NEW d
  PROVE  /\ d.coverage = "part" => ReviewView(d) = ViewOf(d, TRUE)
         /\ d.coverage # "part" => ReviewView(d) = ViewOf(d, FALSE)
<1> DEFINE partial == d.coverage = "part"
<1>1. ReviewView(d) = ViewOf(d, partial)
  BY DEF ReviewView, ViewOf
<1>2. d.coverage = "part" => partial = TRUE
  OBVIOUS
<1>3. d.coverage # "part" => partial = FALSE
  OBVIOUS
<1> HIDE DEF partial
<1> QED
  BY <1>1, <1>2, <1>3

LEMMA ViewDowngraded ==
  ASSUME NEW d, NEW e, NEW partial,
         e.charge = d.charge, e.decision = "REVIEW", e.status = "pending",
         e.checks = d.checks, e.charged = d.charged, e.reimbursed = d.reimbursed, e.claim = 0
  PROVE  ViewOf(e, partial) = Downgraded(ViewOf(d, partial))
<1> DEFINE r == ViewOf(d, partial)
           t == ViewOf(e, partial)
           S == {"charge", "decision", "status", "computable", "window", "settled",
                 "partial", "charged", "reimbursed", "claim"}
           new(k) == IF k = "status" THEN "pending" ELSE IF k = "decision" THEN "REVIEW"
                     ELSE IF k = "claim" THEN 0 ELSE r[k]
<1>1. DOMAIN r = S /\ r = [k \in S |-> r[k]]
  BY DEF ViewOf
<1>2. t = [k \in S |-> t[k]]
  BY DEF ViewOf
<1>3. /\ t.charge = r.charge /\ t.decision = "REVIEW" /\ t.status = "pending"
      /\ t.computable = r.computable /\ t.window = r.window /\ t.settled = r.settled
      /\ t.partial = r.partial /\ t.charged = r.charged /\ t.reimbursed = r.reimbursed
      /\ t.claim = 0
  BY DEF ViewOf
<1> HIDE DEF r, t
<1>4. Downgraded(r) = [k \in S |-> new(k)]
  BY <1>1 DEF Downgraded
<1>5. \A k \in S : t[k] = new(k)
  BY <1>3
<1>6. Downgraded(r) = t
  <2> HIDE DEF S, new
  <2> QED
    BY <1>2, <1>4, <1>5
<1> QED
  BY <1>6 DEF r, t

(* The same of a decision that the validator downgraded. *)
LEMMA DowngradeIsReadable ==
  ASSUME NEW c, NEW pre, NEW canonical, NEW records
  PROVE  LET d == Decide(c, pre, canonical, records)
         IN  ReviewView(Enforce(d, FALSE)) = Downgraded(ReviewView(d))
<1> DEFINE d == Decide(c, pre, canonical, records)
           e == Enforce(d, FALSE)
<1>1. /\ e.charge = d.charge /\ e.decision = "REVIEW" /\ e.status = "pending"
      /\ e.checks = d.checks /\ e.coverage = d.coverage /\ e.charged = d.charged
      /\ e.reimbursed = d.reimbursed /\ e.claim = 0
  BY DEF Decide, Enforce
<1> HIDE DEF d, e
<1>2. \A v : ViewOf(e, v) = Downgraded(ViewOf(d, v))
  BY <1>1, ViewDowngraded
<1>3. /\ d.coverage = "part" => ReviewView(d) = ViewOf(d, TRUE) /\ ReviewView(e) = ViewOf(e, TRUE)
      /\ d.coverage # "part" => ReviewView(d) = ViewOf(d, FALSE) /\ ReviewView(e) = ViewOf(e, FALSE)
  BY <1>1, ViewIs
<1> QED
  BY <1>2, <1>3 DEF d, e

-----------------------------------------------------------------------------
(* What a run has read, and where its decisions come from. *)

ReadInv ==
  /\ pc \in {"deciding", "committed"} /\ ~snap.failed => snap.pre = RunPrechecks(snap.charges)
  /\ \A b \in snap.bodies : WellFormed(b)
  /\ \A a, b \in snap.bodies : a.agent = b.agent /\ a.id = b.id => a = b
  /\ edited = {} => /\ snap.charges \subseteq charges
                    /\ \A b \in snap.bodies : \E w \in rows : w.body = b

LEMMA ReadInvInit == Init => ReadInv
BY DEF Init, ReadInv, NothingRead

LEMMA ReadInvStep == Inv /\ ReadInv /\ [Next]_vars => ReadInv'
<1> SUFFICES ASSUME Inv, ReadInv, [Next]_vars PROVE ReadInv'
  OBVIOUS
<1>1. CASE DecideOne \/ FailOpenOnError \/ FailOpenOnDatabase
  <2>1. UNCHANGED <<pc, snap, store>>
    BY <1>1, StoredDecision DEF Store
  <2> QED
    BY <2>1 DEF ReadInv, store, RunPrechecks
<1>2. CASE Commit
  BY <1>2 DEF Commit, ReadInv, store, RunPrechecks
<1>3. CASE Abort
  <2>1. pc' = "aborted" /\ snap' = NothingRead
    BY <1>3 DEF Abort
  <2> QED
    BY <2>1 DEF ReadInv, NothingRead
<1>4. CASE Restart
  BY <1>4 DEF Restart, ReadInv, store
<1>5. CASE UNCHANGED vars
  BY <1>5 DEF vars, store, run, ReadInv, RunPrechecks
<1>6. CASE ReadCharges
  <2>1. /\ snap = NothingRead /\ pc' = "charges" /\ UNCHANGED store
        /\ snap' = [snap EXCEPT !.charges = charges]
    BY <1>6 DEF ReadCharges, Inv, PcInv
  <2>2. snap'.charges = charges /\ snap'.bodies = {}
    BY <2>1 DEF NothingRead
  <2> QED
    BY <2>1, <2>2 DEF ReadInv, store
<1>7. CASE ReadRecords
  <2>1. PICK failed \in BOOLEAN :
          /\ pc' = "deciding" /\ UNCHANGED store
          /\ snap' = [snap EXCEPT !.bodies = {w.body : w \in rows}, !.failed = failed,
                                  !.pre = IF failed THEN <<>> ELSE RunPrechecks(snap.charges)]
    BY <1>7 DEF ReadRecords
  <2>2. /\ snap'.charges = snap.charges /\ snap'.bodies = {w.body : w \in rows}
        /\ snap'.failed = failed /\ (~failed => snap'.pre = RunPrechecks(snap.charges))
    BY <2>1 DEF Inv, PcInv
  <2>3. RunPrechecks(snap.charges)' = RunPrechecks(snap.charges)
    BY <2>1, <2>2 DEF RunPrechecks, store
  <2>4. \A a, b \in snap'.bodies : a.agent = b.agent /\ a.id = b.id => a = b
    BY <2>2 DEF Inv, TablesInv, SameRecord
  <2>5. \A b \in snap'.bodies : WellFormed(b) /\ \E w \in rows : w.body = b
    BY <2>2 DEF Inv, TablesInv
  <2> QED
    BY <2>1, <2>2, <2>3, <2>4, <2>5 DEF ReadInv, store
<1>8. ASSUME NEW c \in LateCharges(asOf), IngestCharge(c) PROVE ReadInv'
  BY <1>8 DEF IngestCharge, run, ReadInv, RunPrechecks
<1>9. ASSUME NEW w \in LateRows(asOf), IngestRow(w) PROVE ReadInv'
  BY <1>9 DEF IngestRow, run, ReadInv, RunPrechecks
<1>10. ASSUME NEW w \in rows, EditRow(w) PROVE ReadInv'
  BY <1>10 DEF EditRow, run, ReadInv, RunPrechecks
<1>11. ASSUME NEW c \in charges, EditCharge(c) PROVE ReadInv'
  BY <1>11 DEF EditCharge, run, ReadInv, RunPrechecks
<1> QED
  BY <1>1, <1>2, <1>3, <1>4, <1>5, <1>6, <1>7, <1>8, <1>9, <1>10, <1>11 DEF Next, Step, Done

(* The decision d of one of the lines that were read. *)
Origin(d) ==
  /\ d.charge \in snap.charges
  /\ \/ \E code \in {"ENGINE_ERROR", "DEPENDENCY_UNAVAILABLE"} :
          /\ d = FailOpen(d.charge, code)
          /\ code = "ENGINE_ERROR" => snap.failed \/ Raises(DecideLine(d.charge))
     \/ /\ ~snap.failed /\ ~Raises(DecideLine(d.charge))
        /\ d \in {DecideLine(d.charge), Enforce(DecideLine(d.charge), FALSE)}

OriginInv == \A d \in decided : Origin(d)

LEMMA StoredOrigin ==
  ASSUME Inv, DecideOne \/ FailOpenOnError \/ FailOpenOnDatabase
  PROVE  \E d : /\ Store(d) /\ Origin(d)
                /\ d.status = "final" \/ d.rule = "R_CITATION_INVALID" =>
                     /\ ~snap.failed
                     /\ d = Enforce(DecideLine(d.charge),
                                    Valid(DecideLine(d.charge), charges, rows, FALSE))
<1> DEFINE c == Head(todo)
           x == DecideLine(c)
           valid == Valid(x, charges, rows, FALSE)
<1>1. pc = "deciding" /\ todo # <<>>
  BY StoredDecision
<1>2. c \in snap.charges
  BY <1>1 DEF Inv, TodoInv
<1>3. \A code : /\ FailOpen(c, code).charge = c /\ FailOpen(c, code).status = "pending"
                /\ FailOpen(c, code).rule = "R_ENGINE_ERROR"
  BY DEF FailOpen
<1>a. x.charge = c /\ \A v : Enforce(x, v).charge = c
  BY DEF DecideLine, Decide, Enforce
<1>b. valid => Enforce(x, valid) = x
  <2> HIDE DEF x, valid
  <2> QED
    BY DEF Enforce
<1>c. ~valid => Enforce(x, valid) = Enforce(x, FALSE)
  <2> HIDE DEF x, valid
  <2> QED
    BY DEF Enforce
<1>4. CASE DecideOne
  <2>1. ~Raises(x) /\ ~snap.failed /\ Store(Enforce(x, valid))
    BY <1>4 DEF DecideOne
  <2> HIDE DEF x, valid, c
  <2>2. Enforce(x, valid) \in {x, Enforce(x, FALSE)} /\ Enforce(x, valid).charge = c
    BY <1>a, <1>b, <1>c
  <2> QED
    BY <1>2, <2>1, <2>2 DEF Origin, x, valid
<1>5. CASE FailOpenOnError
  <2>1. Store(FailOpen(c, "ENGINE_ERROR")) /\ (snap.failed \/ Raises(x))
    BY <1>5 DEF FailOpenOnError
  <2> HIDE DEF c
  <2> QED
    BY <1>2, <1>3, <2>1 DEF Origin
<1>6. CASE FailOpenOnDatabase
  <2>1. Store(FailOpen(c, "DEPENDENCY_UNAVAILABLE"))
    BY <1>6 DEF FailOpenOnDatabase
  <2> HIDE DEF c
  <2> QED
    BY <1>2, <1>3, <2>1 DEF Origin
<1> QED
  BY <1>4, <1>5, <1>6

(* Every other step leaves the decisions and what they rest on alone, or starts over. *)
LEMMA OtherSteps ==
  ASSUME Inv, [Next]_vars, ~(DecideOne \/ FailOpenOnError \/ FailOpenOnDatabase)
  PROVE  decided' = {} \/ (UNCHANGED <<snap, decided>> /\ (edited' = {} => edited = {}))
<1>1. CASE ReadCharges \/ ReadRecords \/ Abort
  BY <1>1 DEF ReadCharges, ReadRecords, Abort, Inv, PcInv
<1>2. CASE Commit \/ Restart
  BY <1>2 DEF Commit, Restart, store
<1>3. CASE UNCHANGED vars
  BY <1>3 DEF vars, run, store
<1>4. ASSUME NEW c \in LateCharges(asOf), IngestCharge(c) PROVE UNCHANGED <<snap, decided, edited>>
  BY <1>4 DEF IngestCharge, run
<1>5. ASSUME NEW w \in LateRows(asOf), IngestRow(w) PROVE UNCHANGED <<snap, decided, edited>>
  BY <1>5 DEF IngestRow, run
<1>6. ASSUME NEW w \in rows, EditRow(w) PROVE UNCHANGED <<snap, decided>> /\ edited' # {}
  BY <1>6 DEF EditRow, run
<1>7. ASSUME NEW c \in charges, EditCharge(c) PROVE UNCHANGED <<snap, decided>> /\ edited' # {}
  BY <1>7 DEF EditCharge, run
<1> QED
  BY <1>1, <1>2, <1>3, <1>4, <1>5, <1>6, <1>7 DEF Next, Step, Done

LEMMA OriginInvStep == Inv /\ OriginInv /\ [Next]_vars => OriginInv'
<1> SUFFICES ASSUME Inv, OriginInv, [Next]_vars PROVE OriginInv'
  OBVIOUS
<1>1. ASSUME UNCHANGED snap, NEW d, Origin(d) PROVE Origin(d)'
  <2>1. DecideLine(d.charge)' = DecideLine(d.charge)
    BY <1>1 DEF DecideLine
  <2>2. Raises(DecideLine(d.charge))' = Raises(DecideLine(d.charge))
    BY <2>1 DEF Raises
  <2> QED
    BY <1>1, <2>1, <2>2 DEF Origin
<1>2. CASE DecideOne \/ FailOpenOnError \/ FailOpenOnDatabase
  <2>1. PICK d : Store(d) /\ Origin(d)
    BY <1>2, StoredOrigin
  <2>2. decided' = decided \cup {d} /\ UNCHANGED snap
    BY <2>1 DEF Store
  <2> QED
    BY <1>1, <2>1, <2>2 DEF OriginInv
<1>3. CASE ~(DecideOne \/ FailOpenOnError \/ FailOpenOnDatabase)
  BY <1>1, <1>3, OtherSteps DEF OriginInv
<1> QED
  BY <1>2, <1>3

LEMMA OriginsHold == Spec => [](Inv /\ ReadInv /\ OriginInv)
<1>1. Init => OriginInv
  BY DEF Init, OriginInv
<1> QED
  BY <1>1, ReadInvInit, RunInvariant, ReadInvStep, OriginInvStep, PTL DEF Spec

(* What is known of a line that was read and was not failed open. *)
LEMMA ReadLine ==
  ASSUME Inv, ReadInv, pc \in {"deciding", "committed"}, ~snap.failed, NEW c \in snap.charges
  PROVE  /\ Ledger(snap.charges) /\ c.amount \in Int /\ c.type \in ChargeTypes
         /\ IsPrecheck(snap.pre[c], c, snap.charges, asOf)
<1>1. Ledger(snap.charges) /\ c.amount \in Int /\ c.type \in ChargeTypes
  BY DEF Inv, SnapInv, Keyed, IsLine, Ledger, Ordered
<1>2. snap.pre[c] = PrecheckOf(c, snap.charges, asOf)
  BY DEF ReadInv, RunPrechecks
<1> QED
  BY <1>1, <1>2 DEF IsPrecheck

(* Every stored decision is one that the review is built for, whatever was uploaded,
   edited or failed while the run decided (claim_refusal and the override rules read
   it without knowing the evidence it came from). *)
THEOREM DecisionsAreReadable == Spec => []ReviewCanReadIt
<1>1. ASSUME Inv, ReadInv, OriginInv PROVE ReviewCanReadIt
  <2> SUFFICES ASSUME NEW d \in decided
               PROVE  ReviewView(d) \in EngineRecords(d.charge, snap.charges, asOf)
    BY DEF ReviewCanReadIt
  <2> DEFINE c == d.charge
             x == DecideLine(c)
             finals == FinalRecords(c, PrecheckOf(c, snap.charges, asOf))
  <2>1. Origin(d)
    BY <1>1 DEF OriginInv
  <2>2. EngineRecords(c, snap.charges, asOf) =
          finals \cup {Downgraded(f) : f \in finals} \cup {FailOpenRecord(c)}
    BY DEF EngineRecords
  <2>3. ASSUME NEW code, d = FailOpen(c, code) PROVE ReviewView(d) = FailOpenRecord(c)
    <3> HIDE DEF c
    <3>1. /\ d.charge = c /\ d.decision = "REVIEW" /\ d.status = "pending" /\ d.coverage = "none"
          /\ d.checks.amount_computable = "UNCERTAIN" /\ d.checks.within_filing_window = "UNCERTAIN"
          /\ d.checks.not_already_reimbursed = "UNCERTAIN"
          /\ d.charged = c.amount /\ d.reimbursed = 0 /\ d.claim = 0
      BY <2>3 DEF FailOpen, CheckKeys
    <3>2. ReviewView(d) = ViewOf(d, FALSE)
      BY <3>1, ViewIs
    <3> QED
      BY <3>1, <3>2 DEF ViewOf, FailOpenRecord
  <2>4. ASSUME ~snap.failed, ~Raises(x), d \in {x, Enforce(x, FALSE)}
        PROVE  ReviewView(d) \in finals \cup {Downgraded(f) : f \in finals}
    <3>1. /\ Ledger(snap.charges) /\ c.amount \in Int /\ c.type \in ChargeTypes
          /\ IsPrecheck(snap.pre[c], c, snap.charges, asOf)
      <4>1. pc \in {"deciding", "committed"}
        BY <1>1 DEF Inv, PcInv
      <4> QED
        BY <1>1, <2>1, <2>4, <4>1, ReadLine DEF Origin
    <3>2. x = Decide(c, snap.pre[c], CanonicalOf(c, snap.charges), snap.bodies)
      BY DEF DecideLine
    <3>3. ReviewView(x) \in finals
      BY <2>4, <3>1, <3>2, DecisionIsReadable DEF IsPrecheck
    <3>4. ReviewView(Enforce(x, FALSE)) = Downgraded(ReviewView(x))
      BY <3>2, DowngradeIsReadable
    <3> QED
      BY <2>4, <3>3, <3>4
  <2> QED
    BY <2>1, <2>2, <2>3, <2>4 DEF Origin
<1> QED
  BY <1>1, OriginsHold, PTL

-----------------------------------------------------------------------------
(* The engine never raises. *)

RowExists(c, a) ==
  LET table == LossOutcomes[c.type]
  IN  a.outcome \in DOMAIN table /\ table[a.outcome].status = a.status

(* What the findings combine to is open, or names the outcome it was given. *)
LEMMA CombineNames ==
  ASSUME NEW findings, NEW contradicts, NEW supports
  PROVE  LET a == Combine(findings, contradicts, supports)
         IN  \/ a.status \in {"CONFLICTING", "INSUFFICIENT"}
             \/ a.status = "CONTRADICTED" /\ a.outcome = contradicts
                  /\ findings # {} /\ Polarities(findings) = {"contradicts"}
             \/ a.status = "SUPPORTED" /\ a.outcome = supports
BY DEF Combine, NothingRelevant, Conflicting, Unsettled, Settled, Assessment

(* A loss event that the evidence settles is settled by a row of its table. *)
LEMMA SettledHasRow ==
  ASSUME NEW c, c.type \in ChargeTypes, ~IsFee(c), NEW usable,
         Assess(c, usable).status \notin {"CONFLICTING", "INSUFFICIENT"}
  PROVE  RowExists(c, Assess(c, usable))
<1> DEFINE a == Assess(c, usable)
<1>1. CASE c.type = "lost_inbound"
  <2>1. a = AssessLostInbound(c, usable)
    BY <1>1 DEF Assess
  <2>2. \/ a.status = "INSUFFICIENT"
        \/ a.status = "CONTRADICTED" /\ a.outcome = "later_sighting"
        \/ a.status = "SUPPORTED" /\ a.outcome = "shipped_no_later_sighting"
    BY <2>1 DEF AssessLostInbound, NothingRelevant, Unsettled, Settled, Assessment
  <2> HIDE DEF a
  <2> QED
    BY <1>1, <2>2, OutcomeRowsAssumption DEF RowExists, a
<1>2. CASE c.type = "damaged_in_warehouse"
  <2> DEFINE findings == {DamagedFinding(r) : r \in usable}
  <2>1. a = Combine(findings, NoRow, "left_prep_undamaged")
    BY <1>2 DEF Assess, AssessDamaged
  <2>2. \A f \in findings : f.polarity # "contradicts"
    BY DEF DamagedFinding, Finding
  <2>3. "contradicts" \notin Polarities(findings)
    BY <2>2 DEF Polarities
  <2> HIDE DEF a, findings
  <2>4. a.status = "SUPPORTED" /\ a.outcome = "left_prep_undamaged"
    BY <2>1, <2>3, CombineNames DEF a
  <2> QED
    BY <1>2, <2>4, OutcomeRowsAssumption DEF RowExists, a
<1>3. CASE c.type = "refund_issued_item_not_returned"
  <2> DEFINE findings == {ReturnFinding(r) : r \in usable}
             back == {f.record : f \in {x \in findings : x.polarity = "contradicts"}}
             label == IF \A r \in back : Whole(r) THEN "returned_complete"
                      ELSE "returned_incomplete_or_damaged"
  <2>1. a = Combine(findings, label, "wrong_item_returned")
    BY <1>3 DEF Assess, AssessRefundNotReturned
  <2>2. label \in {"returned_complete", "returned_incomplete_or_damaged"}
    OBVIOUS
  <2> HIDE DEF a, findings, label
  <2>3. \/ a.status = "CONTRADICTED"
             /\ a.outcome \in {"returned_complete", "returned_incomplete_or_damaged"}
        \/ a.status = "SUPPORTED" /\ a.outcome = "wrong_item_returned"
    BY <2>1, <2>2, CombineNames DEF a
  <2> QED
    BY <1>3, <2>3, OutcomeRowsAssumption DEF RowExists, a
<1> QED
  BY <1>1, <1>2, <1>3, FeeTypesAssumption DEF ChargeTypes, IsFee

LEMMA NeverRaises ==
  ASSUME NEW c, c.type \in ChargeTypes, NEW pre, NEW canonical, NEW records
  PROVE  LET d == Decide(c, pre, canonical, records)
         IN  ~Raises(d) /\ d.code # "ENGINE_ERROR"
<1> DEFINE d == Decide(c, pre, canonical, records)
           s == Situation(c, pre, records)
           f == Fire(s)
<1>1. /\ d.code = f.code
      /\ d.rule = "raises" => f.rule = "raises"
      /\ s.charge = c
      /\ s.a = IF Resolved(c, records) THEN Assess(c, Usable(c, records)) ELSE Unsettled({})
  BY DecisionIs
<1>2. Judgement(s, f)
  BY <1>1, FiredRuleJudges
<1> HIDE DEF d, s, f
<1>3. ~FindsNoRow(s, f)
  <2> SUFFICES ASSUME FindsNoRow(s, f) PROVE FALSE
    OBVIOUS
  <2>1. s.a.status \notin {"CONFLICTING", "INSUFFICIENT"} /\ ~IsFee(c) /\ ~RowExists(c, s.a)
    BY <1>1 DEF FindsNoRow, Has, HasRow, RowExists
  <2>2. Unsettled({}).status = "INSUFFICIENT"
    BY DEF Unsettled, Assessment
  <2> QED
    BY <1>1, <2>1, <2>2, SettledHasRow
<1>4. f.rule # "raises" /\ f.code # "ENGINE_ERROR"
  BY <1>2, <1>3 DEF Judgement, Postpones, Dismisses, ClaimsRepeat, ClaimsDefect
<1>5. ~Raises(d) /\ d.code # "ENGINE_ERROR"
  BY <1>1, <1>4 DEF Raises
<1> QED
  BY <1>5 DEF d

(* The rows of loss_event_outcomes are all that the assessments ever look for: a line fails
   open with ENGINE_ERROR only when the pre-checks raised, whatever the records say
   (engine/__init__.py, "no loss_event_outcomes row"). *)
THEOREM TheOutcomeTableIsComplete == Spec => []OutcomeTableIsComplete
<1>1. ASSUME Inv, OriginInv PROVE OutcomeTableIsComplete
  <2> SUFFICES ASSUME NEW d \in decided, d.code = "ENGINE_ERROR" PROVE snap.failed
    BY DEF OutcomeTableIsComplete
  <2> DEFINE c == d.charge
             x == DecideLine(c)
  <2>1. Origin(d)
    BY <1>1 DEF OriginInv
  <2>2. c.type \in ChargeTypes
    BY <1>1, <2>1 DEF Origin, Inv, SnapInv, Keyed, IsLine
  <2>3. ~Raises(x) /\ x.code # "ENGINE_ERROR"
    BY <2>2, NeverRaises DEF DecideLine
  <2>4. Enforce(x, FALSE).code = x.code
    BY DEF Enforce, DecideLine, Decide
  <2>5. \A code : d = FailOpen(c, code) => d.code = code
    BY DEF FailOpen
  <2> HIDE DEF x
  <2> QED
    BY <2>1, <2>3, <2>4, <2>5 DEF Origin, x
<1> QED
  BY <1>1, OriginsHold, PTL

-----------------------------------------------------------------------------
(* What a stored claim rests on. *)

(* A duplicate repeats an earlier line that says the same. *)
LEMMA RepeatIsOfEarlier ==
  ASSUME NEW S, Ledger(S), NEW c, IsDuplicate(c, S)
  PROVE  LET canon == Canonical(S)[c]
         IN  canon \in S /\ Earlier(canon, c) /\ Fingerprint(canon) = Fingerprint(c)
<1> DEFINE G == Group(S, c)
           s == InOrder(G)
           canon == Canonical(S)[c]
<1>1. c \in Fees(S) /\ canon # c
  BY DEF IsDuplicate
<1>2. c \in G /\ G \in SUBSET S
  BY <1>1 DEF Group, Fees
<1>3. Ordered(S) /\ Ordered(G)
  BY <1>2, FS_Subset DEF Ledger, Ordered
<1> HIDE DEF G
<1>4. /\ \A i \in 1..Cardinality(G) : s[i] \in G
      /\ \E i \in 1..Cardinality(G) : s[i] = c
      /\ \A i, j \in 1..Cardinality(G) : i < j => Earlier(s[i], s[j])
      /\ Cardinality(G) \in Nat
  BY <1>2, <1>3, InOrderLists
<1>5. PICK k \in 1..Cardinality(G) : s[k] = c
  BY <1>4
<1>6. \A i \in 1..Cardinality(G) : \E j \in 1..i : Canonical(S)[s[i]] = s[j]
  BY <1>1, <1>3, CanonicalIsLatestBefore DEF G
<1> HIDE DEF s
<1>7. PICK j \in 1..k : canon = s[j]
  BY <1>5, <1>6
<1>8. j \in 1..Cardinality(G) /\ j < k
  BY <1>1, <1>4, <1>5, <1>7
<1>9. canon \in G /\ Earlier(canon, c)
  BY <1>4, <1>5, <1>7, <1>8
<1> QED
  BY <1>9 DEF G, Group, Fees

(* When the records contradict a defect fee for the whole of it, they are final, and
   between them they passed every check that speaks to the defect, for the one unit. *)
LEMMA ContradictedFee ==
  ASSUME NEW c, IsFee(c), NEW usable, \A r \in usable : AreChecks(r.checks),
         NEW a, a = Assess(c, usable),
         a.status \notin {"CONFLICTING", "SUPPORTED", "INSUFFICIENT"},
         a.coverage = "whole", ~(c.type = "inbound_defect_fee" /\ c.category = NoRef)
  PROVE  /\ c.quantity = 1 /\ a.findings # {}
         /\ DefectKeys(c) = UNION {f.keys : f \in a.findings}
         /\ \A f \in a.findings :
              /\ f.record \in usable /\ f.polarity = "contradicts" /\ f.record.status = "final"
              /\ \A k \in f.keys : f.record.checks[k] = "PASS"
<1> DEFINE known == c.category = NoRef \/ c.category \in DOMAIN DefectCategories
           keys == IF known THEN DefectKeys(c) ELSE {}
           speaking == {r \in usable : Recorded(r, keys) # {}}
           findings == {DefectFinding(r, keys) : r \in speaking}
           said == [k \in keys |-> {Weight(r, k) : r \in {s \in speaking : k \in DOMAIN s.checks}}]
           conflict == \E k \in keys : {"PASS", "FAIL"} \subseteq said[k]
           fails == \E k \in keys : "FAIL" \in said[k]
           missing == IF c.category = NoRef THEN {} ELSE {k \in keys : said[k] = {}}
           open == missing # {} \/ \E k \in keys : "UNCERTAIN" \in said[k]
<1>1. c.type \in {"inbound_defect_fee", "fulfilment_fee_weight_tier"}
  BY FeeTypesAssumption DEF IsFee
<1>2. AssessWeightTier(c, usable).status = "INSUFFICIENT"
  BY DEF AssessWeightTier, NothingRelevant, Unsettled, Assessment
<1>3. a = AssessInboundDefect(c, usable) /\ c.type = "inbound_defect_fee" /\ c.category # NoRef
  BY <1>1, <1>2 DEF Assess
<1>4. a = IF ~known THEN Unsettled({})
          ELSE IF findings = {} THEN NothingRelevant
          ELSE IF conflict THEN Conflicting(findings)
          ELSE IF fails
               THEN Settled("SUPPORTED", {f \in findings : f.polarity = "supports"}, "none", NoRow)
          ELSE IF open THEN Unsettled(findings)
          ELSE Settled("CONTRADICTED", findings, UnitCoverage(c), NoRow)
  BY <1>3, Zenon DEF AssessInboundDefect
<1>5. /\ known /\ findings # {} /\ ~fails /\ ~open
      /\ a = Settled("CONTRADICTED", findings, UnitCoverage(c), NoRow)
  <2> HIDE DEF known, findings, conflict, fails, open
  <2> QED
    BY <1>4 DEF NothingRelevant, Unsettled, Conflicting, Settled, Assessment
<1>6. a.findings = findings /\ c.quantity = 1 /\ keys = DefectKeys(c)
  <2>1. a.findings = findings /\ a.coverage = UnitCoverage(c)
    <3> HIDE DEF findings
    <3> QED
      BY <1>5 DEF Settled, Assessment
  <2> QED
    BY <1>5, <2>1 DEF UnitCoverage
<1>7. \A k \in keys : said[k] # {} /\ "FAIL" \notin said[k] /\ "UNCERTAIN" \notin said[k]
  BY <1>3, <1>5
<1>8. ASSUME NEW r \in speaking, NEW k \in Recorded(r, keys)
      PROVE  r.status = "final" /\ r.checks[k] = "PASS"
  <2>1. k \in keys /\ k \in DOMAIN r.checks
    BY DEF Recorded
  <2>2. Weight(r, k) \in said[k]
    BY <2>1
  <2>3. Weight(r, k) \notin {"FAIL", "UNCERTAIN"}
    BY <1>7, <2>1, <2>2
  <2>4. r.checks[k] \in {"PASS", "FAIL", "UNCERTAIN"}
    BY <2>1 DEF AreChecks, Verdicts
  <2> QED
    BY <2>3, <2>4 DEF Weight, NotFinal
<1>9. ASSUME NEW r \in speaking
      PROVE  LET f == DefectFinding(r, keys)
             IN  /\ f.record = r /\ f.keys = Recorded(r, keys)
                 /\ r \in usable /\ f.polarity = "contradicts" /\ r.status = "final"
                 /\ \A k \in f.keys : r.checks[k] = "PASS"
  <2> DEFINE R == Recorded(r, keys)
             v == {r.checks[k] : k \in R}
             f == DefectFinding(r, keys)
  <2>1. R # {} /\ r \in usable
    OBVIOUS
  <2>2. /\ f.record = r /\ f.keys = R
        /\ f.polarity = IF NotFinal(r) \/ "UNCERTAIN" \in v THEN "uncertain"
                        ELSE IF "FAIL" \in v THEN "supports" ELSE "contradicts"
    BY DEF DefectFinding, Finding
  <2>3. r.status = "final" /\ \A k \in R : r.checks[k] = "PASS"
    BY <1>8, <2>1
  <2> HIDE DEF f, R
  <2>4. "UNCERTAIN" \notin v /\ "FAIL" \notin v /\ ~NotFinal(r)
    BY <2>3 DEF NotFinal
  <2> QED
    BY <2>1, <2>2, <2>3, <2>4 DEF f, R
<1>10. keys = UNION {f.keys : f \in findings}
  <2>1. ASSUME NEW k \in keys PROVE \E f \in findings : k \in f.keys
    <3>1. PICK r \in speaking : k \in DOMAIN r.checks
      BY <1>7, <2>1
    <3>2. DefectFinding(r, keys) \in findings /\ k \in Recorded(r, keys)
      BY <2>1, <3>1 DEF Recorded
    <3> QED
      BY <1>9, <3>1, <3>2
  <2>2. ASSUME NEW f \in findings PROVE f.keys \subseteq keys
    <3>1. PICK r \in speaking : f = DefectFinding(r, keys)
      OBVIOUS
    <3> QED
      BY <1>9, <3>1 DEF Recorded
  <2> HIDE DEF findings, keys
  <2> QED
    BY <2>1, <2>2
<1>11. ASSUME NEW f \in findings
       PROVE  /\ f.record \in usable /\ f.polarity = "contradicts" /\ f.record.status = "final"
              /\ \A k \in f.keys : f.record.checks[k] = "PASS"
  <2>1. PICK r \in speaking : f = DefectFinding(r, keys)
    OBVIOUS
  <2> QED
    BY <1>9, <2>1
<1> HIDE DEF findings, keys
<1> QED
  BY <1>5, <1>6, <1>10, <1>11

(* The records a decision cites are those its assessment found. *)
LEMMA EvidenceOfDecision ==
  ASSUME NEW c, NEW pre, NEW canonical, NEW records
  PROVE  LET s == Situation(c, pre, records)
         IN  EvidenceCited(Decide(c, pre, canonical, records)) =
               {EvidenceCitation(f) : f \in s.a.findings}
<1> DEFINE s == Situation(c, pre, records)
           lines == {ChargeCitation(d, "canonical_charge") : d \in canonical}
                      \cup {ChargeCitation(r, "reimbursement") : r \in s.pre.refunds \cup s.pre.ambiguous}
           found == {EvidenceCitation(f) : f \in s.a.findings}
<1>1. Decide(c, pre, canonical, records).citations = lines \cup found
  BY DecisionIs DEF Citations
<1>2. \A x \in lines : x.kind = "charge"
  BY DEF ChargeCitation
<1>3. \A x \in found : x.kind = "evidence"
  BY DEF EvidenceCitation
<1> HIDE DEF lines, found
<1>4. EvidenceCited(Decide(c, pre, canonical, records)) = found
  BY <1>1, <1>2, <1>3 DEF EvidenceCited
<1> QED
  BY <1>4 DEF found

(* A record that the validator finds intact is the one the run read, and its hash is the
   content it has. *)
LEMMA IntactCitation ==
  ASSUME Inv, ReadInv, NEW r \in snap.bodies, NEW cite, NEW c,
         cite.agent = r.agent, cite.id = r.id, cite.hash = r.seal,
         EvidenceCitationHolds(cite, c, rows)
  PROVE  cite.hash.status = r.status /\ cite.hash.checks = r.checks
<1>1. PICK w \in CitedRow(cite, rows) : w.body.seal = cite.hash /\ HashVerifies(w.body)
  BY DEF EvidenceCitationHolds
<1>2. w \in rows /\ w.body.agent = r.agent /\ w.body.id = r.id
  BY <1>1 DEF CitedRow
<1>3. w.body \in snap.bodies
  BY <1>1, <1>2, CitedRowWasRead
<1>4. w.body = r
  BY <1>2, <1>3 DEF ReadInv
<1>5. r.seal = Content(r) /\ {"status", "checks"} \subseteq DOMAIN r
  BY <1>1, <1>4 DEF HashVerifies, ReadInv, WellFormed
<1> QED
  BY <1>5 DEF Content

Backed(d) ==
  /\ d.claim > 0 /\ d.claim + d.reimbursed <= d.charge.amount
  /\ \/ \E cite \in d.citations :
          /\ cite.role = "canonical_charge" /\ Earlier(cite.hash, d.charge)
          /\ Fingerprint(cite.hash) = Fingerprint(d.charge)
     \/ /\ d.charge.quantity = 1
        /\ DefectKeys(d.charge) = UNION {cite.keys : cite \in EvidenceCited(d)}
        /\ \A cite \in EvidenceCited(d) :
             cite.hash.status = "final" /\ \A k \in cite.keys : cite.hash.checks[k] = "PASS"

LEMMA ValidClaimIsBacked ==
  ASSUME Inv, ReadInv, pc \in {"deciding", "committed"}, ~snap.failed, NEW c \in snap.charges,
         DecideLine(c).decision = "CLAIM", Valid(DecideLine(c), charges, rows, FALSE)
  PROVE  Backed(DecideLine(c))
<1> DEFINE S == snap.charges
           pre == snap.pre[c]
           canonical == CanonicalOf(c, S)
           records == snap.bodies
           d == Decide(c, pre, canonical, records)
           s == Situation(c, pre, records)
<1>1. /\ Ledger(S) /\ c.amount \in Int /\ c.type \in ChargeTypes
      /\ IsPrecheck(pre, c, S, asOf)
  BY ReadLine
<1>2. d.decision = "CLAIM" /\ Valid(d, charges, rows, FALSE)
  BY DEF DecideLine
<1>3. /\ d.charge = c /\ d.reimbursed = pre.reimbursed /\ d.citations = Citations(s, canonical)
      /\ s.charge = c
      /\ s.a = IF Resolved(c, records) THEN Assess(c, Usable(c, records)) ELSE Unsettled({})
  BY DecisionIs
<1>4. pre.reimbursed \in Nat
  BY <1>1, PrecheckIs
<1>5. /\ d.claim = c.amount - pre.reimbursed /\ d.claim > 0
      /\ IsDuplicate(c, S) \/ ClaimsDefect(s, Fire(s))
  <2> HIDE DEF S, pre, canonical, records
  <2> QED
    BY <1>1, <1>2, ClaimRests
<1>6. d.claim > 0 /\ d.claim + d.reimbursed <= d.charge.amount
  BY <1>1, <1>3, <1>4, <1>5
<1>7. EvidenceCited(d) = {EvidenceCitation(f) : f \in s.a.findings}
  BY EvidenceOfDecision
<1>8. \A cite \in EvidenceCited(d) : EvidenceCitationHolds(cite, c, rows)
  BY <1>2, <1>3 DEF EvidenceCited, Valid
<1> HIDE DEF d, s
<1>9. CASE IsDuplicate(c, S)
  <2> DEFINE canon == Canonical(S)[c]
             cite == ChargeCitation(canon, "canonical_charge")
  <2>1. Earlier(canon, c) /\ Fingerprint(canon) = Fingerprint(c)
    BY <1>1, <1>9, RepeatIsOfEarlier
  <2>2. cite \in d.citations
    BY <1>3, <1>9 DEF Citations, CanonicalOf
  <2>3. cite.role = "canonical_charge" /\ cite.hash = canon
    BY DEF ChargeCitation
  <2> HIDE DEF cite, canon
  <2>4. Backed(d)
    BY <1>3, <1>6, <2>1, <2>2, <2>3 DEF Backed
  <2> QED
    BY <2>4 DEF d, DecideLine
<1>10. CASE ClaimsDefect(s, Fire(s))
  <2>1. /\ IsFee(c) /\ s.a.status \notin {"CONFLICTING", "SUPPORTED", "INSUFFICIENT"}
        /\ s.a.coverage = "whole" /\ ~(c.type = "inbound_defect_fee" /\ c.category = NoRef)
    BY <1>3, <1>10 DEF ClaimsDefect, Has, NoCategory
  <2>2. s.a = Assess(c, Usable(c, records))
    BY <1>3, <2>1 DEF Unsettled, Assessment
  <2>3. \A r \in Usable(c, records) : r \in records /\ AreChecks(r.checks)
    BY DEF Usable, UnitRecords, ReadInv, WellFormed
  <2>4. /\ c.quantity = 1 /\ DefectKeys(c) = UNION {f.keys : f \in s.a.findings}
        /\ \A f \in s.a.findings :
             /\ f.record \in records /\ f.record.status = "final"
             /\ \A k \in f.keys : f.record.checks[k] = "PASS"
    <3> HIDE DEF records
    <3>1. \A r \in Usable(c, records) : AreChecks(r.checks)
      BY <2>3
    <3> QED
      BY <2>1, <2>2, <2>3, <3>1, ContradictedFee
  <2>5. UNION {cite.keys : cite \in EvidenceCited(d)} = DefectKeys(c)
    <3>1. \A f : EvidenceCitation(f).keys = f.keys
      BY DEF EvidenceCitation
    <3>2. {cite.keys : cite \in EvidenceCited(d)} = {f.keys : f \in s.a.findings}
      BY <1>7, <3>1
    <3> QED
      BY <2>4, <3>2
  <2>6. ASSUME NEW cite \in EvidenceCited(d)
        PROVE  cite.hash.status = "final" /\ \A k \in cite.keys : cite.hash.checks[k] = "PASS"
    <3>1. PICK f \in s.a.findings : cite = EvidenceCitation(f)
      BY <1>7
    <3>2. /\ cite.agent = f.record.agent /\ cite.id = f.record.id
          /\ cite.hash = f.record.seal /\ cite.keys = f.keys
      BY <3>1 DEF EvidenceCitation
    <3>3. cite.hash.status = f.record.status /\ cite.hash.checks = f.record.checks
      BY <1>8, <2>4, <3>2, IntactCitation
    <3> QED
      BY <2>4, <3>2, <3>3
  <2>7. Backed(d)
    BY <1>3, <1>6, <2>4, <2>5, <2>6 DEF Backed
  <2> QED
    BY <2>7 DEF d, DecideLine
<1> QED
  BY <1>5, <1>9, <1>10

LEMMA ClaimIsBackedStep ==
  Inv /\ ReadInv /\ ClaimIsBacked /\ [Next]_vars => ClaimIsBacked'
<1> SUFFICES ASSUME Inv, ReadInv, ClaimIsBacked, [Next]_vars PROVE ClaimIsBacked'
  OBVIOUS
<1>1. CASE DecideOne \/ FailOpenOnError \/ FailOpenOnDatabase
  <2>1. PICK d : /\ Store(d) /\ Origin(d)
                 /\ d.status = "final" =>
                      /\ ~snap.failed
                      /\ d = Enforce(DecideLine(d.charge),
                                     Valid(DecideLine(d.charge), charges, rows, FALSE))
    BY <1>1, StoredOrigin
  <2> DEFINE x == DecideLine(d.charge)
  <2>2. decided' = decided \cup {d} /\ pc = "deciding"
    BY <1>1, <2>1, StoredDecision DEF Store
  <2>3. ASSUME d.decision = "CLAIM" PROVE Backed(d)
    <3>1. \A c, code : FailOpen(c, code).decision = "REVIEW"
      BY DEF FailOpen
    <3>2. Enforce(x, FALSE).decision = "REVIEW" /\ x.status = "final"
      BY DEF Enforce, DecideLine, Decide
    <3>3. d = x
      BY <2>1, <2>3, <3>1, <3>2 DEF Origin
    <3>4. ~snap.failed /\ d = Enforce(x, Valid(x, charges, rows, FALSE))
      BY <2>1, <3>2, <3>3
    <3> HIDE DEF x
    <3>5. Valid(x, charges, rows, FALSE)
      <4> SUFFICES ASSUME ~Valid(x, charges, rows, FALSE) PROVE FALSE
        OBVIOUS
      <4>1. Enforce(x, Valid(x, charges, rows, FALSE)) = Enforce(x, FALSE)
        BY DEF Enforce
      <4> QED
        BY <2>3, <3>2, <3>4, <4>1
    <3>6. d.charge \in snap.charges
      BY <2>1 DEF Origin
    <3> QED
      BY <2>2, <2>3, <3>3, <3>4, <3>5, <3>6, ValidClaimIsBacked DEF x
  <2>4. \A e \in decided' : e.decision = "CLAIM" => Backed(e)
    BY <2>2, <2>3 DEF ClaimIsBacked, Backed
  <2> QED
    BY <2>4 DEF ClaimIsBacked, Backed
<1>2. CASE ~(DecideOne \/ FailOpenOnError \/ FailOpenOnDatabase)
  <2>1. decided' \subseteq decided
    BY <1>2, OtherSteps
  <2> QED
    BY <2>1 DEF ClaimIsBacked
<1> QED
  BY <1>1, <1>2

(* Whoever reads a CLAIM can defend it, whatever was uploaded, edited or failed while the
   run decided: it asks for what is left of the fee, and rests on an earlier line that
   says the same, or on final records that passed every check of the defect between them
   (rules R_DUPLICATE and R_CONTRADICTED_FULL with the citation validator). *)
THEOREM ClaimsAreBacked == Spec => []ClaimIsBacked
<1>1. Init => ClaimIsBacked
  BY DEF Init, ClaimIsBacked
<1> QED
  BY <1>1, OriginsHold, ClaimIsBackedStep, PTL DEF Spec

-----------------------------------------------------------------------------
(* The engine and the validator agree. *)

(* While nobody has edited the store, what an assessment found holds when it is read
   again, whatever was uploaded since. *)
LEMMA FoundIsCitable ==
  ASSUME Inv, ReadInv, edited = {}, NEW c, NEW f, f.record \in Usable(c, snap.bodies),
         f.keys \subseteq DOMAIN f.record.checks
  PROVE  EvidenceCitationHolds(EvidenceCitation(f), c, rows)
<1> DEFINE r == f.record
           cite == EvidenceCitation(f)
<1>1. r \in snap.bodies /\ InScope(c, r) /\ InCustody(c, r)
  BY DEF Usable, UnitRecords
<1>2. cite.agent = r.agent /\ cite.id = r.id /\ cite.hash = r.seal /\ cite.keys = f.keys
  BY DEF EvidenceCitation
<1> HIDE DEF cite
<1>3. PICK w \in rows : w.body = r
  BY <1>1 DEF ReadInv
<1>4. IsIntact(w)
  BY DEF Inv, TablesInv
<1>5. w.body = Sealed(Content(w.body)) /\ w.column = Content(w.body)
  BY <1>4, IntactRow
<1>6. \A b : Sealed(b).seal = b
  BY DEF Sealed
<1>7. w.body.seal = Content(w.body)
  BY <1>5, <1>6
<1>8. w \in CitedRow(cite, rows)
  BY <1>2, <1>3 DEF CitedRow
<1>9. /\ w.column = cite.hash /\ w.body.seal = cite.hash /\ HashVerifies(w.body)
      /\ cite.keys \subseteq DOMAIN w.body.checks /\ InScope(c, w.body) /\ InCustody(c, w.body)
  BY <1>1, <1>2, <1>3, <1>5, <1>7 DEF HashVerifies
<1>10. EvidenceCitationHolds(cite, c, rows)
  BY <1>8, <1>9 DEF EvidenceCitationHolds
<1> QED
  BY <1>10 DEF cite

(* A claim of the engine names its ground. *)
LEMMA ClaimIsGrounded ==
  ASSUME NEW S, Ledger(S), NEW c, c.amount \in Int, c.type \in ChargeTypes,
         NEW day, NEW pre, IsPrecheck(pre, c, S, day),
         NEW records, \A r \in records : AreChecks(r.checks),
         Decide(c, pre, CanonicalOf(c, S), records).decision = "CLAIM"
  PROVE  \E cite \in Decide(c, pre, CanonicalOf(c, S), records).citations :
           cite.role \in {"contradicts", "canonical_charge"}
<1> DEFINE d == Decide(c, pre, CanonicalOf(c, S), records)
           s == Situation(c, pre, records)
<1>1. IsDuplicate(c, S) \/ ClaimsDefect(s, Fire(s))
  BY ClaimRests
<1>2. /\ d.citations = Citations(s, CanonicalOf(c, S)) /\ s.charge = c
      /\ s.a = IF Resolved(c, records) THEN Assess(c, Usable(c, records)) ELSE Unsettled({})
  BY DecisionIs
<1> HIDE DEF d, s
<1>3. CASE IsDuplicate(c, S)
  <2>1. ChargeCitation(Canonical(S)[c], "canonical_charge") \in d.citations
    BY <1>2, <1>3 DEF Citations, CanonicalOf
  <2>2. ChargeCitation(Canonical(S)[c], "canonical_charge").role = "canonical_charge"
    BY DEF ChargeCitation
  <2> QED
    BY <2>1, <2>2 DEF d
<1>4. CASE ClaimsDefect(s, Fire(s))
  <2>1. /\ IsFee(c) /\ s.a.status \notin {"CONFLICTING", "SUPPORTED", "INSUFFICIENT"}
        /\ s.a.coverage = "whole" /\ ~(c.type = "inbound_defect_fee" /\ c.category = NoRef)
    BY <1>2, <1>4 DEF ClaimsDefect, Has, NoCategory
  <2>2. s.a = Assess(c, Usable(c, records))
    BY <1>2, <2>1 DEF Unsettled, Assessment
  <2>3. \A r \in Usable(c, records) : AreChecks(r.checks)
    BY DEF Usable, UnitRecords
  <2>4. s.a.findings # {} /\ \A f \in s.a.findings : f.polarity = "contradicts"
    BY <2>1, <2>2, <2>3, ContradictedFee
  <2>5. PICK f : f \in s.a.findings
    BY <2>4
  <2>6. EvidenceCitation(f) \in d.citations /\ EvidenceCitation(f).role = "contradicts"
    BY <1>2, <2>4, <2>5 DEF Citations, EvidenceCitation
  <2> QED
    BY <2>6 DEF d
<1> QED
  BY <1>1, <1>3, <1>4

(* What the pre-checks of line c cite, and what it was paid back: the refunds are stored
   lines, and when none is negative the cited ones cover what was paid. *)
LEMMA RefundsCover ==
  ASSUME NEW S, Ledger(S), NEW c, NEW day, NEW pre, IsPrecheck(pre, c, S, day)
  PROVE  LET cited == pre.refunds \cup pre.ambiguous
         IN  /\ cited \subseteq S /\ IsFiniteSet(cited)
             /\ (\A r \in cited : r.amount >= 0) => pre.reimbursed <= Paid(cited)
<1> DEFINE m == MatchReimbursements(S)
           cited == pre.refunds \cup pre.ambiguous
<1>1. /\ pre.reimbursed = Paid(PaidToFee(m, c))
      /\ pre.refunds = {p.refund : p \in PaidToFee(m, c)}
      /\ pre.ambiguous = {a.refund : a \in {x \in m.ambiguous : x.fee = c}}
  BY DEF IsPrecheck, PrecheckOf
<1>2. /\ {p.refund : p \in PaidToFee(m, c)} \subseteq Refunds(S)
      /\ {a.refund : a \in m.ambiguous} \subseteq Refunds(S)
      /\ Paid(PaidToFee(m, c)) <= Paid({p.refund : p \in PaidToFee(m, c)})
      /\ Paid(PaidToFee(m, c)) \in Nat
  BY PaidWithinRefunds, PaidToFeeIsNat
<1> HIDE DEF m
<1>3. cited \subseteq S /\ \A r \in cited : r.amount \in Int
  BY <1>1, <1>2 DEF Refunds, Ledger
<1>4. IsFiniteSet(cited)
  BY <1>3, FS_Subset DEF Ledger, Ordered
<1>5. ASSUME \A r \in cited : r.amount >= 0 PROVE pre.reimbursed <= Paid(cited)
  <2>1. \A r \in cited : r.amount \in Nat
    BY <1>3, <1>5
  <2>2. pre.refunds \in SUBSET cited /\ IsFiniteSet(pre.refunds)
    BY <1>4, FS_Subset
  <2>3. Paid(pre.refunds) <= Paid(cited)
    <3> HIDE DEF cited
    <3> QED
      BY <1>4, <2>1, <2>2, PaidGrows
  <2>4. Paid(pre.refunds) \in Nat /\ Paid(cited) \in Nat
    <3>1. \A r \in pre.refunds : r.amount \in Nat
      BY <2>1
    <3> HIDE DEF cited
    <3> QED
      BY <1>4, <2>1, <2>2, <3>1, PaidIsNat
  <2>5. pre.reimbursed <= Paid(pre.refunds) /\ pre.reimbursed \in Nat
    BY <1>1, <1>2
  <2> HIDE DEF cited
  <2> QED
    BY <2>3, <2>4, <2>5
<1> QED
  BY <1>3, <1>4, <1>5

(* Of what a decision cites as reimbursements, none is negative. *)
NoneNegative(d) ==
  \A cite \in d.citations : cite.role = "reimbursement" => ~(cite.hash.amount < 0)

LEMMA UndisturbedIsValid ==
  ASSUME Inv, ReadInv, edited = {}, pc \in {"deciding", "committed"}, ~snap.failed,
         NEW c \in snap.charges, NoneNegative(DecideLine(c))
  PROVE  Valid(DecideLine(c), charges, rows, FALSE)
<1> DEFINE S == snap.charges
           pre == snap.pre[c]
           canonical == CanonicalOf(c, S)
           records == snap.bodies
           d == Decide(c, pre, canonical, records)
           s == Situation(c, pre, records)
           cited == pre.refunds \cup pre.ambiguous
<1>1. /\ Ledger(S) /\ c.amount \in Int /\ c.type \in ChargeTypes
      /\ IsPrecheck(pre, c, S, asOf)
  BY ReadLine
<1>2. S \subseteq charges /\ \A r \in records : WellFormed(r)
  BY DEF ReadInv
<1>3. /\ d.charge = c /\ d.charged = c.amount /\ d.reimbursed = pre.reimbursed
      /\ d.citations = Citations(s, canonical)
      /\ d.decision # "CLAIM" => d.claim = 0
      /\ s.charge = c /\ s.pre = pre
      /\ s.a = IF Resolved(c, records) THEN Assess(c, Usable(c, records)) ELSE Unsettled({})
  BY DecisionIs
<1>4. /\ cited \subseteq S /\ IsFiniteSet(cited)
      /\ (\A r \in cited : r.amount >= 0) => pre.reimbursed <= Paid(cited)
  BY <1>1, RefundsCover
<1>5. \A r \in cited : r \in S /\ r.amount \in Int
  BY <1>1, <1>4 DEF Ledger
<1>6. d.citations = {ChargeCitation(x, "canonical_charge") : x \in canonical}
                      \cup {ChargeCitation(r, "reimbursement") : r \in cited}
                      \cup {EvidenceCitation(f) : f \in s.a.findings}
  BY <1>3 DEF Citations
<1>7. canonical \subseteq S
  BY <1>1, RepeatIsOfEarlier DEF CanonicalOf
<1>8. d.decision = "CLAIM" =>
        /\ IsChargeableFee(c) /\ pre.reimbursed < c.amount
        /\ d.claim = c.amount - pre.reimbursed /\ d.claim > 0
        /\ \E cite \in d.citations : cite.role \in {"contradicts", "canonical_charge"}
  <2> SUFFICES ASSUME d.decision = "CLAIM"
               PROVE  /\ IsChargeableFee(c) /\ pre.reimbursed < c.amount
                      /\ d.claim = c.amount - pre.reimbursed /\ d.claim > 0
                      /\ \E cite \in d.citations : cite.role \in {"contradicts", "canonical_charge"}
    OBVIOUS
  <2>1. \A r \in records : AreChecks(r.checks)
    BY <1>2 DEF WellFormed
  <2> HIDE DEF S, pre, records
  <2> QED
    BY <1>1, <2>1, ClaimRests, ClaimIsGrounded
<1>9. NoneNegative(d)
  BY DEF DecideLine
<1>10. pre.reimbursed \in Nat
  BY <1>1, PrecheckIs
<1> HIDE DEF d, s, cited, canonical
<1>11. ASSUME NEW cite \in d.citations
       PROVE  IF cite.kind = "evidence" THEN EvidenceCitationHolds(cite, d.charge, rows)
                                        ELSE ChargeCitationHolds(cite, charges)
  <2>1. ASSUME NEW x \in S, NEW role, cite = ChargeCitation(x, role)
        PROVE  cite.kind # "evidence" /\ ChargeCitationHolds(cite, charges)
    BY <1>2, <2>1 DEF ChargeCitation, ChargeCitationHolds
  <2>2. ASSUME NEW f \in s.a.findings, cite = EvidenceCitation(f)
        PROVE  cite.kind = "evidence" /\ EvidenceCitationHolds(cite, c, rows)
    <3>1. Among(s.a, Usable(c, records))
      BY <1>1, <1>3, AssessFindsUsable DEF Unsettled, Assessment, Among
    <3>2. f.record \in Usable(c, snap.bodies) /\ f.keys \subseteq DOMAIN f.record.checks
      BY <3>1 DEF Among
    <3>3. EvidenceCitationHolds(EvidenceCitation(f), c, rows)
      BY <3>2, FoundIsCitable
    <3> QED
      BY <2>2, <3>3 DEF EvidenceCitation
  <2> QED
    BY <1>3, <1>5, <1>6, <1>7, <2>1, <2>2
<1>12. d.reimbursed <= Paid(CitedRefunds(d, charges))
  <2>1. \A x, role : /\ ChargeCitation(x, role).kind = "charge" /\ ChargeCitation(x, role).role = role
                     /\ ChargeCitation(x, role).hash = x
    BY DEF ChargeCitation
  <2>2. \A f : EvidenceCitation(f).kind = "evidence"
    BY DEF EvidenceCitation
  <2>3. CitedRefunds(d, charges) = cited
    BY <1>2, <1>5, <1>6, <2>1, <2>2 DEF CitedRefunds
  <2>4. \A r \in cited : r.amount >= 0
    BY <1>5, <1>6, <1>9, <2>1 DEF NoneNegative
  <2> QED
    BY <1>3, <1>4, <2>3, <2>4
<1>13. ClaimIsSound(d, FALSE)
  BY <1>1, <1>3, <1>8, <1>10 DEF ClaimIsSound, Remaining, IsChargeableFee
<1>14. d.charge \in charges
  BY <1>2, <1>3
<1>15. Valid(d, charges, rows, FALSE)
  <2>1. d.reimbursed <= MapThenSumSet(LAMBDA r : r.amount, CitedRefunds(d, charges))
    BY <1>12 DEF Paid
  <2> QED
    BY <1>11, <1>13, <1>14, <2>1 DEF Valid
<1> QED
  BY <1>15 DEF d, canonical, DecideLine

Undisturbed == edited = {} => \A d \in decided : d.rule = "R_CITATION_INVALID" => ~NoneNegative(d)

LEMMA UndisturbedStep ==
  Inv /\ ReadInv /\ Undisturbed /\ [Next]_vars => Undisturbed'
<1> SUFFICES ASSUME Inv, ReadInv, Undisturbed, [Next]_vars PROVE Undisturbed'
  OBVIOUS
<1>1. CASE DecideOne \/ FailOpenOnError \/ FailOpenOnDatabase
  <2>1. PICK d : /\ Store(d) /\ Origin(d)
                 /\ d.rule = "R_CITATION_INVALID" =>
                      /\ ~snap.failed
                      /\ d = Enforce(DecideLine(d.charge),
                                     Valid(DecideLine(d.charge), charges, rows, FALSE))
    BY <1>1, StoredOrigin
  <2> DEFINE c == d.charge
             x == DecideLine(c)
  <2>2. decided' = decided \cup {d} /\ edited' = edited /\ pc = "deciding"
    BY <1>1, <2>1, StoredDecision DEF Store, store
  <2>3. ASSUME edited = {}, d.rule = "R_CITATION_INVALID", NoneNegative(d) PROVE FALSE
    <3>1. c \in snap.charges /\ ~snap.failed /\ d = Enforce(x, Valid(x, charges, rows, FALSE))
      BY <2>1, <2>3 DEF Origin
    <3>2. x.rule # "R_CITATION_INVALID"
      <4> DEFINE s == Situation(c, snap.pre[c], snap.bodies)
      <4>1. c.type \in ChargeTypes
        BY <3>1 DEF Inv, SnapInv, Keyed, IsLine
      <4>2. /\ x.rule = Fire(s).rule \/ x.rule = "R_AMOUNT_NOT_COMPUTABLE"
            /\ s.charge = c
        BY DecisionIs DEF DecideLine
      <4> HIDE DEF s, x, c
      <4>3. Judgement(s, Fire(s))
        BY <4>1, <4>2, FiredRuleJudges
      <4> QED
        BY <4>2, <4>3 DEF Judgement
    <3>3. x.citations = d.citations
      <4>1. \A v : Enforce(x, v).citations = x.citations
        BY DEF DecideLine, Decide, Enforce
      <4> HIDE DEF x
      <4> QED
        BY <3>1, <4>1
    <3> HIDE DEF x
    <3>4. NoneNegative(x)
      BY <2>3, <3>3 DEF NoneNegative
    <3>5. Valid(x, charges, rows, FALSE)
      BY <2>2, <2>3, <3>1, <3>4, UndisturbedIsValid DEF x
    <3>6. Enforce(x, Valid(x, charges, rows, FALSE)) = x
      BY <3>5 DEF Enforce
    <3> QED
      BY <2>3, <3>1, <3>2, <3>6
  <2> QED
    BY <2>2, <2>3 DEF Undisturbed, NoneNegative
<1>2. CASE ~(DecideOne \/ FailOpenOnError \/ FailOpenOnDatabase)
  BY <1>2, OtherSteps DEF Undisturbed, NoneNegative
<1> QED
  BY <1>1, <1>2

(* The engine and the validator agree: without an edit of the store no decision is
   downgraded, however uploads and failures interleave with the run, unless it cites a
   refund line of a negative amount (claims/validator.py, "The reimbursed amount must be
   backed by the refund lines cited"). *)
THEOREM UndisturbedRunsValidate == Spec => []UndisturbedRunValidates
<1>1. Init => Undisturbed
  BY DEF Init, Undisturbed
<1>2. Undisturbed => UndisturbedRunValidates
  BY DEF Undisturbed, UndisturbedRunValidates, NoneNegative
<1> QED
  BY <1>1, <1>2, OriginsHold, UndisturbedStep, PTL DEF Spec

-----------------------------------------------------------------------------
(* What the filing windows of config/rules and the custody windows of config/engine.yaml
   have to do with one another, for every configuration that check_windows_consistent
   lets through. *)

(* The state of a filing window is "open" on no day after its deadline, and only if it
   has one. *)
LEMMA OpenBeforeDeadline ==
  ASSUME NEW c, c.type \in DOMAIN Filing, c.posted \in Int, NEW d \in Int,
         FilingState(c, d) = "open"
  PROVE  Filing[c.type].close # NoDays /\ d <= c.posted + Filing[c.type].close
<1> DEFINE rule == Filing[c.type]
<1>1. /\ rule.open = NoDays \/ rule.open \in Nat
      /\ rule.close = NoDays \/ rule.close \in Nat
  BY FilingAssumption
<1>2. ~(rule.open # NoDays /\ d < c.posted + rule.open)
  BY DEF FilingState
<1>3. rule.close # NoDays
  BY <1>2 DEF FilingState
<1>4. ~(d > c.posted + rule.close)
  BY <1>2, <1>3 DEF FilingState
<1> QED
  BY <1>1, <1>3, <1>4

(* D-019: while a line can still be claimed, no record that a pod of its type took after
   the posted date has come too late to be heard: a customer return that arrived today
   is in its custody window, so that "no return" is never read off a window that
   closed before the deadline. *)
THEOREM LateRecordsAreHeard ==
  ASSUME NEW c, NEW r, NEW today \in Int,
         c.type \in DOMAIN Pods, c.posted \in Int, r.captured \in Int,
         Relevant(c, r), Pods[c.type][r.agent].after # NoDays,
         FilingState(c, today) = "open",
         c.posted <= r.captured, r.captured <= today
  PROVE  InCustody(c, r)
<1> DEFINE rel == Pods[c.type][r.agent]
           close == Filing[c.type].close
<1>1. /\ c.type \in DOMAIN Filing
      /\ r.agent \in DOMAIN Pods[c.type]
      /\ rel.before \in Nat \cup {NoDays} /\ rel.after \in Nat
  BY PodsAssumption DEF Relevant
<1>2. close # NoDays /\ today <= c.posted + close
  BY <1>1, OpenBeforeDeadline
<1>3. close \in Nat /\ rel.after >= close
  BY <1>1, <1>2, PodsAssumption, FilingAssumption DEF WindowsConsistent
<1>4. r.captured < c.posted + rel.after + 1
  BY <1>1, <1>2, <1>3
<1>5. CASE rel.before = NoDays
  BY <1>1, <1>4, <1>5 DEF InCustody
<1>6. CASE rel.before \in Nat /\ rel.before # NoDays
  <2>1. c.posted - rel.before <= r.captured
    BY <1>6
  <2> QED
    BY <1>1, <1>4, <1>6, <2>1 DEF InCustody
<1> QED
  BY <1>1, <1>5, <1>6
=============================================================================
