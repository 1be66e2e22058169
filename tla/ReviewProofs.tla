---------------------------- MODULE ReviewProofs ----------------------------
(***************************************************************************)
(* Proofs about Review, for any runs, requests and report lines.           *)
(***************************************************************************)
EXTENDS Review, PrecheckProofs

(* A request that was sent names a decision and an outcome; the decision it has
   read is stored. *)
Asked ==
  \A q \in Requests :
    /\ reqPc[q] # "idle" => req[q].record \in RecordIds /\ req[q].want \in Decisions
    /\ reqPc[q] \in HasRead => decisions[req[q].record] \in DecisionRecord

(* What is stored, and what a run has read of it, can be sorted and added up. *)
SnapshotsAreStores ==
  /\ IsFiniteSet(charges)
  /\ \A r \in Runs : IsFiniteSet(snap[r]) /\ LineIdsUnique(snap[r])

TypeInv == TypeOK /\ Asked /\ SnapshotsAreStores

-----------------------------------------------------------------------------
(* Type correctness. *)

(* What the engine may store of a line is a decision record of that line, whose
   amount charged is the amount of the line. *)
LEMMA EngineRecordsTyped ==
  ASSUME NEW c \in Arrivals, NEW S \in SUBSET Arrivals, IsFiniteSet(S), LineIdsUnique(S), NEW asOf,
         NEW d \in EngineRecords(c, S, asOf)
  PROVE  d \in DecisionRecord /\ d.charge = c /\ d.charged = c.amount
<1> DEFINE pre == PrecheckOf(c, S, asOf)
           Good(f) == f \in DecisionRecord /\ f.charge = c /\ f.charged = c.amount
<1>1. pre.reimbursed \in Nat /\ c.amount \in Int
  <2>1. Ledger(S)
    BY ReviewAssumption DEF Ledger, Ordered, LineIdsUnique
  <2>2. Paid(PaidToFee(MatchReimbursements(S), c)) \in Nat
    BY <2>1, PaidToFeeIsNat
  <2> QED
    BY <2>2, ReviewAssumption DEF PrecheckOf
<1>2. ASSUME NEW f \in FinalRecords(c, pre) PROVE Good(f)
  <2>1. PICK x \in Decisions, v \in BOOLEAN : f = FinalRecord(c, pre, x, v)
    BY DEF FinalRecords
  <2>2. AmountVerdict(c) \in Verdicts /\ FilingVerdict(pre.filing) \in Verdicts
          /\ ReimbursedVerdict(c, pre) \in Verdicts
    BY DEF AmountVerdict, FilingVerdict, ReimbursedVerdict, Verdicts
  <2>3. (IF x = "CLAIM" THEN c.amount - pre.reimbursed ELSE 0) \in Int
    BY <1>1
  <2> HIDE DEF pre
  <2>4. QED BY <1>1, <2>1, <2>2, <2>3 DEF FinalRecord, DecisionRecord
<1>3. ASSUME NEW f, Good(f) PROVE Good(Downgraded(f))
  <2> DEFINE pending == [f EXCEPT !.status = "pending"]
             review == [pending EXCEPT !.decision = "REVIEW"]
  <2>1. Downgraded(f) = [review EXCEPT !.claim = 0] BY DEF Downgraded
  <2>2. Good(pending) BY <1>3 DEF DecisionRecord
  <2> HIDE DEF pending
  <2>3. Good(review) BY <2>2 DEF DecisionRecord, Decisions
  <2> HIDE DEF review
  <2>4. QED BY <2>1, <2>3 DEF DecisionRecord
<1>4. Good(FailOpenRecord(c))
  BY <1>1 DEF FailOpenRecord, DecisionRecord, Decisions, Verdicts
<1> HIDE DEF pre, Good
<1>5. Good(d) BY <1>2, <1>3, <1>4 DEF EngineRecords, pre
<1>6. QED BY <1>5 DEF Good

(* Init gives every variable its type; nothing is asked yet. *)
LEMMA TypeInit == Init => TypeInv
<1> SUFFICES ASSUME Init PROVE TypeInv
  OBVIOUS
<1>1. NoRow \in OverrideRow
  BY DEF NoRow, OverrideRow
<1>2. NotAsked \in [record : RecordIds \cup {NoDecision}, want : Decisions \cup {"none"},
                    at : Nat, row : OverrideRow]
  BY <1>1 DEF NotAsked
<1>3. QED
  BY <1>2, ReviewAssumption, FS_EmptySet
  DEF Init, TypeInv, TypeOK, Asked, HasRead, SnapshotsAreStores, LineIdsUnique

(* Each conjunct of TypeInv is kept by the steps that do not write its variables. *)
LEMMA TypeClock == ASSUME TypeInv, Tick PROVE TypeInv'
  BY DEF Tick, store, runs, requests, TypeInv, TypeOK, Asked, SnapshotsAreStores, LineIdsUnique

(* An upload that keeps stored line ids keeps them unique (insert_charges). *)
LEMMA TypeIngest == ASSUME TypeInv, NEW c \in Arrivals, IngestLine(c) PROVE TypeInv'
  BY FS_AddElement DEF IngestLine, runs, requests, TypeInv, TypeOK, Asked, SnapshotsAreStores, LineIdsUnique

(* A run stores records of the lines it read, and reads what is stored (run_org). *)
LEMMA TypeRun == ASSUME TypeInv, NEW r \in Runs, RunStep(r) PROVE TypeInv'
<1> USE DEF TypeInv, TypeOK, HasRead
<1>1. CASE StartRun(r)
  BY <1>1 DEF StartRun, store, requests, Asked, SnapshotsAreStores
<1>2. CASE ReadCharges(r)
  BY <1>2 DEF ReadCharges, store, requests, Asked, SnapshotsAreStores, LineIdsUnique
<1>3. CASE CommitRun(r)
  <2>1. PICK result \in [Decided(r) -> UNION {EngineRecords(c, snap[r], Day(runAt[r])) : c \in Decided(r)}] :
          /\ \A c \in Decided(r) : result[c] \in EngineRecords(c, snap[r], Day(runAt[r]))
          /\ decisions' =
               [i \in RecordIds |->
                  IF i[1] = r /\ \E c \in Decided(r) : c.line = i[2]
                  THEN result[CHOOSE c \in Decided(r) : c.line = i[2]] ELSE decisions[i]]
    BY <1>3 DEF CommitRun
  <2>2. \A c \in Decided(r) : result[c] \in DecisionRecord
    BY <2>1, EngineRecordsTyped DEF Decided, SnapshotsAreStores
  <2>3. ASSUME NEW i \in RecordIds PROVE decisions'[i] \in DecisionRecord \cup {NoDecision}
    <3>1. CASE i[1] = r /\ \E c \in Decided(r) : c.line = i[2]
      BY <2>1, <2>2, <3>1
    <3>2. CASE ~(i[1] = r /\ \E c \in Decided(r) : c.line = i[2])
      BY <2>1, <3>2
    <3>3. QED BY <3>1, <3>2
  <2>4. decisions' \in [RecordIds -> DecisionRecord \cup {NoDecision}]
    BY <2>1, <2>3
  <2>5. \A i \in RecordIds : decisions[i] \in DecisionRecord => decisions'[i] \in DecisionRecord
    BY <2>1, <2>2
  <2>6. Asked'
    BY <1>3, <2>5 DEF CommitRun, requests, Asked, HasRead
  <2>7. QED
    BY <1>3, <2>4, <2>6 DEF CommitRun, requests, SnapshotsAreStores
<1>4. CASE AbortRun(r)
  BY <1>4 DEF AbortRun, store, requests, Asked, SnapshotsAreStores
<1>5. QED BY <1>1, <1>2, <1>3, <1>4 DEF RunStep

(* What a request writes in its row has the type of a row. *)
LEMMA NextRowTyped ==
  ASSUME NEW q \in Requests, NEW d \in DecisionRecord, NEW rows \in Seq(OverrideRow),
         req[q].want \in Decisions
  PROVE  NextRow(q, d, rows) \in OverrideRow
<1>1. CASE rows = <<>>
  BY <1>1 DEF NextRow, Effective, OverrideRow, DecisionRecord
<1>2. CASE rows # <<>>
  <2>1. Len(rows) \in Nat /\ rows[Len(rows)] \in OverrideRow
    BY <1>2
  <2>2. QED BY <1>2, <2>1 DEF NextRow, Effective, OverrideRow
<1>3. QED BY <1>1, <1>2

(* The end of a transaction frees locks and takes none. *)
LEMMA EndTyped ==
  ASSUME TypeInv, NEW q \in Requests, NEW outcome \in Ended, End(q, outcome)
  PROVE  /\ lock' \in [RecordIds -> Requests \cup {NoRequest}]
         /\ reqPc' \in [Requests -> {"idle"} \cup InTransaction \cup Ended]
BY DEF End, TypeInv, TypeOK

(* Each statement of a request keeps the types (apply_override). *)
LEMMA TypeRequest == ASSUME TypeInv, NEW q \in Requests, RequestStep(q) PROVE TypeInv'
<1> USE DEF TypeInv, TypeOK
<1>1. CASE Submit(q)
  <2>1. PICK i \in RecordIds, want \in Decisions :
          req' = [req EXCEPT ![q] = [record |-> i, want |-> want, at |-> now, row |-> NoRow]]
    BY <1>1 DEF Submit
  <2>2. NoRow \in OverrideRow
    BY DEF NoRow, OverrideRow
  <2>3. QED
    BY <1>1, <2>1, <2>2 DEF Submit, Go, InTransaction, HasRead, store, runs, Asked, SnapshotsAreStores
<1>2. CASE Acquire(q)
  BY <1>2 DEF Acquire, Go, InTransaction, HasRead, store, runs, Asked, SnapshotsAreStores
<1>3. CASE ReadHistory(q)
  <2> DEFINE i == req[q].record
  <2>1. i \in RecordIds /\ req[q].want \in Decisions
    BY <1>3 DEF ReadHistory, Go, Asked
  <2>2. decisions[i] \in DecisionRecord
    BY <1>3, <2>1 DEF ReadHistory, HistoryRefuses, Stored
  <2>3. NextRow(q, decisions[i], overrides[i]) \in OverrideRow
    BY <2>1, <2>2, NextRowTyped
  <2>4. req' = [req EXCEPT ![q].row = NextRow(q, decisions[i], overrides[i])]
    BY <1>3 DEF ReadHistory
  <2>5. req' \in [Requests -> [record : RecordIds \cup {NoDecision}, want : Decisions \cup {"none"},
                              at : Nat, row : OverrideRow]]
    BY <2>3, <2>4
  <2>6. Asked'
    BY <1>3, <2>1, <2>2, <2>4 DEF ReadHistory, Go, HasRead, store, Asked
  <2>7. QED
    BY <1>3, <2>5, <2>6 DEF ReadHistory, Go, InTransaction, HasRead, store, runs, SnapshotsAreStores
<1>4. CASE CheckClaim(q)
  <2> DEFINE i == req[q].record
  <2>1. i \in RecordIds
    BY <1>4 DEF CheckClaim, Go, Asked
  <2>2. Remaining(decisions[i]) \in Int
    BY <1>4 DEF CheckClaim, Go, HasRead, Asked, DecisionRecord, Remaining
  <2> DEFINE row == [req[q].row EXCEPT !.claim = Remaining(decisions[i])]
  <2>3. row \in OverrideRow
    <3>1. req[q].row \in OverrideRow
      OBVIOUS
    <3>2. QED BY <2>2, <3>1 DEF OverrideRow
  <2>4. req' = [req EXCEPT ![q].row = row]
    BY <1>4 DEF CheckClaim
  <2> HIDE DEF row
  <2>5. req' \in [Requests -> [record : RecordIds \cup {NoDecision}, want : Decisions \cup {"none"},
                              at : Nat, row : OverrideRow]]
    BY <2>3, <2>4
  <2>6. Asked'
    BY <1>4, <2>1, <2>4 DEF CheckClaim, Go, HasRead, store, Asked
  <2>7. QED
    BY <1>4, <2>5, <2>6 DEF CheckClaim, Go, InTransaction, HasRead, store, runs, SnapshotsAreStores
<1>5. CASE Insert(q)
  BY <1>5 DEF Insert, Go, InTransaction, HasRead, store, runs, Asked, SnapshotsAreStores
<1>6. CASE Recheck(q)
  BY <1>6 DEF Recheck, Go, InTransaction, HasRead, store, runs, Asked, SnapshotsAreStores
<1>7. CASE CommitOverride(q)
  <2>1. req[q].record \in RecordIds /\ req[q].row \in OverrideRow
    BY <1>7 DEF CommitOverride, Asked
  <2>2. overrides' \in [RecordIds -> Seq(OverrideRow)]
    BY <1>7, <2>1 DEF CommitOverride
  <2>3. QED
    BY <1>7, <2>2, EndTyped DEF CommitOverride, End, Ended, HasRead, runs, Asked, SnapshotsAreStores
<1>8. CASE Refuse(q)
  BY <1>8, EndTyped DEF Refuse, End, Ended, HasRead, store, runs, Asked, SnapshotsAreStores
<1>9. CASE AbortRequest(q)
  BY <1>9, EndTyped DEF AbortRequest, End, Ended, InTransaction, HasRead, store, runs, Asked, SnapshotsAreStores
<1>10. QED
  BY <1>1, <1>2, <1>3, <1>4, <1>5, <1>6, <1>7, <1>8, <1>9 DEF RequestStep, Serve

(* Every step keeps the types. *)
LEMMA TypeStep == TypeInv /\ [Next]_vars => TypeInv'
<1> SUFFICES ASSUME TypeInv, [Next]_vars PROVE TypeInv'
  OBVIOUS
<1>1. CASE Next
  BY <1>1, TypeClock, TypeIngest, TypeRun, TypeRequest DEF Next
<1>2. CASE UNCHANGED vars
  BY <1>2 DEF vars, store, runs, requests, TypeInv, HasRead, TypeOK, Asked, SnapshotsAreStores, LineIdsUnique
<1>3. QED BY <1>1, <1>2

(* Every variable keeps its type, and a sent request names a decision. *)
THEOREM TypeInvariant == Spec => []TypeInv
  BY TypeInit, TypeStep, PTL DEF Spec

(* What the database and the request handlers hold always has its type
   (tables charges, decisions and decision_overrides; apply_override). *)
THEOREM TypeCorrect == Spec => []TypeOK
<1>1. TypeInv => TypeOK BY DEF TypeInv
<1>2. QED BY <1>1, TypeInvariant, PTL

-----------------------------------------------------------------------------
(* Decisions are written once. *)

(* A step that commits no override leaves every history as it is. *)
LEMMA OverridesChange ==
  ASSUME [Next]_vars
  PROVE  UNCHANGED overrides \/ \E q \in Requests : CommitOverride(q)
BY DEF Next, vars, Tick, IngestLine, RunStep, StartRun, ReadCharges, CommitRun, AbortRun, RequestStep,
  Serve, Submit, Acquire, ReadHistory, CheckClaim, Insert, Recheck, Refuse, AbortRequest, store

(* A step that commits no run leaves every decision as it is. *)
LEMMA DecisionsChange ==
  ASSUME [Next]_vars
  PROVE  UNCHANGED decisions \/ \E r \in Runs : CommitRun(r)
BY DEF Next, vars, Tick, IngestLine, RunStep, StartRun, ReadCharges, AbortRun, RequestStep, Serve,
  Submit, Acquire, ReadHistory, CheckClaim, Insert, Recheck, CommitOverride, Refuse, AbortRequest, store

RunsCommitOnce == \A i \in RecordIds : Stored(i) => runPc[i[1]] = "done"

(* No step writes a decision of a run that has committed, so a stored one stays. *)
LEMMA CommitOnceStep ==
  ASSUME TypeInv, RunsCommitOnce, [Next]_vars
  PROVE  /\ RunsCommitOnce'
         /\ \A i \in RecordIds : Stored(i) => decisions'[i] = decisions[i]
<1> USE DEF TypeInv, TypeOK, RunsCommitOnce, Stored
<1> DEFINE Kept == \A i \in RecordIds : Stored(i) => decisions'[i] = decisions[i]
<1>1. ASSUME NEW r \in Runs, RunStep(r) PROVE RunsCommitOnce' /\ Kept
  <2>1. CASE StartRun(r) BY <2>1 DEF StartRun, store, RecordIds
  <2>2. CASE ReadCharges(r) BY <2>2 DEF ReadCharges, store, RecordIds
  <2>3. CASE AbortRun(r) BY <2>3 DEF AbortRun, store, RecordIds
  <2>4. CASE CommitRun(r)
    <3>1. \A i \in RecordIds : i[1] # r => decisions'[i] = decisions[i]
      BY <2>4 DEF CommitRun
    <3>2. \A i \in RecordIds : i[1] = r => ~Stored(i)
      BY <2>4 DEF CommitRun
    <3>3. QED BY <2>4, <3>1, <3>2 DEF CommitRun, RecordIds
  <2>5. QED BY <1>1, <2>1, <2>2, <2>3, <2>4 DEF RunStep
<1>2. ASSUME NEW q \in Requests, RequestStep(q) PROVE UNCHANGED <<decisions, runPc>>
  BY <1>2 DEF RequestStep, Serve, Submit, Acquire, ReadHistory, CheckClaim, Insert, Recheck,
    CommitOverride, Refuse, AbortRequest, store, runs
<1>3. CASE UNCHANGED vars BY <1>3 DEF vars, store, runs
<1>4. CASE Tick BY <1>4 DEF Tick, store, runs
<1>5. ASSUME NEW c \in Arrivals, IngestLine(c) PROVE RunsCommitOnce' /\ Kept
  BY <1>5 DEF IngestLine, runs
<1>6. QED BY <1>1, <1>2, <1>3, <1>4, <1>5 DEF Next

(* A stored decision belongs to a run that has committed, in every state (save_decisions,
   one transaction per run). *)
THEOREM CommitOnceInvariant == Spec => []RunsCommitOnce
<1>1. Init => RunsCommitOnce
  BY DEF Init, RunsCommitOnce, Stored
<1>2. TypeInv /\ RunsCommitOnce /\ [Next]_vars => RunsCommitOnce'
  BY CommitOnceStep
<1>3. QED BY <1>1, <1>2, TypeInvariant, PTL DEF Spec

-----------------------------------------------------------------------------
(* The lock: a request that has it and is not through is the only one. *)

LockHeld ==
  \A q \in Requests :
    reqPc[q] \in {"locked"} \cup HasRead => lock[req[q].record] = q

(* The lock is given only when free and kept until the transaction ends. *)
LEMMA LockStep ==
  ASSUME TypeInv, LockHeld, [Next]_vars
  PROVE  LockHeld'
<1> USE DEF TypeInv, TypeOK, LockHeld, HasRead
<1>1. ASSUME NEW q \in Requests, RequestStep(q) PROVE LockHeld'
  <2>1. CASE Submit(q) BY <2>1 DEF Submit, Go
  <2>2. CASE Acquire(q)
    <3>1. req[q].record \in RecordIds BY <2>2 DEF Acquire, Go, Asked
    <3>2. \A p \in Requests \ {q} : reqPc[p] \in {"locked"} \cup HasRead => req[p].record # req[q].record
      BY <2>2, ReviewAssumption DEF Acquire
    <3>3. ASSUME NEW p \in Requests, reqPc'[p] \in {"locked"} \cup HasRead
          PROVE  lock'[req'[p].record] = p
      <4>1. CASE p = q BY <2>2, <3>1, <4>1 DEF Acquire
      <4>2. CASE p # q
        <5>1. reqPc[p] \in {"locked"} \cup HasRead BY <2>2, <3>3, <4>2 DEF Acquire, Go
        <5>2. QED BY <2>2, <3>2, <4>2, <5>1 DEF Acquire, Asked
      <4>3. QED BY <4>1, <4>2
    <3>4. QED BY <3>3
  <2>3. CASE ReadHistory(q) BY <2>3 DEF ReadHistory, Go
  <2>4. CASE CheckClaim(q) BY <2>4 DEF CheckClaim, Go
  <2>5. CASE Insert(q) BY <2>5 DEF Insert, Go
  <2>6. CASE Recheck(q) BY <2>6 DEF Recheck, Go
  <2>7. ASSUME NEW outcome \in Ended, End(q, outcome), req' = req PROVE LockHeld'
    <3>1. ASSUME NEW p \in Requests, reqPc'[p] \in {"locked"} \cup HasRead
          PROVE  lock'[req'[p].record] = p
      <4>1. p # q /\ reqPc'[p] = reqPc[p] BY <2>7, <3>1 DEF End, Ended
      <4>2. lock[req[p].record] = p /\ req[p].record \in RecordIds BY <3>1, <4>1 DEF Asked
      <4>3. QED BY <2>7, <4>1, <4>2 DEF End
    <3>2. QED BY <3>1
  <2>8. CASE CommitOverride(q) BY <2>7, <2>8 DEF CommitOverride, Ended
  <2>9. CASE Refuse(q) BY <2>7, <2>9 DEF Refuse, Ended
  <2>10. CASE AbortRequest(q) BY <2>7, <2>10 DEF AbortRequest, Ended
  <2>11. QED
    BY <1>1, <2>1, <2>2, <2>3, <2>4, <2>5, <2>6, <2>8, <2>9, <2>10 DEF RequestStep, Serve
<1>2. ASSUME NEW r \in Runs, RunStep(r) PROVE LockHeld'
  BY <1>2 DEF RunStep, StartRun, ReadCharges, CommitRun, AbortRun, requests
<1>3. CASE UNCHANGED vars BY <1>3 DEF vars, requests
<1>4. CASE Tick BY <1>4 DEF Tick, requests
<1>5. ASSUME NEW c \in Arrivals, IngestLine(c) PROVE LockHeld'
  BY <1>5 DEF IngestLine, requests
<1>6. QED BY <1>1, <1>2, <1>3, <1>4, <1>5 DEF Next

(* Whoever is past the lock holds it, so at most one request per decision is
   between reading the history and writing to it (apply_override's
   pg_advisory_xact_lock). *)
THEOREM LockInvariant == Spec => []LockHeld
<1>1. Init => LockHeld
  BY DEF Init, LockHeld, HasRead
<1>2. QED BY <1>1, LockStep, TypeInvariant, PTL DEF Spec

-----------------------------------------------------------------------------
(* The histories. *)

(* What a request has computed still continues the history it read; from the
   check of the claim on, a CLAIM asks for what is left of a claimable line. *)
RowFits(q) ==
  LET d == decisions[req[q].record]
      rows == overrides[req[q].record]
      row == req[q].row
      claims == reqPc[q] # "claiming" /\ row.new = "CLAIM"
  IN  /\ Stored(req[q].record)
      /\ row.sequence = Len(rows) + 1 /\ row.engine = d
      /\ row.previous = IF rows = <<>> THEN NoRequest ELSE rows[Len(rows)].by
      /\ row.original = Effective(d, rows) /\ row.new # row.original
      /\ row.claim = IF claims THEN Remaining(d) ELSE 0
      /\ claims => ~ClaimRefused(d)
      /\ reqPc[q] = "claiming" => row.new = "CLAIM"

RowsFit == \A q \in Requests : reqPc[q] \in HasRead => RowFits(q)

ClaimsAllowed ==
  \A i \in RecordIds : \A k \in DOMAIN overrides[i] :
    overrides[i][k].new = "CLAIM" => ~ClaimRefused(decisions[i])

HistInv == RowsFit /\ HistoriesVerify /\ ClaimsAllowed

(* A history that verifies goes on verifying with a row that continues it. *)
LEMMA AppendVerifies ==
  ASSUME NEW d \in DecisionRecord, NEW rows \in Seq(OverrideRow), NEW row \in OverrideRow,
         HistoryOf(d, rows),
         row.engine = d, row.sequence = Len(rows) + 1,
         row.previous = IF rows = <<>> THEN NoRequest ELSE rows[Len(rows)].by,
         row.original = Effective(d, rows), row.new # row.original,
         row.claim = IF row.new = "CLAIM" THEN Remaining(d) ELSE 0
  PROVE  HistoryOf(d, Append(rows, row))
<1> DEFINE more == Append(rows, row)
<1>1. more \in Seq(OverrideRow) /\ Len(more) = Len(rows) + 1 /\ Len(rows) \in Nat
        /\ more[Len(rows) + 1] = row /\ \A k \in 1..Len(rows) : more[k] = rows[k]
  OBVIOUS
<1>2. DOMAIN rows = 1..Len(rows) /\ DOMAIN more = 1..(Len(rows) + 1)
  BY <1>1
<1> HIDE DEF more
<1>3. ASSUME NEW k \in DOMAIN more
      PROVE  /\ more[k].engine = d
             /\ more[k].previous = IF k = 1 THEN NoRequest ELSE more[k - 1].by
             /\ more[k].original = IF k = 1 THEN d.decision ELSE more[k - 1].new
             /\ IF more[k].new = "CLAIM" THEN more[k].claim = Remaining(d) ELSE more[k].claim = 0
             /\ more[k].sequence = k /\ more[k].new # more[k].original
  <2>1. CASE k = Len(rows) + 1
    <3>1. more[k] = row BY <1>1, <2>1
    <3>2. CASE rows = <<>> BY <1>1, <2>1, <3>1, <3>2 DEF Effective
    <3>3. CASE rows # <<>>
      <4>1. k # 1 /\ k - 1 = Len(rows) /\ more[k - 1] = rows[Len(rows)] BY <1>1, <2>1, <3>3
      <4>2. QED BY <2>1, <3>1, <3>3, <4>1 DEF Effective
    <3>4. QED BY <3>2, <3>3
  <2>2. CASE k # Len(rows) + 1
    <3>1. k \in 1..Len(rows) BY <1>1, <1>2, <2>2
    <3>2. more[k] = rows[k] /\ (k # 1 => more[k - 1] = rows[k - 1]) BY <1>1, <3>1
    <3>3. QED BY <1>2, <3>1, <3>2 DEF HistoryOf, ChainVerifies
  <2>3. QED BY <2>1, <2>2
<1>4. QED BY <1>3 DEF HistoryOf, ChainVerifies, more

(* Runs only add decisions, and leave histories and requests alone. *)
LEMMA HistRun ==
  ASSUME TypeInv, HistInv,
         \A i \in RecordIds : Stored(i) => decisions'[i] = decisions[i],
         UNCHANGED <<overrides, reqPc, req>>
  PROVE  HistInv'
<1> USE DEF TypeInv, TypeOK
<1>1. RowsFit'
  <2>1. ASSUME NEW q \in Requests, reqPc[q] \in HasRead PROVE RowFits(q)'
    <3>1. RowFits(q) /\ req[q].record \in RecordIds
      BY <2>1 DEF HistInv, RowsFit, Asked, HasRead
    <3>2. decisions'[req[q].record] = decisions[req[q].record]
      BY <3>1 DEF RowFits
    <3>3. QED BY <3>1, <3>2 DEF RowFits, Stored, Effective, Remaining, ClaimRefused
  <2>2. QED BY <2>1 DEF RowsFit
<1>2. HistoriesVerify'
  <2>1. ASSUME NEW i \in RecordIds
        PROVE  IF Stored(i)' THEN HistoryOf(decisions[i], overrides[i])' ELSE overrides'[i] = <<>>
    <3>1. CASE Stored(i)
      BY <3>1 DEF HistInv, HistoriesVerify, Stored, HistoryOf, ChainVerifies, Remaining
    <3>2. CASE ~Stored(i)
      <4>1. overrides'[i] = <<>> BY <3>2 DEF HistInv, HistoriesVerify
      <4>2. QED BY <4>1 DEF HistoryOf, ChainVerifies
    <3>3. QED BY <3>1, <3>2
  <2>2. QED BY <2>1 DEF HistoriesVerify
<1>3. ClaimsAllowed'
  <2>1. ASSUME NEW i \in RecordIds, NEW k \in DOMAIN overrides[i], overrides[i][k].new = "CLAIM"
        PROVE  ~ClaimRefused(decisions'[i])
    <3>1. Stored(i)
      <4>1. SUFFICES ASSUME ~Stored(i) PROVE FALSE OBVIOUS
      <4>2. overrides[i] = <<>> BY <4>1 DEF HistInv, HistoriesVerify
      <4>3. QED BY <2>1, <4>2
    <3>2. QED BY <2>1, <3>1 DEF HistInv, ClaimsAllowed
  <2>2. QED BY <2>1 DEF ClaimsAllowed
<1>4. QED BY <1>1, <1>2, <1>3 DEF HistInv

(* A step of a request that writes no history keeps the invariant if its own
   row still fits. *)
LEMMA HistOwnRow ==
  ASSUME TypeInv, HistInv, NEW q \in Requests,
         UNCHANGED <<decisions, overrides>>,
         \A p \in Requests \ {q} : reqPc'[p] = reqPc[p] /\ req'[p] = req[p],
         reqPc'[q] \in HasRead => RowFits(q)'
  PROVE  HistInv'
<1>1. ASSUME NEW p \in Requests \ {q}, reqPc'[p] \in HasRead PROVE RowFits(p)'
  <2>1. RowFits(p) BY <1>1 DEF HistInv, RowsFit
  <2>2. QED BY <1>1, <2>1 DEF RowFits, Stored, Effective, Remaining, ClaimRefused
<1>2. RowsFit' BY <1>1 DEF RowsFit
<1>3. HistoriesVerify'
  BY DEF HistInv, HistoriesVerify, Stored, HistoryOf, ChainVerifies, Remaining
<1>4. ClaimsAllowed' BY DEF HistInv, ClaimsAllowed
<1>5. QED BY <1>2, <1>3, <1>4 DEF HistInv

(* A commit appends a row that continues the history, and no other request has read
   this history: they would need the same lock. *)
LEMMA HistCommit ==
  ASSUME TypeInv, LockHeld, HistInv, NEW q \in Requests, CommitOverride(q)
  PROVE  HistInv'
<1> USE DEF TypeInv, TypeOK
<1> DEFINE i == req[q].record
           d == decisions[i]
           row == req[q].row
<1>1. reqPc[q] = "verified" /\ UNCHANGED <<decisions, req>>
        /\ overrides' = [overrides EXCEPT ![i] = Append(@, row)]
  BY DEF CommitOverride
<1>2. i \in RecordIds /\ RowFits(q) /\ d \in DecisionRecord /\ row \in OverrideRow
        /\ overrides[i] \in Seq(OverrideRow)
  BY <1>1 DEF HistInv, RowsFit, Asked, HasRead
<1>3. overrides'[i] = Append(overrides[i], row)
  BY <1>1, <1>2
<1>4. HistoriesVerify'
  <2>1. HistoryOf(d, Append(overrides[i], row))
    <3>1. HistoryOf(d, overrides[i]) BY <1>2 DEF HistInv, HistoriesVerify, RowFits
    <3>2. QED BY <1>1, <1>2, <3>1, AppendVerifies DEF RowFits
  <2>2. ASSUME NEW j \in RecordIds
        PROVE  IF Stored(j)' THEN HistoryOf(decisions[j], overrides[j])' ELSE overrides'[j] = <<>>
    <3>1. CASE j = i
      <4>1. decisions'[j] = d /\ overrides'[j] = Append(overrides[i], row)
        BY <1>1, <1>3, <3>1
      <4>2. HistoryOf(decisions'[j], overrides'[j])
        BY <2>1, <4>1
      <4>3. Stored(j)'
        BY <1>1, <1>2, <3>1 DEF RowFits, Stored
      <4> QED
        BY <4>2, <4>3 DEF HistoryOf, ChainVerifies
    <3>2. CASE j # i
      <4>1. overrides'[j] = overrides[j] /\ decisions'[j] = decisions[j] BY <1>1, <3>2
      <4>2. QED BY <4>1 DEF HistInv, HistoriesVerify, Stored, HistoryOf, ChainVerifies, Remaining
    <3>3. QED BY <3>1, <3>2
  <2>3. QED BY <2>2 DEF HistoriesVerify
<1>5. ClaimsAllowed'
  <2>1. ASSUME NEW j \in RecordIds, NEW k \in DOMAIN overrides'[j], overrides'[j][k].new = "CLAIM"
        PROVE  ~ClaimRefused(decisions'[j])
    <3>1. CASE j # i
      BY <1>1, <2>1, <3>1 DEF HistInv, ClaimsAllowed
    <3>2. CASE j = i /\ k \in DOMAIN overrides[i]
      <4>1. overrides'[i][k] = overrides[i][k] BY <1>2, <1>3, <3>2
      <4>2. QED BY <1>1, <1>2, <2>1, <3>2, <4>1 DEF HistInv, ClaimsAllowed
    <3>3. CASE j = i /\ k \notin DOMAIN overrides[i]
      <4>1. overrides'[i][k] = row BY <1>2, <1>3, <2>1, <3>3
      <4>2. QED BY <1>1, <1>2, <2>1, <3>3, <4>1 DEF RowFits
    <3>4. QED BY <3>1, <3>2, <3>3
  <2>2. QED BY <2>1 DEF ClaimsAllowed
<1>6. RowsFit'
  <2>1. ASSUME NEW p \in Requests, reqPc'[p] \in HasRead PROVE RowFits(p)'
    <3>1. p # q /\ reqPc'[p] = reqPc[p]
      BY <2>1 DEF CommitOverride, End, HasRead
    <3>2. RowFits(p) /\ req[p].record \in RecordIds
      BY <2>1, <3>1 DEF HistInv, RowsFit, Asked, HasRead
    <3>3. req[p].record # i
      BY <1>1, <2>1, <3>1 DEF LockHeld, HasRead
    <3>4. overrides'[req[p].record] = overrides[req[p].record]
      BY <1>1, <3>2, <3>3
    <3>5. QED BY <1>1, <3>1, <3>2, <3>4 DEF RowFits, Stored, Effective, Remaining, ClaimRefused
  <2>2. QED BY <2>1 DEF RowsFit
<1>7. QED BY <1>4, <1>5, <1>6 DEF HistInv

(* Every statement of a request keeps its row a continuation of the stored history. *)
LEMMA HistRequest ==
  ASSUME TypeInv, LockHeld, HistInv, NEW q \in Requests, RequestStep(q)
  PROVE  HistInv'
<1> USE DEF TypeInv, TypeOK
<1> DEFINE i == req[q].record
           d == decisions[i]
<1>1. CASE Submit(q)
  BY <1>1, HistOwnRow DEF Submit, Go, HasRead, store
<1>2. CASE Acquire(q)
  BY <1>2, HistOwnRow DEF Acquire, Go, HasRead, store
<1>3. CASE ReadHistory(q)
  <2>1. i \in RecordIds /\ req[q].want \in Decisions /\ Stored(i)
          /\ req[q].want # Effective(d, overrides[i])
    BY <1>3 DEF ReadHistory, Go, Asked, HistoryRefuses
  <2>2. req' = [req EXCEPT ![q].row = NextRow(q, d, overrides[i])]
          /\ UNCHANGED <<decisions, overrides>>
    BY <1>3 DEF ReadHistory, store
  <2>3. reqPc'[q] = IF req[q].want = "CLAIM" THEN "claiming" ELSE "writing"
    BY <1>3 DEF ReadHistory, Go
  <2>4. req'[q].record = i /\ req'[q].row = NextRow(q, d, overrides[i])
    BY <2>2
  <2>5. RowFits(q)'
    BY <2>1, <2>2, <2>3, <2>4 DEF RowFits, NextRow, Stored, Effective
  <2>6. QED BY <1>3, <2>2, <2>5, HistOwnRow DEF ReadHistory, Go
<1>4. CASE CheckClaim(q)
  <2>1. i \in RecordIds /\ RowFits(q) /\ reqPc[q] = "claiming" /\ reqPc'[q] = "writing"
    BY <1>4 DEF CheckClaim, Go, Asked, HistInv, RowsFit, HasRead
  <2>2. ~ClaimRefused(d) /\ UNCHANGED <<decisions, overrides>>
    BY <1>4 DEF CheckClaim, ClaimRefuses, ClaimRefusedNow, store
  <2>3. req' = [req EXCEPT ![q].row.claim = Remaining(d)]
    BY <1>4 DEF CheckClaim
  <2>4. req'[q].record = i /\ req'[q].row = [req[q].row EXCEPT !.claim = Remaining(d)]
    BY <2>3
  <2>5. req[q].row \in OverrideRow
    OBVIOUS
  <2>6. RowFits(q)'
    BY <2>1, <2>2, <2>4, <2>5
    DEF RowFits, OverrideRow, Stored, Effective, Remaining, ClaimRefused
  <2>7. QED BY <1>4, <2>2, <2>6, HistOwnRow DEF CheckClaim, Go
<1>5. CASE Insert(q) \/ Recheck(q)
  <2>1. RowFits(q) /\ reqPc[q] # "claiming" /\ reqPc'[q] # "claiming"
          /\ UNCHANGED <<decisions, overrides, req>>
    BY <1>5 DEF Insert, Recheck, Go, HistInv, RowsFit, HasRead, store
  <2>2. RowFits(q)'
    BY <2>1 DEF RowFits, Stored, Effective, Remaining, ClaimRefused
  <2>3. QED BY <1>5, <2>1, <2>2, HistOwnRow DEF Insert, Recheck, Go
<1>6. CASE CommitOverride(q)
  BY <1>6, HistCommit
<1>7. CASE Refuse(q)
  BY <1>7, HistOwnRow DEF Refuse, End, HasRead, store
<1>8. CASE AbortRequest(q)
  BY <1>8, HistOwnRow DEF AbortRequest, End, HasRead, store
<1>9. QED
  BY <1>1, <1>2, <1>3, <1>4, <1>5, <1>6, <1>7, <1>8 DEF RequestStep, Serve

(* Every step keeps the histories and what requests computed from them. *)
LEMMA HistStep ==
  ASSUME TypeInv, RunsCommitOnce, LockHeld, HistInv, [Next]_vars
  PROVE  HistInv'
<1>1. \A i \in RecordIds : Stored(i) => decisions'[i] = decisions[i]
  BY CommitOnceStep
<1>2. ASSUME UNCHANGED <<overrides, reqPc, req>> PROVE HistInv'
  BY <1>1, <1>2, HistRun
<1>3. CASE UNCHANGED vars BY <1>2, <1>3 DEF vars, store, requests
<1>4. CASE Tick BY <1>2, <1>4 DEF Tick, store, requests
<1>5. ASSUME NEW c \in Arrivals, IngestLine(c) PROVE HistInv'
  BY <1>2, <1>5 DEF IngestLine, requests
<1>6. ASSUME NEW r \in Runs, RunStep(r) PROVE HistInv'
  BY <1>2, <1>6 DEF RunStep, StartRun, ReadCharges, CommitRun, AbortRun, store, requests
<1>7. ASSUME NEW q \in Requests, RequestStep(q) PROVE HistInv'
  BY <1>7, HistRequest
<1>8. QED BY <1>3, <1>4, <1>5, <1>6, <1>7 DEF Next

(* In every state each history verifies, each pending row continues the history it was
   computed from, and stored CLAIMs were allowed (apply_override). *)
THEOREM HistInvariant == Spec => []HistInv
<1>1. Init => HistInv
  BY DEF Init, HistInv, RowsFit, HasRead, HistoriesVerify, HistoryOf, ChainVerifies, Stored,
         ClaimsAllowed
<1>2. QED BY <1>1, HistStep, TypeInvariant, CommitOnceInvariant, LockInvariant, PTL DEF Spec

(* Whatever runs, uploads and reviewers do, every stored history verifies, is
   numbered without gaps and changes the decision at every row (check_chain,
   apply_override, the constraints of decision_overrides). *)
THEOREM HistoriesAlwaysVerify == Spec => []HistoriesVerify
<1>1. HistInv => HistoriesVerify BY DEF HistInv
<1>2. QED BY <1>1, HistInvariant, PTL

(* No two reviewers ever both override from the same decision: what a request
   read is the whole history until it writes (the advisory lock of
   apply_override). *)
THEOREM HistoryAlwaysCurrent == Spec => []HistoryStillCurrent
<1>1. HistInv => HistoryStillCurrent
  BY DEF HistInv, RowsFit, RowFits, HistoryStillCurrent
<1>2. QED BY <1>1, HistInvariant, PTL

(* Amounts of the stored decisions are those of their lines. *)
ChargedIsTheAmount == \A i \in RecordIds : Stored(i) => decisions[i].charged = decisions[i].charge.amount

(* A run stores of each line the amount of that line. *)
LEMMA ChargedStep ==
  ASSUME TypeInv, RunsCommitOnce, ChargedIsTheAmount, [Next]_vars
  PROVE  ChargedIsTheAmount'
<1> USE DEF TypeInv, TypeOK
<1>1. CASE UNCHANGED decisions
  BY <1>1 DEF ChargedIsTheAmount, Stored
<1>2. ASSUME NEW r \in Runs, CommitRun(r) PROVE ChargedIsTheAmount'
  <2>1. PICK result \in [Decided(r) -> UNION {EngineRecords(c, snap[r], Day(runAt[r])) : c \in Decided(r)}] :
          /\ \A c \in Decided(r) : result[c] \in EngineRecords(c, snap[r], Day(runAt[r]))
          /\ decisions' =
               [i \in RecordIds |->
                  IF i[1] = r /\ \E c \in Decided(r) : c.line = i[2]
                  THEN result[CHOOSE c \in Decided(r) : c.line = i[2]] ELSE decisions[i]]
    BY <1>2 DEF CommitRun
  <2>2. ASSUME NEW c \in Decided(r)
        PROVE  result[c].charge = c /\ result[c].charged = c.amount
    <3>1. c \in Arrivals /\ snap[r] \in SUBSET Arrivals
          /\ IsFiniteSet(snap[r]) /\ LineIdsUnique(snap[r])
      BY DEF Decided, SnapshotsAreStores
    <3>2. result[c] \in EngineRecords(c, snap[r], Day(runAt[r]))
      BY <2>1
    <3>3. QED BY <3>1, <3>2, EngineRecordsTyped
  <2>3. ASSUME NEW i \in RecordIds, Stored(i)'
        PROVE  decisions'[i].charged = decisions'[i].charge.amount
    <3>1. CASE i[1] = r /\ \E c \in Decided(r) : c.line = i[2]
      <4> DEFINE c == CHOOSE c \in Decided(r) : c.line = i[2]
      <4>1. c \in Decided(r) /\ decisions'[i] = result[c] BY <2>1, <3>1
      <4>2. QED BY <2>2, <4>1
    <3>2. CASE ~(i[1] = r /\ \E c \in Decided(r) : c.line = i[2])
      <4>1. decisions'[i] = decisions[i] BY <2>1, <3>2
      <4>2. QED BY <2>3, <4>1 DEF ChargedIsTheAmount, Stored
    <3>3. QED BY <3>1, <3>2
  <2>4. QED BY <2>3 DEF ChargedIsTheAmount
<1>3. QED BY <1>1, <1>2, DecisionsChange

(* A stored decision charges what its line charges, in every state (decide). *)
THEOREM ChargedInvariant == Spec => []ChargedIsTheAmount
<1>1. Init => ChargedIsTheAmount
  BY DEF Init, ChargedIsTheAmount, Stored
<1>2. QED BY <1>1, ChargedStep, TypeInvariant, CommitOnceInvariant, PTL DEF Spec

(* A human CLAIM always asks for exactly what is left of a charged fee, on a
   decision that settled that it may be asked for (claim_refusal, rule 9). *)
THEOREM HumanClaimsAreAlwaysOwed == Spec => []HumanClaimsAreOwed
<1>1. ASSUME TypeInv, HistInv, ChargedIsTheAmount PROVE HumanClaimsAreOwed
  <2>1. ASSUME NEW i \in RecordIds, NEW k \in DOMAIN overrides[i], overrides[i][k].new = "CLAIM"
        PROVE  LET d == decisions[i]
                   row == overrides[i][k]
               IN  /\ d.status = "final" /\ ~d.partial /\ d.window # "FAIL" /\ d.settled = "PASS"
                   /\ IsChargeableFee(d.charge)
                   /\ row.claim > 0 /\ row.claim + d.reimbursed = d.charge.amount
    <3> DEFINE d == decisions[i]
               row == overrides[i][k]
    <3>1. Stored(i)
      <4>1. SUFFICES ASSUME ~Stored(i) PROVE FALSE OBVIOUS
      <4>2. overrides[i] = <<>> BY <1>1, <4>1 DEF HistInv, HistoriesVerify
      <4>3. QED BY <2>1, <4>2
    <3>2. d \in DecisionRecord /\ d.charged = d.charge.amount
      BY <1>1, <3>1 DEF TypeInv, TypeOK, Stored, ChargedIsTheAmount
    <3>3. ~ClaimRefused(d)
      BY <1>1, <2>1 DEF HistInv, ClaimsAllowed
    <3>4. row.claim = Remaining(d)
      BY <1>1, <2>1, <3>1 DEF HistInv, HistoriesVerify, HistoryOf, ChainVerifies
    <3> HIDE DEF d, row
    <3>5. d.charged \in Int /\ d.reimbursed \in Nat /\ d.status \in {"final", "pending"}
      BY <3>2 DEF DecisionRecord
    <3>6. row.claim > 0 /\ row.claim + d.reimbursed = d.charged /\ d.charged > 0
      BY <3>3, <3>4, <3>5 DEF ClaimRefused, Remaining
    <3>7. d.status = "final" /\ ~d.partial /\ d.window # "FAIL" /\ d.settled = "PASS"
            /\ IsFee(d.charge) /\ ~IsFeeRefundLine(d.charge)
      BY <3>3, <3>5 DEF ClaimRefused
    <3>8. QED BY <3>2, <3>6, <3>7 DEF IsChargeableFee, d, row
  <2>2. QED BY <2>1 DEF HumanClaimsAreOwed
<1>2. QED BY <1>1, TypeInvariant, HistInvariant, ChargedInvariant, PTL

-----------------------------------------------------------------------------
(* Append-only. *)

(* No run, upload or reviewer ever changes a stored decision, drops a charge or
   rewrites a row of a history (the append-only tables; CommitRun writes records
   of its own run alone). *)
THEOREM StoreAlwaysGrows == Spec => StoreOnlyGrows
<1>1. ASSUME TypeInv, RunsCommitOnce, [Next]_vars
      PROVE  /\ charges \subseteq charges'
             /\ \A i \in RecordIds :
                  /\ Stored(i) => decisions'[i] = decisions[i]
                  /\ Len(overrides'[i]) >= Len(overrides[i])
                  /\ \A k \in DOMAIN overrides[i] : overrides'[i][k] = overrides[i][k]
  <2>1. charges \subseteq charges'
    BY <1>1 DEF Next, vars, Tick, IngestLine, RunStep, StartRun, ReadCharges, CommitRun, AbortRun,
      RequestStep, Serve, Submit, Acquire, ReadHistory, CheckClaim, Insert, Recheck, CommitOverride,
      Refuse, AbortRequest, store
  <2>2. \A i \in RecordIds : Stored(i) => decisions'[i] = decisions[i]
    BY <1>1, CommitOnceStep
  <2>3. ASSUME NEW i \in RecordIds
        PROVE  /\ Len(overrides'[i]) >= Len(overrides[i])
               /\ \A k \in DOMAIN overrides[i] : overrides'[i][k] = overrides[i][k]
    <3>1. overrides[i] \in Seq(OverrideRow) BY <1>1 DEF TypeInv, TypeOK
    <3>2. CASE UNCHANGED overrides BY <3>1, <3>2
    <3>3. ASSUME NEW q \in Requests, CommitOverride(q)
          PROVE  overrides'[i] = overrides[i]
                 \/ \E row \in OverrideRow : overrides'[i] = Append(overrides[i], row)
      BY <1>1, <3>3 DEF CommitOverride, TypeInv, TypeOK
    <3>4. CASE \E row \in OverrideRow : overrides'[i] = Append(overrides[i], row)
      BY <3>1, <3>4
    <3>5. CASE overrides'[i] = overrides[i] BY <3>1, <3>5
    <3>6. QED BY <1>1, <3>2, <3>3, <3>4, <3>5, OverridesChange
  <2>4. QED BY <2>1, <2>2, <2>3
<1>2. QED BY <1>1, TypeInvariant, CommitOnceInvariant, PTL DEF Spec, StoreOnlyGrows

(* A decision that a newer one supersedes stays superseded: what is stored stays
   stored, and the run that stored it has its decided_at for good. *)
LEMMA SupersededStays ==
  ASSUME TypeInv, RunsCommitOnce, [Next]_vars, NEW i \in RecordIds, Superseded(i)
  PROVE  Superseded(i)'
<1>1. PICK j \in RecordIds : j[2] = i[2] /\ Stored(j) /\ DecidedLater(j, i)
  BY DEF Superseded
<1>2. Stored(i)' /\ Stored(j)'
  BY <1>1, CommitOnceStep DEF Superseded, Stored
<1>3. ASSUME NEW r \in Runs, runPc[r] = "done" PROVE runAt'[r] = runAt[r]
  BY <1>3 DEF TypeInv, TypeOK, Next, vars, Tick, IngestLine, RunStep, StartRun, ReadCharges, CommitRun,
    AbortRun, RequestStep, Serve, Submit, Acquire, ReadHistory, CheckClaim, Insert, Recheck,
    CommitOverride, Refuse, AbortRequest, store, runs
<1>4. i[1] \in Runs /\ j[1] \in Runs BY DEF RecordIds
<1>5. runAt'[i[1]] = runAt[i[1]] /\ runAt'[j[1]] = runAt[j[1]]
  BY <1>1, <1>3, <1>4 DEF RunsCommitOnce, Superseded
<1>6. DecidedLater(j, i)' BY <1>1, <1>5 DEF DecidedLater
<1>7. QED BY <1>1, <1>2, <1>6 DEF Superseded

(* Once a newer run of the line is stored and nobody has passed the last check,
   an older decision is never overridden again, even by a request that was
   under way (apply_override's second look at the newest decision). *)
THEOREM SupersededIsFrozen == Spec => SupersededStaysFrozen
<1>1. ASSUME TypeInv, RunsCommitOnce, [Next]_vars, NEW i \in RecordIds, Frozen(i)
      PROVE  Frozen(i)' /\ overrides'[i] = overrides[i]
  <2>1. Superseded(i)' BY <1>1, SupersededStays DEF Frozen
  <2>2. overrides'[i] = overrides[i]
    <3>1. ASSUME NEW q \in Requests, CommitOverride(q) PROVE overrides'[i] = overrides[i]
      BY <1>1, <3>1 DEF CommitOverride, Frozen, TypeInv, TypeOK
    <3>2. QED BY <1>1, <3>1, OverridesChange
  <2>3. ASSUME NEW q \in Requests, req'[q].record = i PROVE reqPc'[q] # "verified"
    <3>1. CASE reqPc'[q] = reqPc[q] /\ req'[q] = req[q]
      BY <1>1, <2>3, <3>1 DEF Frozen
    <3>2. CASE RequestStep(q)
      BY <1>1, <2>3, <3>2 DEF Frozen, TypeInv, TypeOK, RequestStep, Serve, Submit, Acquire, ReadHistory,
        CheckClaim, Insert, Recheck, CommitOverride, Refuse, AbortRequest, Go, End
    <3>3. ASSUME NEW p \in Requests \ {q}, RequestStep(p) PROVE reqPc'[q] = reqPc[q] /\ req'[q] = req[q]
      BY <1>1, <3>3 DEF TypeInv, TypeOK, RequestStep, Serve, Submit, Acquire, ReadHistory,
        CheckClaim, Insert, Recheck, CommitOverride, Refuse, AbortRequest, Go, End
    <3>4. UNCHANGED <<reqPc, req>> \/ \E p \in Requests : RequestStep(p)
      BY <1>1 DEF Next, vars, Tick, IngestLine, RunStep, StartRun, ReadCharges, CommitRun, AbortRun,
        requests
    <3>5. QED BY <3>1, <3>2, <3>3, <3>4
  <2>4. QED BY <2>1, <2>2, <2>3 DEF Frozen
<1>2. TypeInv /\ RunsCommitOnce /\ [Next]_vars =>
        [\A i \in RecordIds : Frozen(i) => Frozen(i)' /\ overrides'[i] = overrides[i]]_vars
  BY <1>1
<1>3. QED BY <1>2, TypeInvariant, CommitOnceInvariant, PTL DEF Spec, SupersededStaysFrozen

-----------------------------------------------------------------------------
(* Refinement. *)

(* Every override that is computed or stored is to one of the three decisions. *)
OverridesDecide ==
  /\ \A q \in Requests : reqPc[q] \in HasRead => req[q].row.new \in Decisions
  /\ \A i \in RecordIds : \A k \in DOMAIN overrides[i] : overrides[i][k].new \in Decisions

(* An entry of a sequence with one appended is that one or was there before. *)
LEMMA AppendedRow ==
  ASSUME NEW S, NEW rows \in Seq(S), NEW row \in S, NEW k \in DOMAIN Append(rows, row)
  PROVE  Append(rows, row)[k] = row \/ (k \in DOMAIN rows /\ Append(rows, row)[k] = rows[k])
<1> DEFINE more == Append(rows, row)
<1>1. more \in Seq(S) /\ Len(more) = Len(rows) + 1 /\ more[Len(rows) + 1] = row
        /\ \A m \in 1..Len(rows) : more[m] = rows[m]
  BY AppendProperties
<1>2. Len(rows) \in Nat /\ DOMAIN rows = 1..Len(rows) /\ DOMAIN more = 1..Len(more)
  BY <1>1, LenProperties
<1> HIDE DEF more
<1>3. k \in 1..(Len(rows) + 1) BY <1>1, <1>2 DEF more
<1>4. more[k] = row \/ (k \in DOMAIN rows /\ more[k] = rows[k])
  BY <1>1, <1>2, <1>3
<1>5. QED BY <1>4 DEF more

(* Only ReadHistory fills the row of a request, from the wish it was sent with. *)
LEMMA OverridesDecideStep ==
  ASSUME TypeInv, OverridesDecide, [Next]_vars
  PROVE  OverridesDecide'
<1> USE DEF TypeInv, TypeOK, OverridesDecide, HasRead
<1>1. ASSUME UNCHANGED <<overrides, reqPc, req>> PROVE OverridesDecide'
  BY <1>1
<1>2. ASSUME NEW q \in Requests, RequestStep(q) PROVE OverridesDecide'
  <2>1. CASE Submit(q) BY <2>1 DEF Submit, Go, store
  <2>2. CASE Acquire(q) BY <2>2 DEF Acquire, Go, store
  <2>3. CASE ReadHistory(q) BY <2>3 DEF ReadHistory, Go, store, NextRow, Asked
  <2>4. CASE CheckClaim(q) BY <2>4 DEF CheckClaim, Go, store, OverrideRow
  <2>5. CASE Insert(q) BY <2>5 DEF Insert, Go, store
  <2>6. CASE Recheck(q) BY <2>6 DEF Recheck, Go, store
  <2>7. CASE CommitOverride(q)
    <3>1. ASSUME NEW p \in Requests, reqPc'[p] \in HasRead PROVE req'[p].row.new \in Decisions
      BY <2>7, <3>1 DEF CommitOverride, End
    <3>2. ASSUME NEW i \in RecordIds, NEW k \in DOMAIN overrides'[i]
          PROVE  overrides'[i][k].new \in Decisions
      <4>1. CASE i # req[q].record
        <5>1. overrides'[i] = overrides[i] BY <2>7, <4>1 DEF CommitOverride
        <5>2. QED BY <3>2, <5>1
      <4>2. CASE i = req[q].record
        <5>1. overrides'[i] = Append(overrides[i], req[q].row)
          BY <2>7, <4>2 DEF CommitOverride
        <5>2. overrides[i] \in Seq(OverrideRow) /\ req[q].row \in OverrideRow
          OBVIOUS
        <5>3. \/ overrides'[i][k] = req[q].row
              \/ k \in DOMAIN overrides[i] /\ overrides'[i][k] = overrides[i][k]
          BY <3>2, <5>1, <5>2, AppendedRow
        <5>4. req[q].row.new \in Decisions BY <2>7 DEF CommitOverride
        <5>5. QED BY <5>3, <5>4
      <4>3. QED BY <4>1, <4>2
    <3>3. QED BY <3>1, <3>2
  <2>8. CASE Refuse(q) BY <2>8 DEF Refuse, End, store
  <2>9. CASE AbortRequest(q) BY <2>9 DEF AbortRequest, End, store
  <2>10. QED
    BY <1>2, <2>1, <2>2, <2>3, <2>4, <2>5, <2>6, <2>7, <2>8, <2>9 DEF RequestStep, Serve
<1>3. UNCHANGED <<overrides, reqPc, req>> \/ \E q \in Requests : RequestStep(q)
  BY DEF Next, vars, Tick, IngestLine, RunStep, StartRun, ReadCharges, CommitRun, AbortRun,
    requests, store
<1>4. QED BY <1>1, <1>2, <1>3

(* Every stored override is to one of the three decisions, in every state. *)
THEOREM OverridesDecideInvariant == Spec => []OverridesDecide
<1>1. Init => OverridesDecide
  BY DEF Init, OverridesDecide, HasRead
<1>2. QED BY <1>1, OverridesDecideStep, TypeInvariant, PTL DEF Spec

bar == [i \in RecordIds |-> HistoryOfRecord(i)]

(* The decisions of a record: the engine's, then those of its rows. *)
Trail(first, rows) ==
  [k \in 1..(Len(rows) + 1) |-> IF k = 1 THEN first ELSE rows[k - 1].new]

(* A trail is a sequence of decisions that ends with the effective one, and a row
   appended to a history is its decision appended to the trail. *)
LEMMA TrailOfRows ==
  ASSUME NEW first \in Decisions, NEW rows \in Seq(OverrideRow),
         \A k \in DOMAIN rows : rows[k].new \in Decisions
  PROVE  /\ Trail(first, rows) \in Seq(Decisions) /\ Len(Trail(first, rows)) = Len(rows) + 1
         /\ Trail(first, rows)[Len(rows) + 1]
              = IF rows = <<>> THEN first ELSE rows[Len(rows)].new
         /\ \A k \in 1..Len(rows) : Trail(first, rows)[k + 1] = rows[k].new
         /\ Trail(first, rows)[1] = first
<1> DEFINE t == Trail(first, rows)
<1>1. Len(rows) \in Nat /\ DOMAIN rows = 1..Len(rows) /\ (rows = <<>> <=> Len(rows) = 0)
  BY LenProperties
<1>2. t = [k \in 1..(Len(rows) + 1) |-> IF k = 1 THEN first ELSE rows[k - 1].new]
  BY DEF Trail
<1>3. \A k \in 1..(Len(rows) + 1) : (IF k = 1 THEN first ELSE rows[k - 1].new) \in Decisions
  BY <1>1
<1> HIDE DEF t
<1>4. t \in Seq(Decisions) /\ Len(t) = Len(rows) + 1
  BY <1>1, <1>2, <1>3
<1>5. t[1] = first /\ \A k \in 1..Len(rows) : t[k + 1] = rows[k].new
  BY <1>1, <1>2
<1>6. t[Len(rows) + 1] = IF rows = <<>> THEN first ELSE rows[Len(rows)].new
  BY <1>1, <1>2
<1>7. QED BY <1>4, <1>5, <1>6 DEF t

(* Appending a row appends its decision to the trail. *)
LEMMA TrailAppend ==
  ASSUME NEW first \in Decisions, NEW rows \in Seq(OverrideRow), NEW row \in OverrideRow,
         row.new \in Decisions, \A k \in DOMAIN rows : rows[k].new \in Decisions
  PROVE  Trail(first, Append(rows, row)) = Append(Trail(first, rows), row.new)
<1> DEFINE more == Append(rows, row)
           s == Trail(first, more)
           t == Trail(first, rows)
           u == Append(t, row.new)
<1>1. more \in Seq(OverrideRow) /\ Len(more) = Len(rows) + 1 /\ more[Len(rows) + 1] = row
        /\ \A k \in 1..Len(rows) : more[k] = rows[k]
  BY AppendProperties
<1>2. Len(rows) \in Nat /\ DOMAIN rows = 1..Len(rows)
  BY LenProperties
<1> HIDE DEF more
<1>3. \A k \in DOMAIN more : more[k].new \in Decisions
  BY <1>1, <1>2, LenProperties
<1>4. s \in Seq(Decisions) /\ Len(s) = Len(rows) + 2 /\ s[1] = first
        /\ \A k \in 1..(Len(rows) + 1) : s[k + 1] = more[k].new
  BY <1>1, <1>2, <1>3, TrailOfRows
<1>5. t \in Seq(Decisions) /\ Len(t) = Len(rows) + 1 /\ t[1] = first
        /\ \A k \in 1..Len(rows) : t[k + 1] = rows[k].new
  BY <1>2, TrailOfRows
<1> HIDE DEF s, t
<1>6. u \in Seq(Decisions) /\ Len(u) = Len(rows) + 2 /\ u[Len(rows) + 2] = row.new
        /\ \A k \in 1..(Len(rows) + 1) : u[k] = t[k]
  BY <1>2, <1>5, AppendProperties
<1> HIDE DEF u
<1>7. ASSUME NEW k \in 1..Len(s) PROVE s[k] = u[k]
  <2>1. CASE k = 1 BY <1>2, <1>4, <1>5, <1>6, <2>1
  <2>2. CASE k = Len(rows) + 2
    <3>1. s[(Len(rows) + 1) + 1] = more[Len(rows) + 1].new BY <1>2, <1>4
    <3>2. QED BY <1>1, <1>2, <1>6, <2>2, <3>1
  <2>3. CASE k \in 2..(Len(rows) + 1)
    <3>1. PICK m \in 1..Len(rows) : k = m + 1
      <4>1. k - 1 \in 1..Len(rows) /\ k = (k - 1) + 1 BY <1>2, <2>3
      <4>2. QED BY <4>1
    <3>2. s[k] = more[m].new /\ t[k] = rows[m].new
      BY <1>2, <1>4, <1>5, <3>1
    <3>3. QED BY <1>1, <1>2, <1>6, <2>3, <3>2
  <2>4. QED BY <1>2, <1>4, <2>1, <2>2, <2>3
<1>8. s = u BY <1>4, <1>6, <1>7, SeqEqual
<1>9. QED BY <1>8 DEF s, t, u, more

(* The abstract history of a stored record is the trail of its rows. *)
LEMMA BarIsTrail ==
  ASSUME TypeInv, OverridesDecide, NEW i \in RecordIds
  PROVE  /\ Stored(i) => bar[i] = Trail(decisions[i].decision, overrides[i])
                           /\ decisions[i].decision \in Decisions
         /\ ~Stored(i) => bar[i] = <<>>
         /\ bar[i] \in Seq(Decisions)
<1>1. CASE Stored(i)
  <2>1. bar[i] = Trail(decisions[i].decision, overrides[i])
    BY <1>1 DEF bar, HistoryOfRecord, Trail
  <2>2. decisions[i].decision \in Decisions
    BY <1>1 DEF TypeInv, TypeOK, Stored, DecisionRecord
  <2>3. overrides[i] \in Seq(OverrideRow) BY DEF TypeInv, TypeOK
  <2>4. QED BY <1>1, <2>1, <2>2, <2>3, TrailOfRows DEF OverridesDecide
<1>2. CASE ~Stored(i)
  BY <1>2 DEF bar, HistoryOfRecord
<1>3. QED BY <1>1, <1>2

(* The commit of a run starts the histories of its own records. *)
LEMMA CommitRunDecides ==
  ASSUME TypeInv, RunsCommitOnce, HistInv, OverridesDecide, TypeInv', OverridesDecide',
         [Next]_vars, NEW r \in Runs, CommitRun(r)
  PROVE  Abstract!Decide
<1>1. overrides' = overrides BY DEF CommitRun
<1>2. ASSUME NEW i \in RecordIds, Stored(i) PROVE bar'[i] = bar[i]
  BY <1>1, <1>2, CommitOnceStep DEF bar, HistoryOfRecord, Stored
<1>3. ASSUME NEW i \in RecordIds, ~Stored(i)
      PROVE  bar[i] = <<>> /\ (bar'[i] = <<>> \/ \E d \in Decisions : bar'[i] = <<d>>)
  <2>1. overrides'[i] = <<>> BY <1>1, <1>3 DEF HistInv, HistoriesVerify
  <2>2. bar[i] = <<>> BY <1>3 DEF bar, HistoryOfRecord
  <2>3. CASE ~Stored(i)' BY <2>2, <2>3 DEF bar, HistoryOfRecord
  <2>4. CASE Stored(i)'
    <3>1. decisions'[i].decision \in Decisions
      BY <2>4 DEF TypeInv, TypeOK, Stored, DecisionRecord
    <3>2. bar'[i] = <<decisions'[i].decision>>
      BY <2>1, <2>4 DEF bar, HistoryOfRecord
    <3>3. QED BY <2>2, <3>1, <3>2
  <2>5. QED BY <2>3, <2>4
<1>4. bar' \in [RecordIds -> Seq(Decisions)]
  <2>1. ASSUME NEW i \in RecordIds PROVE bar'[i] \in Seq(Decisions)
    <3>1. CASE Stored(i) BY <1>2, <3>1, BarIsTrail
    <3>2. CASE ~Stored(i)
      <4>1. \A d \in Decisions : <<d>> \in Seq(Decisions) OBVIOUS
      <4>2. <<>> \in Seq(Decisions) OBVIOUS
      <4>3. QED BY <1>3, <3>2, <4>1, <4>2
    <3>3. QED BY <3>1, <3>2
  <2>2. bar' = [i \in RecordIds |-> bar'[i]] BY DEF bar
  <2> HIDE DEF bar
  <2>3. QED BY <2>1, <2>2
<1>5. QED BY <1>2, <1>3, <1>4 DEF Abstract!Decide, bar

(* The commit of a request appends what it wants to the history of its record. *)
LEMMA CommitOverrideOverrides ==
  ASSUME TypeInv, HistInv, OverridesDecide, NEW q \in Requests, CommitOverride(q)
  PROVE  Abstract!Override(req[q].record, req[q].row.new) /\ req[q].record \in RecordIds
           /\ req[q].row.new \in Decisions
<1> DEFINE i == req[q].record
           row == req[q].row
           rows == overrides[i]
           first == decisions[i].decision
<1>1. reqPc[q] = "verified" /\ UNCHANGED <<decisions, req>>
        /\ overrides' = [overrides EXCEPT ![i] = Append(@, row)]
  BY DEF CommitOverride
<1>2. i \in RecordIds /\ RowFits(q) /\ row.new \in Decisions /\ row \in OverrideRow
        /\ rows \in Seq(OverrideRow) /\ Stored(i)
  BY <1>1 DEF TypeInv, TypeOK, Asked, HistInv, RowsFit, RowFits, HasRead, OverridesDecide
<1>3. \A k \in DOMAIN rows : rows[k].new \in Decisions
  BY <1>2 DEF OverridesDecide
<1>4. bar[i] = Trail(first, rows) /\ first \in Decisions
  BY <1>2, BarIsTrail
<1>5. bar[i] # <<>> /\ row.new # bar[i][Len(bar[i])]
  <2>1. Len(bar[i]) = Len(rows) + 1 /\ bar[i][Len(rows) + 1] = Effective(decisions[i], rows)
    BY <1>2, <1>3, <1>4, TrailOfRows DEF Effective
  <2>2. Len(rows) \in Nat BY <1>2
  <2>3. row.new # Effective(decisions[i], rows) BY <1>2 DEF RowFits
  <2>4. QED BY <2>1, <2>2, <2>3
<1>6. bar'[i] = Append(bar[i], row.new)
  <2>1. overrides'[i] = Append(rows, row) BY <1>1, <1>2 DEF TypeInv, TypeOK
  <2>2. \A j \in RecordIds : decisions'[j] # NoDecision =>
          bar'[j] = Trail(decisions'[j].decision, overrides'[j])
    BY DEF bar, HistoryOfRecord, Stored, Trail
  <2>3. bar'[i] = Trail(first, Append(rows, row))
    BY <1>1, <1>2, <2>1, <2>2 DEF Stored
  <2>4. QED BY <1>2, <1>3, <1>4, <2>3, TrailAppend
<1>7. ASSUME NEW j \in RecordIds, j # i PROVE bar'[j] = bar[j]
  BY <1>1, <1>7 DEF bar, HistoryOfRecord, Stored
<1>8. bar' = [bar EXCEPT ![i] = Append(@, row.new)]
  BY <1>6, <1>7 DEF bar
<1>9. QED BY <1>2, <1>5, <1>8 DEF Abstract!Override, bar

(* Runs, uploads and reviewers together implement one growing history of
   decisions per record: a commit of either is its only visible step. *)
THEOREM ReviewImplementsHistory == Spec => ImplementsHistory
<1>1. Init => Abstract!Init
  BY DEF Init, Abstract!Init, HistoryOfRecord, Stored
<1>2. ASSUME TypeInv, RunsCommitOnce, HistInv, OverridesDecide, [Next]_vars
      PROVE  [Abstract!Next]_bar
  <2>0. TypeInv' /\ OverridesDecide' BY <1>2, TypeStep, OverridesDecideStep
  <2>1. CASE \E r \in Runs : CommitRun(r)
    BY <1>2, <2>0, <2>1, CommitRunDecides DEF Abstract!Next
  <2>2. CASE \E q \in Requests : CommitOverride(q)
    BY <1>2, <2>2, CommitOverrideOverrides DEF Abstract!Next
  <2>3. CASE UNCHANGED <<decisions, overrides>>
    BY <2>3 DEF bar, HistoryOfRecord, Stored
  <2>4. QED BY <1>2, <2>1, <2>2, <2>3, DecisionsChange, OverridesChange
<1>3. QED
  BY <1>1, <1>2, TypeInvariant, CommitOnceInvariant, HistInvariant, OverridesDecideInvariant, PTL
  DEF Spec, ImplementsHistory, Abstract!Spec, bar
=============================================================================
