------------------------------- MODULE Review -------------------------------
(***************************************************************************)
(* Runs, uploads and human overrides over one organisation's store         *)
(* (backend/app/review, api/review.py; the reads and writes are those of   *)
(* db/repo.py).  Every transaction is READ COMMITTED: each statement sees  *)
(* what was committed when it started, and nothing a transaction wrote is  *)
(* seen by others before it commits.  apply_override is one transaction    *)
(* under an advisory lock of its decision record; a run takes no lock.     *)
(*                                                                         *)
(* A record id is <<run, line>>.  A request writes at most one override    *)
(* row, so its name stands for the content hash of that row.               *)
(***************************************************************************)
EXTENDS ClaimRules

CONSTANTS
  Runs,         \* runs, as the order of their ids
  Requests,     \* override requests
  ReviewLines,  \* the fee lines whose decisions are reviewed
  Arrivals,     \* report lines that may be stored
  FirstCharges, \* the lines stored before the first run
  TicksPerDay,
  MaxTime,      \* bound: the clock
  NoDecision,   \* no decision is stored under this id
  NoRequest

LineIdsUnique(S) == \A c, d \in S : c.line = d.line => c = d

ASSUME ReviewAssumption ==
  /\ Runs \subseteq Nat /\ MaxTime \in Nat /\ TicksPerDay \in Nat \ {0}
  /\ NoRequest \notin Requests
  /\ FirstCharges \subseteq Arrivals /\ IsFiniteSet(FirstCharges)
  /\ LineIdsUnique(FirstCharges)
  /\ \A c \in Arrivals : c.line \in Int /\ c.posted \in Int /\ c.amount \in Int

RecordIds == Runs \X ReviewLines

Day(t) == t \div TicksPerDay

VARIABLES
  now,        \* the clock that stamps decided_at and at
  charges,    \* table charges
  decisions,  \* table decisions: record id -> what the review reads of it
  overrides,  \* table decision_overrides: record id -> its rows by sequence
  lock,       \* record id -> the request that holds its advisory lock
  runPc, runAt, snap,   \* a run: where it is, its decided_at, the charges it read
  reqPc, req            \* a request: where it is, and what it asked for and computed

store == <<charges, decisions, overrides>>
runs == <<runPc, runAt, snap>>
requests == <<reqPc, req, lock>>
vars == <<now, store, runs, requests>>

NoRow == [sequence |-> 0, original |-> "none", new |-> "none", claim |-> 0,
          engine |-> NoDecision, previous |-> NoRequest, by |-> NoRequest]

NotAsked == [record |-> NoDecision, want |-> "none", at |-> 0, row |-> NoRow]

Init ==
  /\ now = 0 /\ charges = FirstCharges
  /\ decisions = [i \in RecordIds |-> NoDecision]
  /\ overrides = [i \in RecordIds |-> <<>>]
  /\ lock = [i \in RecordIds |-> NoRequest]
  /\ runPc = [r \in Runs |-> "idle"] /\ runAt = [r \in Runs |-> 0]
  /\ snap = [r \in Runs |-> {}]
  /\ reqPc = [q \in Requests |-> "idle"] /\ req = [q \in Requests |-> NotAsked]

-----------------------------------------------------------------------------
(* Time and uploads. *)

Tick ==
  /\ now < MaxTime
  /\ now' = now + 1
  /\ UNCHANGED <<store, runs, requests>>

(* Slip: the row is written whether or not its line id is stored already. *)
IngestAnyLine(c) ==
  /\ c \notin charges
  /\ charges' = charges \cup {c}
  /\ UNCHANGED <<now, decisions, overrides, runs, requests>>

(* ON CONFLICT DO NOTHING: a line id that is stored keeps the row it has. *)
IngestLine(c) ==
  /\ \A d \in charges : d.line # c.line
  /\ charges' = charges \cup {c}
  /\ UNCHANGED <<now, decisions, overrides, runs, requests>>

-----------------------------------------------------------------------------
(* Runs: decided_at is stamped before anything is read. *)

StartRun(r) ==
  /\ runPc[r] = "idle"
  /\ runPc' = [runPc EXCEPT ![r] = "started"]
  /\ runAt' = [runAt EXCEPT ![r] = now]
  /\ UNCHANGED <<now, store, snap, requests>>

ReadCharges(r) ==
  /\ runPc[r] = "started"
  /\ runPc' = [runPc EXCEPT ![r] = "read"]
  /\ snap' = [snap EXCEPT ![r] = charges]
  /\ UNCHANGED <<now, store, runAt, requests>>

Stored(i) == decisions[i] # NoDecision

Decided(r) == {c \in snap[r] : c.line \in ReviewLines}

(* All the decisions of a run are committed at once; which of the decisions
   that fit the snapshot it takes depends on evidence this module leaves out. *)
CommitRun(r) ==
  /\ runPc[r] = "read"
  /\ runPc' = [runPc EXCEPT ![r] = "done"]
  /\ \E result \in [Decided(r) -> UNION {EngineRecords(c, snap[r], Day(runAt[r])) : c \in Decided(r)}] :
       /\ \A c \in Decided(r) : result[c] \in EngineRecords(c, snap[r], Day(runAt[r]))
       /\ decisions' =
            [i \in RecordIds |->
               IF i[1] = r /\ \E c \in Decided(r) : c.line = i[2]
               THEN result[CHOOSE c \in Decided(r) : c.line = i[2]] ELSE decisions[i]]
  /\ UNCHANGED <<now, charges, overrides, runAt, snap, requests>>

AbortRun(r) ==
  /\ runPc[r] \in {"started", "read"}
  /\ runPc' = [runPc EXCEPT ![r] = "failed"]
  /\ UNCHANGED <<now, store, runAt, snap, requests>>

-----------------------------------------------------------------------------
(* What a statement of apply_override reads. *)

(* list_decisions_for_line orders by decided_at, then by record id. *)
DecidedLater(i, j) ==
  \/ runAt[i[1]] > runAt[j[1]]
  \/ runAt[i[1]] = runAt[j[1]] /\ i[1] > j[1]

Superseded(i) ==
  Stored(i) /\ \E j \in RecordIds : j[2] = i[2] /\ Stored(j) /\ DecidedLater(j, i)

(* check_chain, without the hash of each row over itself. *)
ChainVerifies(d, rows) ==
  \A k \in DOMAIN rows :
    /\ rows[k].engine = d
    /\ rows[k].previous = IF k = 1 THEN NoRequest ELSE rows[k - 1].by
    /\ rows[k].original = IF k = 1 THEN d.decision ELSE rows[k - 1].new
    /\ IF rows[k].new = "CLAIM" THEN rows[k].claim = Remaining(d) ELSE rows[k].claim = 0

Effective(d, rows) == IF rows = <<>> THEN d.decision ELSE rows[Len(rows)].new

(* Slip: every override is taken to replace the engine's own decision. *)
NextRowFromEngine(q, d, rows) ==
  [sequence |-> Len(rows) + 1, original |-> d.decision, new |-> req[q].want,
   claim |-> 0, engine |-> d,
   previous |-> IF rows = <<>> THEN NoRequest ELSE rows[Len(rows)].by, by |-> q]

NextRow(q, d, rows) ==
  [sequence |-> Len(rows) + 1, original |-> Effective(d, rows), new |-> req[q].want,
   claim |-> 0, engine |-> d,
   previous |-> IF rows = <<>> THEN NoRequest ELSE rows[Len(rows)].by, by |-> q]

-----------------------------------------------------------------------------
(* An override request, statement by statement. *)

Go(q, from, to) == reqPc[q] = from /\ reqPc' = [reqPc EXCEPT ![q] = to]

(* Slip: only a commit frees the lock. *)
EndKeepingLock(q, outcome) ==
  /\ reqPc' = [reqPc EXCEPT ![q] = outcome]
  /\ lock' = [i \in RecordIds |->
                IF lock[i] = q /\ outcome = "done" THEN NoRequest ELSE lock[i]]

(* The transaction ends, which frees the lock whoever raised. *)
End(q, outcome) ==
  /\ reqPc' = [reqPc EXCEPT ![q] = outcome]
  /\ lock' = [i \in RecordIds |-> IF lock[i] = q THEN NoRequest ELSE lock[i]]

Submit(q) ==
  /\ Go(q, "idle", "waiting")
  /\ \E i \in RecordIds, want \in Decisions :
       req' = [req EXCEPT ![q] = [record |-> i, want |-> want, at |-> now, row |-> NoRow]]
  /\ UNCHANGED <<now, store, runs, lock>>

(* Slip: the lock is not waited for. *)
AcquireAtOnce(q) ==
  /\ Go(q, "waiting", "locked")
  /\ lock' = [lock EXCEPT ![req[q].record] = q]
  /\ UNCHANGED <<now, store, runs, req>>

Acquire(q) ==
  /\ Go(q, "waiting", "locked")
  /\ lock[req[q].record] = NoRequest
  /\ lock' = [lock EXCEPT ![req[q].record] = q]
  /\ UNCHANGED <<now, store, runs, req>>

(* No such decision, a newer one, a broken chain, or nothing to change.  The
   three statements that read this are one action: a stored decision never
   changes and the lock keeps the history still, so what counts is the moment
   at which one of them looks for a newer decision. *)
HistoryRefuses(q) ==
  LET i == req[q].record
  IN  Stored(i) =>
        \/ Superseded(i)
        \/ ~ChainVerifies(decisions[i], overrides[i])
        \/ req[q].want = Effective(decisions[i], overrides[i])

ReadHistory(q) ==
  LET i == req[q].record
  IN  /\ Go(q, "locked", IF req[q].want = "CLAIM" THEN "claiming" ELSE "writing")
      /\ ~HistoryRefuses(q)
      /\ req' = [req EXCEPT ![q].row = NextRow(q, decisions[i], overrides[i])]
      /\ UNCHANGED <<now, store, runs, lock>>

ClaimRefuses(q) == ClaimRefusedNow(decisions[req[q].record], charges, Day(req[q].at))

CheckClaim(q) ==
  /\ Go(q, "claiming", "writing")
  /\ ~ClaimRefuses(q)
  /\ req' = [req EXCEPT ![q].row.claim = Remaining(decisions[req[q].record])]
  /\ UNCHANGED <<now, store, runs, lock>>

(* The constraints of decision_overrides: one row per sequence number, a row
   changes the decision it replaces, and a CLAIM alone asks for something. *)
BreaksConstraint(q) ==
  LET row == req[q].row
      rows == overrides[req[q].record]
  IN  \/ row.new = row.original \/ (row.new = "CLAIM") # (row.claim > 0)
      \/ \E k \in DOMAIN rows : rows[k].sequence = row.sequence

Insert(q) ==
  /\ Go(q, "writing", "inserted")
  /\ ~BreaksConstraint(q)
  /\ UNCHANGED <<now, store, runs, req, lock>>

(* Slip: the newest decision is not looked at again. *)
RecheckNothing(q) ==
  /\ Go(q, "inserted", "verified")
  /\ UNCHANGED <<now, store, runs, req, lock>>

Recheck(q) ==
  /\ Go(q, "inserted", "verified")
  /\ ~Superseded(req[q].record)
  /\ UNCHANGED <<now, store, runs, req, lock>>

(* Slip: one row per decision, written over the one before. *)
CommitOverLast(q) ==
  /\ reqPc[q] = "verified"
  /\ overrides' = [overrides EXCEPT ![req[q].record] = <<req[q].row>>]
  /\ End(q, "done")
  /\ UNCHANGED <<now, charges, decisions, runs, req>>

CommitOverride(q) ==
  /\ reqPc[q] = "verified"
  /\ overrides' = [overrides EXCEPT ![req[q].record] = Append(@, req[q].row)]
  /\ End(q, "done")
  /\ UNCHANGED <<now, charges, decisions, runs, req>>

(* OverrideError or IntegrityError: the transaction is rolled back.  A CLAIM the
   store supports is refused as well when a cited evidence row no longer holds,
   and evidence is left out here. *)
Refuse(q) ==
  /\ \/ reqPc[q] = "locked" /\ HistoryRefuses(q)
     \/ reqPc[q] = "claiming"
     \/ reqPc[q] = "writing" /\ BreaksConstraint(q)
     \/ reqPc[q] = "inserted" /\ Superseded(req[q].record)
  /\ End(q, "refused")
  /\ UNCHANGED <<now, store, runs, req>>

HasRead == {"claiming", "writing", "inserted", "verified"}

InTransaction == {"waiting", "locked"} \cup HasRead

(* The process or its connection dies. *)
AbortRequest(q) ==
  /\ reqPc[q] \in InTransaction
  /\ End(q, "failed")
  /\ UNCHANGED <<now, store, runs, req>>

-----------------------------------------------------------------------------
RunStep(r) == StartRun(r) \/ ReadCharges(r) \/ CommitRun(r) \/ AbortRun(r)

(* What the request's own thread does next. *)
Serve(q) ==
  \/ ReadHistory(q) \/ CheckClaim(q) \/ Insert(q) \/ Recheck(q) \/ CommitOverride(q) \/ Refuse(q)

RequestStep(q) == Submit(q) \/ Acquire(q) \/ Serve(q) \/ AbortRequest(q)

Next ==
  \/ Tick
  \/ \E c \in Arrivals : IngestLine(c)
  \/ \E r \in Runs : RunStep(r)
  \/ \E q \in Requests : RequestStep(q)

Spec == Init /\ [][Next]_vars

(* A thread that can go on does, and the lock is given to a waiter once it is
   free: there are finitely many requests and each takes it once. *)
FairSpec == Spec /\ \A q \in Requests : WF_vars(Acquire(q)) /\ WF_vars(Serve(q))
-----------------------------------------------------------------------------
DecisionRecord ==
  [charge : Arrivals, decision : Decisions, status : {"final", "pending"},
   computable : Verdicts, window : Verdicts, settled : Verdicts, partial : BOOLEAN,
   charged : Int, reimbursed : Nat, claim : Int]

OverrideRow ==
  [sequence : Nat, original : Decisions \cup {"none"}, new : Decisions \cup {"none"}, claim : Int,
   engine : DecisionRecord \cup {NoDecision}, previous : Requests \cup {NoRequest},
   by : Requests \cup {NoRequest}]

Ended == {"done", "refused", "failed"}

TypeOK ==
  /\ now \in Nat
  /\ charges \subseteq Arrivals /\ LineIdsUnique(charges)
  /\ decisions \in [RecordIds -> DecisionRecord \cup {NoDecision}]
  /\ overrides \in [RecordIds -> Seq(OverrideRow)]
  /\ lock \in [RecordIds -> Requests \cup {NoRequest}]
  /\ runPc \in [Runs -> {"idle", "started", "read", "done", "failed"}]
  /\ runAt \in [Runs -> Nat]
  /\ snap \in [Runs -> SUBSET Arrivals]
  /\ reqPc \in [Requests -> {"idle"} \cup InTransaction \cup Ended]
  /\ req \in [Requests -> [record : RecordIds \cup {NoDecision}, want : Decisions \cup {"none"},
                           at : Nat, row : OverrideRow]]

(* The stored history of every decision verifies at all times, is numbered
   without gaps, and each row changes the decision it replaced: what GET shows
   and what the next override starts from (check_chain; the unique constraint
   and the check new <> original of decision_overrides). *)
HistoryOf(d, rows) ==
  /\ ChainVerifies(d, rows)
  /\ \A k \in DOMAIN rows : rows[k].sequence = k /\ rows[k].new # rows[k].original

HistoriesVerify ==
  \A i \in RecordIds :
    IF Stored(i) THEN HistoryOf(decisions[i], overrides[i]) ELSE overrides[i] = <<>>

(* Two reviewers never both override from the same decision: what a request read
   of the history is still the whole of it when it writes, so nobody's judgement
   is replaced unseen and the unique constraint never has to refuse. *)
HistoryStillCurrent ==
  \A q \in Requests :
    reqPc[q] \in HasRead =>
      LET i == req[q].record
      IN  /\ Stored(i) /\ req[q].row.engine = decisions[i]
          /\ req[q].row.sequence = Len(overrides[i]) + 1
          /\ req[q].row.original = Effective(decisions[i], overrides[i])

(* A human CLAIM asks for exactly the charge not yet reimbursed, something is
   left of it, and the engine had settled that it can be asked for (rule 9,
   D-021): pending, loss, refund, partly covered and closed lines never get one. *)
HumanClaimsAreOwed ==
  \A i \in RecordIds : \A k \in DOMAIN overrides[i] :
    LET d == decisions[i]
        row == overrides[i][k]
    IN  row.new = "CLAIM" =>
          /\ d.status = "final" /\ ~d.partial /\ d.window # "FAIL" /\ d.settled = "PASS"
          /\ IsChargeableFee(d.charge)
          /\ row.claim > 0 /\ row.claim + d.reimbursed = d.charge.amount

(* Older runs are history (D-021): once a newer decision of the line is stored
   and no request has passed its last check, an older one is never overridden
   again, however long a request has been under way. *)
Frozen(i) ==
  Superseded(i) /\ \A q \in Requests : req[q].record = i => reqPc[q] # "verified"

SupersededStaysFrozen ==
  [][\A i \in RecordIds : Frozen(i) => Frozen(i)' /\ overrides'[i] = overrides[i]]_vars

(* The store only grows: a decision once stored never changes, and a history
   keeps every row it has (append-only tables, rule 11). *)
StoreOnlyGrows ==
  [][/\ charges \subseteq charges'
     /\ \A i \in RecordIds :
          /\ Stored(i) => decisions'[i] = decisions[i]
          /\ Len(overrides'[i]) >= Len(overrides[i])
          /\ \A k \in DOMAIN overrides[i] : overrides'[i][k] = overrides[i][k]]_vars

(* Nobody waits forever: every request that was sent is answered, also when
   others are refused or die while they hold the lock. *)
RequestsEnd ==
  \A q \in Requests : reqPc[q] = "waiting" ~> reqPc[q] \in Ended

(* The abstract history of each record. *)
HistoryOfRecord(i) ==
  IF Stored(i)
  THEN [k \in 1..(Len(overrides[i]) + 1) |->
          IF k = 1 THEN decisions[i].decision ELSE overrides[i][k - 1].new]
  ELSE <<>>

Abstract ==
  INSTANCE DecisionHistory WITH
    Records <- RecordIds, DecisionValues <- Decisions,
    history <- [i \in RecordIds |-> HistoryOfRecord(i)]

(* Runs and reviewers together keep one growing history per record. *)
ImplementsHistory == Abstract!Spec

(* review/__init__.py:24 says a human CLAIM "is also refused when the store
   changed since the run": then a CLAIM that commits agrees with the store. *)
ClaimMatchesStoreAtCommit ==
  [][\A q \in Requests :
       LET i == req[q].record
       IN  reqPc[q] = "verified" /\ reqPc'[q] = "done" /\ req[q].want = "CLAIM" =>
             PrecheckOf(decisions[i].charge, charges, Day(req[q].at)).reimbursed
               = decisions[i].reimbursed]_vars
=============================================================================
