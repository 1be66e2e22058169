------------------------------ MODULE Pipeline ------------------------------
(***************************************************************************)
(* backend/app/pipeline: one organisation's run.  run_org reads the        *)
(* charges, then the evidence, in one READ COMMITTED transaction, runs the *)
(* pre-checks once, and decides the charges one by one in line order, each *)
(* in a savepoint that fails open.  Meanwhile other transactions commit    *)
(* uploads, the table owner may edit a stored row, and the database may    *)
(* fail.  A run that fails is started again only if somebody asks for it.  *)
(***************************************************************************)
EXTENDS Engine

CONSTANTS
  Stores,        \* the stores a run may start from: [charges, rows, asOf]
  LateCharges(_),   \* day -> the lines an upload may commit while the run is going on
  LateRows(_),      \* day -> the evidence rows likewise
  EditedChecks,  \* checks the owner may write into a stored record
  MaxFaults      \* bound: failures of the database or of the pre-checks

ASSUME PipelineAssumption == MaxFaults \in Nat

(* A report line as an upload stores it. *)
IsLine(c) ==
  /\ {"line", "posted", "type", "amount"} \subseteq DOMAIN c
  /\ c.line \in Int /\ c.amount \in Int /\ c.posted \in Int /\ c.type \in ChargeTypes

(* A row whose checks hold anything else is no record: it cannot be read. *)
AreChecks(checks) == \A k \in DOMAIN checks : checks[k] \in Verdicts

ASSUME EditedChecksAssumption == \A checks \in EditedChecks : AreChecks(checks)

(* An evidence row as an upload stores it: its body was hashed, and the column holds
   that hash. *)
IsIntact(w) ==
  /\ {"agent", "id", "status", "checks"} \subseteq DOMAIN w.body
  /\ AreChecks(w.body.checks)
  /\ w = [body |-> Sealed(Content(w.body)), column |-> Content(w.body)]

SameRecord(v, w) == v.body.agent = w.body.agent /\ v.body.id = w.body.id

(* A run starts from what uploads have stored: one line of an id, one row of a record. *)
ASSUME StoresAssumption ==
  \A s \in Stores :
    /\ IsFiniteSet(s.charges)
    /\ \A c \in s.charges \cup LateCharges(s.asOf) : IsLine(c)
    /\ \A c, d \in s.charges : c.line = d.line => c = d
    /\ \A w \in s.rows \cup LateRows(s.asOf) : IsIntact(w)
    /\ \A v, w \in s.rows : SameRecord(v, w) => v = w

VARIABLES
  charges,   \* table charges
  rows,      \* table evidence_records
  asOf,      \* the as-of date of the run
  pc,        \* start, charges, deciding, committed or aborted
  snap,      \* what the run has read: [charges, bodies, pre, failed]
  todo,      \* the lines still to decide, in line order
  decided,   \* the decisions the run has inserted, in its transaction
  faults,    \* failures so far
  edited     \* the rows and lines the owner has edited or deleted

store == <<charges, rows, asOf, edited>>
run == <<pc, snap, todo, decided>>
vars == <<store, run, faults>>

NothingRead == [charges |-> {}, bodies |-> {}, pre |-> <<>>, failed |-> FALSE]

Init ==
  /\ \E s \in Stores : charges = s.charges /\ rows = s.rows /\ asOf = s.asOf
  /\ pc = "start" /\ snap = NothingRead /\ todo = <<>> /\ decided = {}
  /\ faults = 0 /\ edited = {}

-----------------------------------------------------------------------------
(* The run. *)

ByLine(S) ==
  [i \in 1..Cardinality(S) |->
     CHOOSE c \in S : Cardinality({d \in S : d.line < c.line}) = i - 1]

ReadCharges ==
  /\ pc = "start"
  /\ pc' = "charges"
  /\ snap' = [snap EXCEPT !.charges = charges]
  /\ todo' = ByLine(charges)
  /\ UNCHANGED <<decided, store, faults>>

RunPrechecks(S) == [c \in S |-> PrecheckOf(c, S, asOf)]

(* The second statement sees what was committed since the first.  A pre-check
   that raises leaves every line to fail open. *)
ReadRecords ==
  /\ pc = "charges"
  /\ pc' = "deciding"
  /\ \E failed \in BOOLEAN :
       /\ failed => faults < MaxFaults
       /\ faults' = IF failed THEN faults + 1 ELSE faults
       /\ snap' = [snap EXCEPT !.bodies = {w.body : w \in rows}, !.failed = failed,
                               !.pre = IF failed THEN <<>> ELSE RunPrechecks(snap.charges)]
  /\ UNCHANGED <<todo, decided, store>>

CanonicalOf(c, S) == IF IsDuplicate(c, S) THEN {Canonical(S)[c]} ELSE {}

DecideLine(c) == Decide(c, snap.pre[c], CanonicalOf(c, snap.charges), snap.bodies)

Store(d) ==
  /\ decided' = decided \cup {d}
  /\ todo' = Tail(todo)
  /\ UNCHANGED <<pc, snap, store>>

(* _decide_one and insert_decision: the validator re-reads the rows as they
   are now. *)
DecideOne ==
  /\ pc = "deciding" /\ todo # <<>> /\ ~snap.failed
  /\ LET d == DecideLine(Head(todo))
     IN  /\ ~Raises(d)
         /\ Store(Enforce(d, Valid(d, charges, rows, FALSE)))
  /\ UNCHANGED faults

(* The engine or the pre-checks raised. *)
FailOpenOnError ==
  /\ pc = "deciding" /\ todo # <<>>
  /\ IF snap.failed THEN TRUE ELSE Raises(DecideLine(Head(todo)))
  /\ Store(FailOpen(Head(todo), "ENGINE_ERROR"))
  /\ UNCHANGED faults

(* Slip: the error is logged and the line skipped. *)
SkipOnDatabase ==
  /\ pc = "deciding" /\ todo # <<>> /\ ~snap.failed
  /\ faults < MaxFaults
  /\ faults' = faults + 1
  /\ todo' = Tail(todo)
  /\ UNCHANGED <<pc, snap, decided, store>>

(* The database failed in the savepoint; the fail-open insert went through. *)
FailOpenOnDatabase ==
  /\ pc = "deciding" /\ todo # <<>> /\ ~snap.failed
  /\ faults < MaxFaults
  /\ faults' = faults + 1
  /\ Store(FailOpen(Head(todo), "DEPENDENCY_UNAVAILABLE"))

Commit ==
  /\ pc = "deciding" /\ todo = <<>>
  /\ pc' = "committed"
  /\ UNCHANGED <<snap, todo, decided, store, faults>>

(* The database failed outside a savepoint: the transaction is rolled back. *)
Abort ==
  /\ pc \in {"charges", "deciding"}
  /\ faults < MaxFaults
  /\ faults' = faults + 1
  /\ pc' = "aborted"
  /\ snap' = NothingRead /\ todo' = <<>> /\ decided' = {}
  /\ UNCHANGED store

Restart ==
  /\ pc = "aborted"
  /\ pc' = "start"
  /\ UNCHANGED <<snap, todo, decided, store, faults>>

-----------------------------------------------------------------------------
(* Everyone else. *)

Running == pc # "committed"

IngestCharge(c) ==
  /\ Running
  /\ \A d \in charges : d.line # c.line
  /\ charges' = charges \cup {c}
  /\ UNCHANGED <<rows, asOf, edited, run, faults>>

IngestRow(w) ==
  /\ Running
  /\ CitedRow([agent |-> w.body.agent, id |-> w.body.id], rows) = {}
  /\ rows' = rows \cup {w}
  /\ UNCHANGED <<charges, asOf, edited, run, faults>>

(* The owner writes other checks into a body, with or without its hash, writes
   another hash into the column, or deletes the row.  One edit: the bound. *)
EditRow(w) ==
  /\ Running /\ edited = {}
  /\ \E k \in EditedChecks :
       LET body == [w.body EXCEPT !.checks = k]
       IN  /\ body # w.body
           /\ \E new \in {{[w EXCEPT !.body = body]},
                          {[w EXCEPT !.body = Sealed(Content(body))]},
                          {[w EXCEPT !.column = Content(body)]}, {}} :
                rows' = (rows \ {w}) \cup new
  /\ edited' = {w}
  /\ UNCHANGED <<charges, asOf, run, faults>>

EditCharge(c) ==
  /\ Running /\ edited = {}
  /\ \E new \in {{[c EXCEPT !.amount = @ + 1]}, {}} : charges' = (charges \ {c}) \cup new
  /\ edited' = {c}
  /\ UNCHANGED <<rows, asOf, run, faults>>

Step == ReadCharges \/ ReadRecords \/ DecideOne \/ FailOpenOnError \/ Commit

Done == pc = "committed" /\ UNCHANGED vars

Next ==
  \/ Step \/ FailOpenOnDatabase \/ Abort \/ Restart \/ Done
  \/ \E c \in LateCharges(asOf) : IngestCharge(c)
  \/ \E w \in LateRows(asOf) : IngestRow(w)
  \/ \E w \in rows : EditRow(w)
  \/ \E c \in charges : EditCharge(c)

(* A committed run is the only state with nothing left to do, so a deadlock
   would be a run that is stuck. *)
Spec == Init /\ [][Next]_vars

-----------------------------------------------------------------------------
TypeOK ==
  /\ pc \in {"start", "charges", "deciding", "committed", "aborted"}
  /\ \A d \in decided :
       /\ d.decision \in Decisions /\ d.status \in {"final", "pending"}
       /\ d.claim \in Nat /\ DOMAIN d.checks = CheckKeys
       /\ \A k \in CheckKeys : d.checks[k] \in Verdicts
  /\ faults \in 0..MaxFaults /\ Cardinality(edited) <= 1

(* No charge is dropped or decided twice: a run that commits has exactly one
   decision for every charge it read, whatever failed on the way (pipeline doc,
   "Every charge gets a persisted decision"; fail open). *)
CommitCoversSnapshot ==
  pc = "committed" =>
    /\ Cardinality(decided) = Cardinality(snap.charges)
    /\ {d.charge : d \in decided} = snap.charges

EvidenceCited(d) == {cite \in d.citations : cite.kind = "evidence"}

(* Whoever reads a CLAIM can defend it: it asks for something, at most what was
   charged and not paid back, and rests either on an earlier line with the same
   fingerprint or on final records alone, which between them passed every check
   that speaks to the defect charged, for every unit charged. *)
ClaimIsBacked ==
  \A d \in {x \in decided : x.decision = "CLAIM"} :
    /\ d.claim > 0 /\ d.claim + d.reimbursed <= d.charge.amount
    /\ \/ \E cite \in d.citations :
            /\ cite.role = "canonical_charge" /\ Earlier(cite.hash, d.charge)
            /\ Fingerprint(cite.hash) = Fingerprint(d.charge)
       \/ /\ d.charge.quantity = 1
          /\ DefectKeys(d.charge) = UNION {cite.keys : cite \in EvidenceCited(d)}
          /\ \A cite \in EvidenceCited(d) :
               cite.hash.status = "final" /\ \A k \in cite.keys : cite.hash.checks[k] = "PASS"

(* A fee is dismissed only with a cause: it is no charge, it is paid back, its
   deadline has passed on something that could have been claimed, or a final
   record of the unit failed a check. *)
DismissedWithCause ==
  \A d \in {x \in decided : x.decision = "DO_NOT_CLAIM" /\ IsFee(x.charge)} :
    \/ IsFeeRefundLine(d.charge) \/ d.charge.amount = 0
    \/ d.charge.amount > 0 /\ d.charge.amount - d.reimbursed <= 0
    \/ d.checks.within_filing_window = "FAIL"
         /\ (d.checks.not_duplicate = "FAIL" \/ d.evidence = "CONTRADICTED")
    \/ \E r \in snap.bodies :
         r.unit = d.charge.unit /\ r.status = "final" /\ \E k \in DOMAIN r.checks : r.checks[k] = "FAIL"

(* The labels that the assessments produce and the rows of loss_event_outcomes
   are kept in two files: the engine never raises because one lacks the other. *)
OutcomeTableIsComplete ==
  \A d \in decided : d.code = "ENGINE_ERROR" => snap.failed

(* The engine and the validator agree: without an edit of the store no decision
   is downgraded, however uploads interleave with the run.  (A negative refund
   line that is ambiguous lowers the sum of the cited refunds below what the
   other refunds paid, and is left out.) *)
UndisturbedRunValidates ==
  edited = {} =>
    \A d \in decided :
      d.rule = "R_CITATION_INVALID" =>
        \E cite \in d.citations : cite.role = "reimbursement" /\ cite.hash.amount < 0

(* Every stored decision is one the review is built for: claim_refusal and the
   override rules read it without knowing the evidence it came from. *)
ReviewCanReadIt ==
  \A d \in decided : ReviewView(d) \in EngineRecords(d.charge, snap.charges, asOf)

(* A decision becomes final only while what it cites is intact: the row holds
   what the run read and hashes to its indexed hash, and the lines are stored
   unchanged (validator doc; an owner's edit is the tested case). *)
FinalRestsOnIntactRows ==
  [][\A d \in decided' \ decided :
       d.status = "final" =>
         /\ d.charge \in charges
         /\ \A cite \in d.citations \ EvidenceCited(d) : cite.hash \in charges
         /\ \A cite \in EvidenceCited(d) :
              \E w \in CitedRow(cite, rows) :
                w.body \in snap.bodies /\ w.body.seal = Content(w.body) /\ w.column = w.body.seal]_vars

(* ARCHITECTURE.md:60 says evidence_present is PASS when "a usable record speaks
   to the charge". *)
PresentMeansARecordSpeaks ==
  \A d \in decided :
    d.checks.evidence_present = "PASS" => Usable(d.charge, snap.bodies) # {}

(* docs/DECISIONS.md:76 says that a citation validation failure leaves
   reason_code null. *)
DowngradeHasNoReasonCode ==
  \A d \in decided : d.rule = "R_CITATION_INVALID" => d.code = NoCode
=============================================================================
