------------------------------- MODULE Views -------------------------------
(***************************************************************************)
(* The pages of the review (backend/app/api/review.py): GET /decisions,    *)
(* which lists a run, and GET /decisions/{id}, which shows one decision.   *)
(* Each is one READ COMMITTED transaction of several SELECTs, so each of   *)
(* its parts sees what was committed when that part was read, while runs,  *)
(* reviewers and the owner of the tables go on.                            *)
(*                                                                         *)
(* A page sees what is committed and nothing else, so runs and reviewers   *)
(* are taken here as Review is shown to implement them: a run's decisions  *)
(* appear at once, and an override is appended to one history some time    *)
(* after its last look for a newer decision.                               *)
(***************************************************************************)
EXTENDS Integers, Sequences, FiniteSets, SequencesExt

CONSTANTS
  Lines,         \* the lines that are stored, all of which a run decides
  Runs,
  Decided,       \* what the engine decides
  Chosen,        \* what a reviewer may choose
  Pages,         \* requests for a page
  MaxEvents,     \* bound: overrides and changes of what a CLAIM rests on
  None

ASSUME NoneAssumption == None \notin Runs \X Lines

Decisions == {"CLAIM", "DO_NOT_CLAIM", "REVIEW"}

ASSUME DecidedAssumption == Runs \subseteq Nat /\ Decided \cup Chosen \subseteq Decisions

RecordIds == Runs \X Lines

(* The rows a decision rests on, by what a page says of them: the decided charge; its
   cited evidence; and what no page checks, the refund and canonical lines it cites and
   evidence that was rewritten together with its hash. *)
RowKinds == {"charge", "evidence", "other"}

VARIABLES
  clock,      \* the next decided_at
  runAt,      \* run -> its decided_at, or 0
  history,    \* record id -> its decisions, the engine's first; empty: not stored
  checked,    \* record id -> the override that has passed its last check, or None
  barred,     \* records of which claim_refusal_now says something
  broken,     \* kind of row -> records whose rows of it are not as they were decided on
  changes,    \* how often these two have changed
  page,       \* where a page is and what it has read
  fresh       \* the pages of a decision since whose first SELECT nothing of it was committed

claims == <<barred, broken, changes>>
store == <<clock, runAt, history, checked, claims>>
vars == <<store, page, fresh>>

At(p) == page[p].pc

(* What a page may have read, of a list and of one decision. *)
Unopened ==
  [pc |-> "idle", shown |-> None,
   run |-> None, latest |-> None, lines |-> None, past |-> None, after |-> None, newest |-> None,
   rec |-> None, asDecided |-> None, holds |-> None, line |-> None, overridable |-> None, entries |-> << >>,
   refusal |-> None]

Init ==
  /\ clock = 1 /\ runAt = [r \in Runs |-> 0]
  /\ history = [i \in RecordIds |-> << >>]
  /\ checked = [i \in RecordIds |-> None]
  /\ barred = {} /\ broken = [k \in RowKinds |-> {}] /\ changes = 0
  /\ page = [p \in Pages |-> Unopened] /\ fresh = {}

-----------------------------------------------------------------------------
(* The store. *)

Stored == {i \in RecordIds : history[i] # << >>}

Of(l) == {i \in Stored : i[2] = l}

DecidedAt(i) == runAt[i[1]]

Newest(S) == CHOOSE i \in S : \A j \in S : DecidedAt(j) <= DecidedAt(i)

IsNewest(i) == i \in Stored /\ i = Newest(Of(i[2]))

Overrides(h) == Len(h) - 1

Overridden == {i \in Stored : Overrides(history[i]) > 0}

Events ==
  changes + MapThenSumSet(LAMBDA i : Overrides(history[i]) + (IF checked[i] = None THEN 0 ELSE 1), Stored)

StartRun(r) ==
  /\ runAt[r] = 0
  /\ runAt' = [runAt EXCEPT ![r] = clock]
  /\ clock' = clock + 1
  /\ UNCHANGED <<history, checked, claims, page, fresh>>

(* A run's decisions are stored at once. *)
CommitRun(r) ==
  /\ runAt[r] # 0 /\ \A l \in Lines : history[<<r, l>>] = << >>
  /\ \E result \in [Lines -> Decided] :
       history' = [i \in RecordIds |-> IF i[1] = r THEN <<result[i[2]]>> ELSE history[i]]
  /\ fresh' = {}
  /\ UNCHANGED <<clock, runAt, checked, claims, page>>

(* The pages that show decision i. *)
Showing(i) == {p \in Pages : page[p].rec = i}

(* A refund arrives, a deadline passes, the owner edits a row: CLAIM is refused from now
   on, or not any more. *)
ClaimsChange(i) ==
  /\ Events < MaxEvents /\ i \in Stored
  /\ \/ barred' = SymDiff(barred, {i}) /\ UNCHANGED broken
     \/ /\ \E k \in RowKinds : broken' = [broken EXCEPT ![k] = SymDiff(@, {i})]
        /\ UNCHANGED barred
  /\ changes' = changes + 1
  /\ fresh' = fresh \ Showing(i)
  /\ UNCHANGED <<clock, runAt, history, checked, page>>

(* What apply_override accepts. *)
Accepts(i, d) ==
  /\ IsNewest(i) /\ d # Last(history[i])
  /\ d = "CLAIM" => i \notin barred /\ \A k \in RowKinds : i \notin broken[k]

Check(i, d) ==
  /\ checked[i] = None /\ Accepts(i, d)
  /\ Events < MaxEvents
  /\ checked' = [checked EXCEPT ![i] = d]
  /\ UNCHANGED <<clock, runAt, history, claims, page, fresh>>

(* A run may have committed a newer decision since. *)
CommitOverride(i) ==
  /\ checked[i] # None
  /\ history' = [history EXCEPT ![i] = Append(@, checked[i])]
  /\ checked' = [checked EXCEPT ![i] = None]
  /\ fresh' = fresh \ Showing(i)
  /\ UNCHANGED <<clock, runAt, claims, page>>

AbortOverride(i) ==
  /\ checked[i] # None
  /\ checked' = [checked EXCEPT ![i] = None]
  /\ UNCHANGED <<clock, runAt, history, claims, page, fresh>>

-----------------------------------------------------------------------------
(* GET /decisions: the runs, the decisions of one, their overrides, the newest
   override of each line.  A stored run does not change, so its decisions are
   read with it. *)

Listed(r) == {l \in Lines : history[<<r, l>>] # << >>}

StoredRuns == {i[1] : i \in Stored}

(* Slip: the run with the highest id comes first. *)
NewestRunById(S) == CHOOSE r \in S : \A s \in S : s <= r

(* list_runs: newest by decided_at first. *)
NewestRun(S) == CHOOSE r \in S : \A s \in S : runAt[s] <= runAt[r]

(* The run that was asked for, or else the newest. *)
OpenList(p) ==
  /\ At(p) = "idle"
  /\ \E r \in StoredRuns :
       page' = [page EXCEPT ![p] = [@ EXCEPT !.pc = "run", !.run = r,
                            !.latest = (r = NewestRun(StoredRuns)),
                            !.lines = Listed(r), !.past = Overridden,
                            !.after = {q \in Pages : At(q) = "listed"}]]
  /\ UNCHANGED <<store, fresh>>

(* overrides_by_record. *)
ReadOverrides(p) ==
  /\ At(p) = "run"
  /\ page' = [page EXCEPT ![p] = [@ EXCEPT !.pc = "overrides",
                          !.shown = [l \in page[p].lines |-> history[<<page[p].run, l>>]]]]
  /\ UNCHANGED <<store, fresh>>

(* newest_override_by_line: the decision of the line that bears it. *)
NewestOverride(l) ==
  LET S == Overridden \cap Of(l) IN IF S = {} THEN None ELSE Newest(S)

ReadNewest(p) ==
  /\ At(p) = "overrides"
  /\ page' = [page EXCEPT ![p] = [@ EXCEPT !.pc = "listed",
                          !.newest = [l \in page[p].lines |-> NewestOverride(l)]]]
  /\ UNCHANGED <<store, fresh>>

Shown(p, l) == page[p].shown[l]

(* Slip: of two runs the one with the higher id is taken for the later. *)
EarlierById(p, l) ==
  LET found == page[p].newest[l]
  IN  IF found = None \/ found[1] >= page[p].run THEN None ELSE found

(* _earlier_override: on an earlier run, or nothing. *)
EarlierOverride(p, l) ==
  LET found == page[p].newest[l]
  IN  IF found = None \/ DecidedAt(found) >= runAt[page[p].run] THEN None ELSE found

-----------------------------------------------------------------------------
(* GET /decisions/{id}: the decision and its overrides, its charge, its evidence, the
   line's decisions, the overrides of each of them, and whether CLAIM is refused. *)

OpenDecision(p) ==
  /\ At(p) = "idle"
  /\ \E i \in Stored :
       page' = [page EXCEPT ![p] = [@ EXCEPT !.pc = "record", !.rec = i, !.shown = history[i]]]
  /\ fresh' = fresh \cup {p}
  /\ UNCHANGED store

(* get_charge.  The deadline line says if it is not the charge that was decided. *)
ReadCharge(p) ==
  /\ At(p) = "record"
  /\ page' = [page EXCEPT ![p] = [@ EXCEPT !.pc = "charge",
                          !.asDecided = (page[p].rec \notin broken["charge"])]]
  /\ UNCHANGED <<store, fresh>>

(* hash_matches_decision and record_hash_verifies, of the evidence and of nothing else. *)
ReadEvidence(p) ==
  /\ At(p) = "charge"
  /\ page' = [page EXCEPT ![p] = [@ EXCEPT !.pc = "evidence",
                          !.holds = (page[p].rec \notin broken["evidence"])]]
  /\ UNCHANGED <<store, fresh>>

(* list_decisions_for_line: its last one decides whether the form may be used. *)
ReadLine(p) ==
  /\ At(p) = "evidence"
  /\ LET line == Of(page[p].rec[2])
     IN  page' = [page EXCEPT ![p] = [@ EXCEPT !.pc = "line", !.line = line,
                              !.overridable = (page[p].rec = Newest(line))]]
  /\ UNCHANGED <<store, fresh>>

Unread(p) == page[p].line \ {e[1] : e \in Range(page[p].entries)}

(* Slip: by the ids of the runs. *)
NextEntryById(p) == CHOOSE i \in Unread(p) : \A j \in Unread(p) : i[1] <= j[1]

(* Oldest first. *)
NextEntry(p) == CHOOSE i \in Unread(p) : \A j \in Unread(p) : DecidedAt(i) <= DecidedAt(j)

(* list_overrides of one of them, a statement each. *)
ReadEntry(p) ==
  /\ At(p) = "line" /\ Unread(p) # {}
  /\ LET i == NextEntry(p)
     IN  page' = [page EXCEPT ![p] = [@ EXCEPT !.entries = Append(page[p].entries, <<i, history[i]>>)]]
  /\ UNCHANGED <<store, fresh>>

(* Slip: what the decision itself said, not what the store says now. *)
ReadClaimAsDecided(p) ==
  /\ At(p) = "line" /\ Unread(p) = {}
  /\ page' = [page EXCEPT ![p] = [@ EXCEPT !.pc = "shown", !.refusal = FALSE]]
  /\ UNCHANGED <<store, fresh>>

(* claim_refusal_now. *)
ReadClaim(p) ==
  /\ At(p) = "line" /\ Unread(p) = {}
  /\ page' = [page EXCEPT ![p] = [@ EXCEPT !.pc = "shown", !.refusal = (page[p].rec \in barred)]]
  /\ UNCHANGED <<store, fresh>>

(* What the page offers. *)
Offers(p, d) ==
  /\ page[p].overridable /\ d # Last(page[p].shown)
  /\ d = "CLAIM" => ~page[p].refusal

-----------------------------------------------------------------------------
Review(i) ==
  CommitOverride(i) \/ AbortOverride(i) \/ ClaimsChange(i) \/ \E d \in Chosen : Check(i, d)

View(p) ==
  \/ OpenList(p) \/ ReadOverrides(p) \/ ReadNewest(p)
  \/ OpenDecision(p) \/ ReadCharge(p) \/ ReadEvidence(p) \/ ReadLine(p) \/ ReadEntry(p) \/ ReadClaim(p)

Next ==
  \/ \E r \in Runs : StartRun(r) \/ CommitRun(r)
  \/ \E i \in RecordIds : Review(i)
  \/ \E p \in Pages : View(p)

Spec == Init /\ [][Next]_vars

-----------------------------------------------------------------------------
(* Types. *)

PageFields(p) ==
  LET q == page[p]
  IN  CASE q.pc = "idle" -> TRUE
        [] q.pc \in {"run", "overrides", "listed"} ->
             /\ q.run \in StoredRuns /\ q.latest \in BOOLEAN
             /\ q.past \subseteq Overridden /\ q.after \subseteq Pages \ {p}
        [] q.pc \in {"record", "charge", "evidence", "line", "shown"} ->
             q.rec \in Stored /\ IsPrefix(q.shown, history[q.rec])

(* A stored decision is of a run that was dated; two decisions of a history that follow
   each other differ, and so would the one that is about to be stored. *)
TypeOK ==
  /\ clock \in Nat /\ runAt \in [Runs -> 0..(clock - 1)]
  /\ \A i \in RecordIds :
       /\ history[i] \in Seq(Decisions)
       /\ \A n \in 1..(Len(history[i]) - 1) : history[i][n] # history[i][n + 1]
       /\ checked[i] # None => i \in Stored /\ checked[i] \in Decisions \ {Last(history[i])}
  /\ \A i \in Stored : runAt[i[1]] # 0
  /\ barred \subseteq Stored /\ broken \in [RowKinds -> SUBSET Stored] /\ changes \in Nat
  /\ \A p \in Pages : PageFields(p)
  /\ fresh \subseteq {p \in Pages : At(p) \in {"record", "charge", "evidence", "line", "shown"}}

-----------------------------------------------------------------------------
(* Safety. *)

Finished(there) == {p \in Pages : At(p) = there}

Log == INSTANCE DecisionHistory WITH Records <- RecordIds, DecisionValues <- Decisions

(* Runs and reviewers keep here the promise that Review is shown to keep. *)
HistoriesOnlyGrow == Log!Spec

(* _earlier_override: "the newest human judgement stays visible".  A line that was
   overridden on an earlier run when the list was opened shows an override of its own,
   or one of an earlier run at least as new; unless a decision of it as new as the
   listed one has been overridden: on a list of an older run, or while the list was read. *)
JudgementStaysVisible ==
  \A p \in Finished("listed") : \A l \in page[p].lines :
    LET earlier == {i \in page[p].past : i[2] = l /\ DecidedAt(i) < runAt[page[p].run]}
        found == EarlierOverride(p, l)
    IN  \/ earlier = {}
        \/ Overrides(Shown(p, l)) > 0
        \/ found # None /\ \A i \in earlier : DecidedAt(i) <= DecidedAt(found)
        \/ \E i \in Overridden : i[2] = l /\ DecidedAt(i) >= runAt[page[p].run]

(* Reloading goes forward: a list of the newest run that was opened when another was
   shown lists a run dated no earlier, and shows no less of the overrides of one. *)
ReloadGoesForward ==
  \A p \in Finished("listed") : \A q \in page[p].after :
    page[p].latest /\ page[q].latest =>
      /\ runAt[page[q].run] <= runAt[page[p].run]
      /\ page[q].run = page[p].run => \A l \in page[q].lines : IsPrefix(Shown(q, l), Shown(p, l))

(* get_decision and apply_override ask the same questions in code of their own and at
   times of their own.  However old a page is, what it says is closed stays closed: a
   decision that a newer run has replaced is never overridden again.  And as long as no
   run has stored a newer decision, and nothing about this one has been committed, since
   the page's first read, a POST accepts exactly what the page offers; but for a CLAIM
   of which the page shows an edited charge or evidence row, and for one of the rows
   that no page checks: it is offered as if nothing were wrong, and refused. *)
OfferMatchesAnswer ==
  \A p \in Finished("shown") :
    LET rec == page[p].rec
        RowsHold == page[p].asDecided /\ page[p].holds /\ rec \notin broken["other"]
    IN  /\ \A d \in Decisions : Accepts(rec, d) => page[p].overridable
        /\ p \in fresh => \A d \in Decisions :
             Accepts(rec, d) <=> Offers(p, d) /\ (d = "CLAIM" => RowsHold)

(* A page of one decision agrees with itself, though its parts are read one after the
   other: its history of the line is in the order of the runs, ends with the decision
   that may be overridden, and shows of the page's decision no less than the page. *)
PageAgreesWithItself ==
  \A p \in Finished("shown") :
    LET entries == page[p].entries
    IN  /\ \A m, n \in DOMAIN entries : m < n => DecidedAt(entries[m][1]) < DecidedAt(entries[n][1])
        /\ page[p].overridable <=> Last(entries)[1] = page[p].rec
        /\ \E n \in DOMAIN entries :
             entries[n][1] = page[p].rec /\ IsPrefix(page[p].shown, entries[n][2])
=============================================================================
