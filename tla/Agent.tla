------------------------------- MODULE Agent -------------------------------
(***************************************************************************)
(* The three ways into the engine: POST /agent (backend/app/api/agent.py), *)
(* `alibi run` and `alibi ingest` (backend/app/cli.py), over one database. *)
(* A request is admitted, stores its lines in one transaction (Ingest has  *)
(* its inside) and decides every line of the organisation in another       *)
(* (Pipeline has its inside).  Between and during the two, other requests  *)
(* run, the database fails and processes die.                              *)
(***************************************************************************)
EXTENDS Naturals, FiniteSets

CONSTANTS
  Requests,
  Lines,
  Sendable     \* what a request may be: [kind, lines, key, names, sizes, files]

VARIABLES
  sent,        \* request -> what it is
  consistent,  \* does check_windows_consistent accept the rules and the config?
  pc,          \* request -> where it is, or the status it was answered with
  clock,       \* the next value of datetime.now(), which never repeats
  stamp,       \* request -> decided_at of its run
  snap,        \* request -> the lines list_charges gave its run
  charges,     \* the stored lines: [line, by, at]
  runs         \* the stored runs: [by, at, lines], a decision for each of the lines

vars == <<sent, consistent, pc, clock, stamp, snap, charges, runs>>

Kinds == {"post", "run", "ingest"}
FileStates == {"good", "malformed", "breaking"}

ASSUME SendableAssumption ==
  Sendable \subseteq [kind : Kinds, lines : SUBSET Lines, key : BOOLEAN, names : BOOLEAN,
                      sizes : BOOLEAN, files : FileStates]

Ongoing == {"arrived", "admitted", "uploaded", "started", "read", "committed"}
Statuses == {"200", "401", "413", "422", "500", "503", "ended", "failed", "killed"}

Kind(r) == sent[r].kind

Stored == {c.line : c \in charges}

Init ==
  /\ sent \in [Requests -> Sendable]
  /\ consistent \in BOOLEAN
  /\ pc = [r \in Requests |-> "arrived"]
  /\ clock = 1
  /\ stamp = [r \in Requests |-> 0]
  /\ snap = [r \in Requests |-> {}]
  /\ charges = {} /\ runs = {}

Goto(r, there) == pc' = [pc EXCEPT ![r] = there]

(* An exception nobody catches: the server answers 500, the command fails. *)
Unhandled(r) == IF Kind(r) = "post" THEN "500" ELSE "failed"

-----------------------------------------------------------------------------
(* Before anything is written: the key, the configuration, the files' names and
   their sizes, in this order. *)

(* Slip: the configuration is left for run_org to check. *)
AdmissionUnchecked(q) ==
  IF ~q.key THEN "401" ELSE IF ~q.names THEN "422" ELSE IF ~q.sizes THEN "413" ELSE "admitted"

Admission(q) ==
  IF ~q.key THEN "401"
  ELSE IF ~consistent THEN "500"
  ELSE IF ~q.names THEN "422"
  ELSE IF ~q.sizes THEN "413"
  ELSE "admitted"

Admit(r) ==
  /\ pc[r] = "arrived"
  /\ Goto(r, IF Kind(r) = "post" THEN Admission(sent[r]) ELSE "admitted")
  /\ UNCHANGED <<sent, consistent, clock, stamp, snap, charges, runs>>

-----------------------------------------------------------------------------
(* ingest_org.  A line that is stored keeps its first storer. *)

(* Slip: an upload takes over what is stored already. *)
WithLinesTakenOver(r) ==
  {[line |-> l, by |-> r, at |-> clock] : l \in sent[r].lines \cup Stored}

WithLines(r) ==
  charges \cup {[line |-> l, by |-> r, at |-> clock] : l \in sent[r].lines \ Stored}

Upload(r) ==
  /\ pc[r] = "admitted" /\ sent[r].files = "good"
  /\ charges' = WithLines(r)
  /\ Goto(r, IF Kind(r) = "ingest" THEN "ended" ELSE "uploaded")
  /\ UNCHANGED <<sent, consistent, clock, stamp, snap, runs>>

(* The files are read before the transaction begins. *)
UploadRefused(r) ==
  /\ pc[r] = "admitted" /\ sent[r].files # "good"
  /\ Goto(r, IF Kind(r) = "post" /\ sent[r].files = "malformed" THEN "422" ELSE Unhandled(r))
  /\ UNCHANGED <<sent, consistent, clock, stamp, snap, charges, runs>>

(* The database fails; whether before or after it committed, nobody is told. *)
Unavailable(r) == IF Kind(r) = "post" THEN "503" ELSE "failed"

UploadFails(r) ==
  /\ pc[r] = "admitted" /\ sent[r].files = "good"
  /\ charges' \in {charges, WithLines(r)}
  /\ Goto(r, Unavailable(r))
  /\ UNCHANGED <<sent, consistent, clock, stamp, snap, runs>>

-----------------------------------------------------------------------------
(* run_org. *)

(* The configuration is checked, then the run is dated; nothing is read yet. *)
Start(r) ==
  /\ pc[r] = "uploaded"
  /\ IF consistent
       THEN /\ Goto(r, "started")
            /\ stamp' = [stamp EXCEPT ![r] = clock]
            /\ clock' = clock + 1
       ELSE Goto(r, Unhandled(r)) /\ UNCHANGED <<stamp, clock>>
  /\ UNCHANGED <<sent, consistent, snap, charges, runs>>

(* Slip: a run decides what its own request brought. *)
ReadOwn(r) ==
  /\ pc[r] = "started"
  /\ Goto(r, "read")
  /\ snap' = [snap EXCEPT ![r] = {c.line : c \in {x \in charges : x.by = r}}]
  /\ UNCHANGED <<sent, consistent, clock, stamp, charges, runs>>

(* list_charges: every line of the organisation, whoever brought it. *)
Read(r) ==
  /\ pc[r] = "started"
  /\ Goto(r, "read")
  /\ snap' = [snap EXCEPT ![r] = Stored]
  /\ UNCHANGED <<sent, consistent, clock, stamp, charges, runs>>

WithRun(r) == runs \cup {[by |-> r, at |-> stamp[r], lines |-> snap[r]]}

(* Slip: a run is dated when it is stored. *)
CommitDated(r) ==
  /\ pc[r] = "read"
  /\ stamp' = [stamp EXCEPT ![r] = clock]
  /\ clock' = clock + 1
  /\ runs' = runs \cup {[by |-> r, at |-> clock, lines |-> snap[r]]}
  /\ Goto(r, "committed")
  /\ UNCHANGED <<sent, consistent, snap, charges>>

Commit(r) ==
  /\ pc[r] = "read"
  /\ runs' = WithRun(r)
  /\ Goto(r, "committed")
  /\ UNCHANGED <<sent, consistent, clock, stamp, snap, charges>>

RunFails(r) ==
  /\ \/ pc[r] = "started" /\ UNCHANGED runs
     \/ pc[r] = "read" /\ runs' \in {runs, WithRun(r)}
  /\ Goto(r, Unavailable(r))
  /\ UNCHANGED <<sent, consistent, clock, stamp, snap, charges>>

(* The decisions of this run are the answer. *)
Answer(r) ==
  /\ pc[r] = "committed"
  /\ Goto(r, IF Kind(r) = "post" THEN "200" ELSE "ended")
  /\ UNCHANGED <<sent, consistent, clock, stamp, snap, charges, runs>>

-----------------------------------------------------------------------------
(* Processes: one server for the posts, one for each command.  An open
   transaction of theirs is rolled back. *)

Killed(D) ==
  /\ D # {}
  /\ pc' = [r \in Requests |-> IF r \in D THEN "killed" ELSE pc[r]]
  /\ UNCHANGED <<sent, consistent, clock, stamp, snap, charges, runs>>

ServerDies == Killed({r \in Requests : Kind(r) = "post" /\ pc[r] \in Ongoing})

CommandDies(r) == Kind(r) # "post" /\ pc[r] \in Ongoing /\ Killed({r})

Step(r) ==
  \/ Admit(r)
  \/ Upload(r) \/ UploadRefused(r) \/ UploadFails(r)
  \/ Start(r) \/ Read(r) \/ Commit(r) \/ RunFails(r) \/ Answer(r)
  \/ CommandDies(r)

Next == (\E r \in Requests : Step(r)) \/ ServerDies

Spec == Init /\ [][Next]_vars

-----------------------------------------------------------------------------
(* Types.  A line was stored by a request that sends it; no date is ahead of
   the clock. *)
TypeOK ==
  /\ sent \in [Requests -> Sendable]
  /\ consistent \in BOOLEAN
  /\ pc \in [Requests -> Ongoing \cup Statuses]
  /\ clock \in Nat \ {0}
  /\ stamp \in [Requests -> Nat]
  /\ snap \in [Requests -> SUBSET Lines]
  /\ charges \subseteq [line : Lines, by : Requests, at : Nat]
  /\ runs \subseteq [by : Requests, at : Nat, lines : SUBSET Lines]
  /\ \A r \in Requests : stamp[r] < clock
  /\ \A c \in charges : c.at <= clock /\ c.line \in sent[c.by].lines
  /\ \A n \in runs : n.at < clock

-----------------------------------------------------------------------------
(* Safety. *)

(* post_agent's order of checks: a request that was refused, for its key, its files or
   the configuration, has stored nothing; only a failure of the database or of the
   process, or a command that found the configuration bad, leaves lines behind. *)
RefusedStoresNothing ==
  \A c \in charges :
    /\ pc[c.by] \notin {"401", "413", "422", "500"}
    /\ Kind(c.by) = "post" => consistent

(* The answer is one decision per charge: a request that is answered 200 has a stored
   run of its own that decides every line it sent, whoever stored the line first. *)
AnsweredListIsComplete ==
  \A r \in Requests : pc[r] = "200" =>
    \E n \in runs : n.by = r /\ sent[r].lines \subseteq n.lines

(* A run decides every line that was stored when it was dated, so a line that a request
   left undecided is decided by whichever run is dated next and commits. *)
RunsCoverTheirPast ==
  \A n \in runs, c \in charges : c.at <= n.at => c.line \in n.lines

NewestRun(n) == n \in runs /\ \A m \in runs : m.at <= n.at

(* GET /decisions without a run shows the newest by decided_at (list_runs).  However runs
   overlap, that one decides every line that a finished request has decided. *)
NewestRunIsComplete ==
  \A n \in runs : NewestRun(n) =>
    \A r \in Requests : pc[r] \in {"committed", "200"} => sent[r].lines \subseteq n.lines

(* What a request was told stays visible: its lines are decided in its own run and in
   the one that the review shows. *)
FinishedRequestsAreDecided == AnsweredListIsComplete /\ NewestRunIsComplete
=============================================================================
