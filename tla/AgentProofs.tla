---------------------------- MODULE AgentProofs ----------------------------
(***************************************************************************)
(* Proofs about Agent, for any requests, lines and overlaps.               *)
(***************************************************************************)
EXTENDS Agent, TLAPS

(* A post is past the checks only with a configuration that was accepted. *)
PostsAreChecked ==
  \A r \in Requests : Kind(r) = "post" /\ pc[r] \in (Ongoing \ {"arrived"}) => consistent

StorersUploaded == \A c \in charges : pc[c.by] \notin {"arrived", "admitted"}

Uploaded == {"uploaded", "started", "read", "committed", "200"}

(* What a request sent is stored from its upload on, and was when its run was dated. *)
UploadedIsStored ==
  \A r \in Requests : pc[r] \in Uploaded =>
    \A l \in sent[r].lines : \E c \in charges : c.line = l /\ (pc[r] = "uploaded" \/ c.at <= stamp[r])

CommittedHasRun ==
  \A r \in Requests : pc[r] \in {"committed", "200"} =>
    \E n \in runs : n.by = r /\ n.at = stamp[r] /\ sent[r].lines \subseteq n.lines

(* What a run has read covers what was stored by the time of its date. *)
ReadCovers ==
  \A r \in Requests : pc[r] = "read" => \A c \in charges : c.at <= stamp[r] => c.line \in snap[r]

Flow == PostsAreChecked /\ StorersUploaded /\ UploadedIsStored /\ CommittedHasRun

Inv == TypeOK /\ Flow /\ RefusedStoresNothing /\ ReadCovers /\ RunsCoverTheirPast

LEMMA TypeInit == Init => TypeOK
BY DEF Init, TypeOK, Ongoing, Statuses

LEMMA AdmissionType == ASSUME NEW q PROVE Admission(q) \in {"401", "500", "422", "413", "admitted"}
BY DEF Admission

(* Every step keeps the types. *)
LEMMA TypeStep == TypeOK /\ [Next]_vars => TypeOK'
<1> SUFFICES ASSUME TypeOK, [Next]_vars PROVE TypeOK'
  OBVIOUS
<1> USE SendableAssumption DEF TypeOK, Goto, Kind, Unhandled, Unavailable, Ongoing, Statuses
<1>1. ASSUME NEW r \in Requests, Admit(r) PROVE TypeOK'
  BY <1>1, AdmissionType DEF Admit
<1>2. ASSUME NEW r \in Requests PROVE WithLines(r) \subseteq [line : Lines, by : Requests, at : Nat]
  BY <1>2 DEF WithLines
<1>3. ASSUME NEW r \in Requests
      PROVE \A c \in WithLines(r) : c.at <= clock /\ c.line \in sent[c.by].lines
  BY <1>3 DEF WithLines
<1>4. ASSUME NEW r \in Requests, Upload(r) PROVE TypeOK'
  BY <1>2, <1>3, <1>4 DEF Upload
<1>5. ASSUME NEW r \in Requests, UploadRefused(r) PROVE TypeOK'
  BY <1>5 DEF UploadRefused
<1>6. ASSUME NEW r \in Requests, UploadFails(r) PROVE TypeOK'
  BY <1>2, <1>3, <1>6 DEF UploadFails
<1>7. ASSUME NEW r \in Requests, Start(r) PROVE TypeOK'
  BY <1>7 DEF Start
<1>8. ASSUME NEW r \in Requests, Read(r) PROVE TypeOK'
  BY <1>8 DEF Read, Stored
<1>9. ASSUME NEW r \in Requests
      PROVE /\ WithRun(r) \subseteq [by : Requests, at : Nat, lines : SUBSET Lines]
            /\ \A n \in WithRun(r) : n.at < clock
  BY <1>9 DEF WithRun
<1>10. ASSUME NEW r \in Requests, Commit(r) PROVE TypeOK'
  BY <1>9, <1>10 DEF Commit
<1>11. ASSUME NEW r \in Requests, RunFails(r) PROVE TypeOK'
  BY <1>9, <1>11 DEF RunFails
<1>12. ASSUME NEW r \in Requests, Answer(r) PROVE TypeOK'
  BY <1>12 DEF Answer
<1>13. ASSUME NEW D, Killed(D) PROVE TypeOK'
  BY <1>13 DEF Killed
<1>14. CASE UNCHANGED vars
  BY <1>14 DEF vars
<1> QED
  BY <1>1, <1>4, <1>5, <1>6, <1>7, <1>8, <1>10, <1>11, <1>12, <1>13, <1>14
     DEF Next, Step, CommandDies, ServerDies

-----------------------------------------------------------------------------
(* Every step keeps the rest. *)

(* An upload adds lines of its request, dated now, and then all of them are stored. *)
LEMMA UploadAdds ==
  ASSUME TypeOK, NEW r \in Requests
  PROVE /\ charges \subseteq WithLines(r)
        /\ \A c \in WithLines(r) : c \in charges \/ (c.by = r /\ c.at = clock)
        /\ \A l \in sent[r].lines : \E c \in WithLines(r) : c.line = l
<1>1. ASSUME NEW l \in sent[r].lines PROVE \E c \in WithLines(r) : c.line = l
  <2>1. CASE l \in Stored
    BY <2>1 DEF Stored, WithLines
  <2>2. CASE l \notin Stored
    <3>1. [line |-> l, by |-> r, at |-> clock] \in WithLines(r)
      BY <2>2, <1>1 DEF WithLines
    <3> QED
      BY <3>1
  <2> QED
    BY <2>1, <2>2
<1> QED
  BY <1>1 DEF WithLines

LEMMA InvStep == Inv /\ [Next]_vars => Inv'
<1> SUFFICES ASSUME Inv, [Next]_vars PROVE Inv'
  OBVIOUS
<1> USE DEF Inv, Goto, Kind, Unhandled, Unavailable, Ongoing, Statuses, Uploaded
<1> DEFINE Rest == Flow /\ RefusedStoresNothing /\ ReadCovers /\ RunsCoverTheirPast
<1>1. TypeOK'
  BY TypeStep
<1>2. ASSUME NEW r \in Requests, pc[r] = "arrived", UNCHANGED <<sent, consistent, clock, stamp, snap, charges, runs>>,
             Admit(r)
      PROVE Rest'
  BY <1>2 DEF Admit, Admission, TypeOK, Flow, PostsAreChecked, StorersUploaded, UploadedIsStored,
              CommittedHasRun, RefusedStoresNothing, ReadCovers, RunsCoverTheirPast
(* Both ways an upload can end after it has written. *)
<1>3. ASSUME NEW r \in Requests, NEW there \in {"uploaded", "ended", "503", "failed"},
             pc[r] = "admitted", Goto(r, there),
             charges' = WithLines(r) \/ (charges' = charges /\ there # "uploaded"),
             UNCHANGED <<sent, consistent, clock, stamp, snap, runs>>
      PROVE Rest'
  <2>1. /\ charges \subseteq charges'
        /\ \A c \in charges' : c \in charges \/ (c.by = r /\ c.at = clock)
        /\ there = "uploaded" => \A l \in sent[r].lines : \E c \in charges' : c.line = l
    BY <1>3, UploadAdds
  <2>2. PostsAreChecked' /\ StorersUploaded' /\ CommittedHasRun'
    BY <1>3, <2>1 DEF TypeOK, Flow, PostsAreChecked, StorersUploaded, CommittedHasRun
  <2>3. RefusedStoresNothing'
    BY <1>3, <2>1 DEF TypeOK, Flow, PostsAreChecked, RefusedStoresNothing
  <2>4. UploadedIsStored'
    <3> SUFFICES ASSUME NEW s \in Requests, pc'[s] \in Uploaded, NEW l \in sent[s].lines
                 PROVE \E c \in charges' : c.line = l /\ (pc'[s] = "uploaded" \/ c.at <= stamp[s])
      BY <1>3 DEF UploadedIsStored
    <3>1. CASE s = r
      BY <3>1, <1>3, <2>1 DEF TypeOK
    <3>2. CASE s # r
      BY <3>2, <1>3, <2>1 DEF TypeOK, Flow, UploadedIsStored
    <3> QED
      BY <3>1, <3>2
  <2>5. \A s \in Requests : ~(clock <= stamp[s])
    BY DEF TypeOK
  <2>6. \A n \in runs : ~(clock <= n.at)
    BY DEF TypeOK
  <2>7. ReadCovers'
    BY <1>3, <2>1, <2>5 DEF TypeOK, ReadCovers
  <2>8. RunsCoverTheirPast'
    BY <1>3, <2>1, <2>6 DEF TypeOK, RunsCoverTheirPast
  <2> QED
    BY <2>2, <2>3, <2>4, <2>7, <2>8 DEF Flow
<1>4. ASSUME NEW r \in Requests, UploadRefused(r) PROVE Rest'
  BY <1>4 DEF UploadRefused, TypeOK, Flow, PostsAreChecked, StorersUploaded, UploadedIsStored,
              CommittedHasRun, RefusedStoresNothing, ReadCovers, RunsCoverTheirPast
<1>5. ASSUME NEW r \in Requests, Start(r) PROVE Rest'
  BY <1>5 DEF Start, TypeOK, Flow, PostsAreChecked, StorersUploaded, UploadedIsStored,
              CommittedHasRun, RefusedStoresNothing, ReadCovers, RunsCoverTheirPast
<1>6. ASSUME NEW r \in Requests, Read(r) PROVE Rest'
  BY <1>6 DEF Read, Stored, TypeOK, Flow, PostsAreChecked, StorersUploaded, UploadedIsStored,
              CommittedHasRun, RefusedStoresNothing, ReadCovers, RunsCoverTheirPast
(* A run is stored as it was read, whether or not its request hears of it. *)
<1>7. ASSUME NEW r \in Requests, pc[r] = "read", NEW there \in {"committed", "503", "failed"},
             Goto(r, there), runs' = WithRun(r) \/ (runs' = runs /\ there # "committed"),
             UNCHANGED <<sent, consistent, clock, stamp, snap, charges>>
      PROVE Rest'
  <2>1. /\ runs \subseteq runs'
        /\ \A n \in runs' : n \in runs \/ (n.at = stamp[r] /\ n.lines = snap[r])
        /\ there = "committed" => \E n \in runs' : n.by = r /\ n.at = stamp[r] /\ n.lines = snap[r]
    <3>1. [by |-> r, at |-> stamp[r], lines |-> snap[r]] \in WithRun(r)
      BY DEF WithRun
    <3>2. CASE runs' = WithRun(r)
      <4>1. \E n \in runs' : n.by = r /\ n.at = stamp[r] /\ n.lines = snap[r]
        BY <3>1, <3>2
      <4>2. \A n \in runs' : n \in runs \/ n = [by |-> r, at |-> stamp[r], lines |-> snap[r]]
        BY <3>2 DEF WithRun
      <4>3. runs \subseteq runs'
        BY <3>2 DEF WithRun
      <4> QED
        BY <4>1, <4>2, <4>3
    <3>3. CASE runs' = runs /\ there # "committed"
      BY <3>3
    <3> QED
      BY <1>7, <3>2, <3>3
  <2>2. sent[r].lines \subseteq snap[r]
    BY <1>7 DEF Flow, UploadedIsStored, ReadCovers
  <2>3. PostsAreChecked' /\ StorersUploaded' /\ UploadedIsStored' /\ RefusedStoresNothing' /\ ReadCovers'
    BY <1>7 DEF TypeOK, Flow, PostsAreChecked, StorersUploaded, UploadedIsStored, RefusedStoresNothing,
                ReadCovers
  <2>4. CommittedHasRun'
    BY <1>7, <2>1, <2>2 DEF TypeOK, Flow, CommittedHasRun
  <2>5. RunsCoverTheirPast'
    BY <1>7, <2>1 DEF TypeOK, ReadCovers, RunsCoverTheirPast
  <2> QED
    BY <2>3, <2>4, <2>5 DEF Flow
<1>8. ASSUME NEW r \in Requests, pc[r] \in {"started", "committed"},
             NEW there \in {"200", "ended", "503", "failed"}, Goto(r, there),
             there = "200" => pc[r] = "committed",
             UNCHANGED <<sent, consistent, clock, stamp, snap, charges, runs>>
      PROVE Rest'
  BY <1>8 DEF TypeOK, Flow, PostsAreChecked, StorersUploaded, UploadedIsStored,
              CommittedHasRun, RefusedStoresNothing, ReadCovers, RunsCoverTheirPast
<1>9. ASSUME NEW D, Killed(D) PROVE Rest'
  BY <1>9 DEF Killed, TypeOK, Flow, PostsAreChecked, StorersUploaded, UploadedIsStored,
              CommittedHasRun, RefusedStoresNothing, ReadCovers, RunsCoverTheirPast
<1>10. ASSUME UNCHANGED vars PROVE Rest'
  <2> USE <1>10 DEF vars
  <2>1. PostsAreChecked' /\ StorersUploaded' /\ UploadedIsStored' /\ CommittedHasRun'
    BY DEF Flow, PostsAreChecked, StorersUploaded, UploadedIsStored, CommittedHasRun
  <2>2. RefusedStoresNothing'
    BY DEF RefusedStoresNothing
  <2>3. ReadCovers'
    BY DEF ReadCovers
  <2>4. RunsCoverTheirPast'
    BY DEF RunsCoverTheirPast
  <2> QED
    BY <2>1, <2>2, <2>3, <2>4 DEF Flow
<1>11. ASSUME NEW r \in Requests, Step(r) PROVE Rest'
  <2>1. CASE Admit(r)
    BY <2>1, <1>2 DEF Admit
  <2>2. CASE Upload(r) \/ UploadFails(r)
    BY <2>2, <1>3 DEF Upload, UploadFails
  <2>3. CASE Commit(r)
    BY <2>3, <1>7 DEF Commit
  <2>4. CASE RunFails(r)
    BY <2>4, <1>7, <1>8 DEF RunFails
  <2>5. CASE Answer(r)
    BY <2>5, <1>8 DEF Answer
  <2> QED
    BY <1>4, <1>5, <1>6, <1>9, <1>11, <2>1, <2>2, <2>3, <2>4, <2>5 DEF Step, CommandDies
<1>12. Rest'
  BY <1>9, <1>10, <1>11 DEF Next, ServerDies
<1> QED
  BY <1>1, <1>12

LEMMA InvInit == Init => Inv
BY TypeInit DEF Init, Inv, Flow, PostsAreChecked, StorersUploaded, UploadedIsStored, Uploaded, Ongoing,
   CommittedHasRun, RefusedStoresNothing, ReadCovers, RunsCoverTheirPast

(* The state of Agent always has its type: dates are never ahead of the clock. *)
THEOREM TypeCorrect == Spec => []TypeOK
<1>1. Init => TypeOK
  BY TypeInit
<1>2. TypeOK /\ [Next]_vars => TypeOK'
  BY TypeStep
<1> QED
  BY <1>1, <1>2, PTL DEF Spec

THEOREM FlowInvariant == Spec => []Inv
<1>1. Init => Inv
  BY InvInit
<1>2. Inv /\ [Next]_vars => Inv'
  BY InvStep
<1> QED
  BY <1>1, <1>2, PTL DEF Spec

(* A request that was refused has stored nothing (post_agent's order of checks). *)
THEOREM RefusalsStoreNothing == Spec => []RefusedStoresNothing
<1>1. Inv => RefusedStoresNothing
  BY DEF Inv
<1> QED
  BY <1>1, FlowInvariant, PTL

(* A request that is answered has a run that decides every line it sent. *)
THEOREM AnswersAreComplete == Spec => []AnsweredListIsComplete
<1>1. Inv => AnsweredListIsComplete
  BY DEF Inv, Flow, CommittedHasRun, AnsweredListIsComplete
<1> QED
  BY <1>1, FlowInvariant, PTL

(* A run decides every line that was stored when it was dated. *)
THEOREM RunsAlwaysCover == Spec => []RunsCoverTheirPast
<1>1. Inv => RunsCoverTheirPast
  BY DEF Inv
<1> QED
  BY <1>1, FlowInvariant, PTL

(* The newest run by date decides every line a finished request has decided. *)
THEOREM NewestIsComplete == Spec => []NewestRunIsComplete
<1>1. Inv => NewestRunIsComplete
  <2> SUFFICES ASSUME Inv, NEW n \in runs, NewestRun(n),
                      NEW r \in Requests, pc[r] \in {"committed", "200"}, NEW l \in sent[r].lines
               PROVE l \in n.lines
    BY DEF NewestRunIsComplete
  <2>1. PICK m \in runs : m.at = stamp[r]
    BY DEF Inv, Flow, CommittedHasRun
  <2>2. PICK c \in charges : c.line = l /\ c.at <= stamp[r]
    BY DEF Inv, Flow, UploadedIsStored, Uploaded
  <2>3. c.at <= n.at
    BY <2>1, <2>2 DEF NewestRun, Inv, TypeOK
  <2> QED
    BY <2>2, <2>3 DEF Inv, RunsCoverTheirPast
<1> QED
  BY <1>1, FlowInvariant, PTL

(* So nothing a finished request was told is ever taken back. *)
THEOREM FinishedAreDecided == Spec => []FinishedRequestsAreDecided
<1>1. AnsweredListIsComplete /\ NewestRunIsComplete => FinishedRequestsAreDecided
  BY DEF FinishedRequestsAreDecided
<1> QED
  BY <1>1, AnswersAreComplete, NewestIsComplete, PTL
=============================================================================
