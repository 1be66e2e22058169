------------------------------ MODULE Explain ------------------------------
(***************************************************************************)
(* Explanations inside a run (backend/app/llm/explain.py, called by the    *)
(* loop of run_org).  Several runs of one organisation decide the same     *)
(* lines, in the order of list_charges, each in one transaction: they ask  *)
(* a model one line at a time and share its texts in a table keyed by      *)
(* trace hash, where the first text stored stays.  An INSERT of a hash     *)
(* waits while another run that has not ended holds it.                    *)
(*                                                                         *)
(* Time passes while the model is being asked or an INSERT waits; the      *)
(* rest of a run takes none.  Every run decides a line alike, so a line    *)
(* stands for its trace hash.                                              *)
(***************************************************************************)
EXTENDS ExplanationText, Naturals, Sequences, SequencesExt

CONSTANTS
  Runs,
  Order,       \* the lines, as list_charges orders them
  Texts,       \* what the model may answer
  Leftover,    \* the texts stored before, by an earlier version: line -> text, on some lines
  Budget,      \* LLM_RUN_BUDGET_S
  Timeout      \* LLM_TIMEOUT_S

ASSUME TimesAssumption == Budget \in Nat \ {0} /\ Timeout \in Nat \ {0}

Decisions == {"CLAIM", "DO_NOT_CLAIM", "REVIEW"}
RecordStatuses == {"pending", "final"}

(* A line is listed once. *)
ASSUME OrderAssumption ==
  /\ Order \in Seq(Range(Order))
  /\ \A i, j \in DOMAIN Order : Order[i] = Order[j] => i = j
  /\ \A l \in Range(Order) : DecisionOf[l] \in [decision : Decisions, status : RecordStatuses]

ASSUME TextsAssumption == None \notin Texts /\ DOMAIN Leftover \subseteq Range(Order)

VARIABLES
  config,      \* run -> whether its explainer has a provider
  pc,          \* run -> where it is
  now,         \* time.monotonic()
  begun,       \* run -> when its explainer was made
  called,      \* run -> when the call it is waiting for began
  answer,      \* run -> the text it is about to store
  records,     \* run -> the records it has inserted
  mine,        \* run -> the cache rows it has inserted: <<line, text>>
  cache,       \* the committed cache rows
  billed,      \* run -> the lines whose call the provider has charged for
  waited       \* run -> for how long its INSERTs have waited

vars == <<config, pc, now, begun, called, answer, records, mine, cache, billed, waited>>

(* Off, or on with settings that are refused: no provider either way. *)
Configs == {"off", "on"}

Places == {"waiting", "explaining", "calling", "storing", "done", "failed"}

Active(r) == pc[r] \notin {"waiting", "done", "failed"}

(* Slip: a run that begins later goes through the lines from the last to the first. *)
LineBackwards(r) ==
  Order[IF begun[r] = 0 THEN Len(records[r]) + 1 ELSE Len(Order) - Len(records[r])]

(* The line a run is at. *)
Line(r) == Order[Len(records[r]) + 1]

Deadline(r) == begun[r] + Budget

Leftovers == {<<l, Leftover[l]>> : l \in DOMAIN Leftover}

Goto(r, there) == pc' = [pc EXCEPT ![r] = there]

Init ==
  /\ config \in [Runs -> Configs]
  /\ pc = [r \in Runs |-> "waiting"]
  /\ now = 0
  /\ begun = [r \in Runs |-> 0]
  /\ called = [r \in Runs |-> 0]
  /\ answer = [r \in Runs |-> None]
  /\ records = [r \in Runs |-> << >>]
  /\ mine = [r \in Runs |-> {}]
  /\ cache = Leftovers
  /\ billed = [r \in Runs |-> {}]
  /\ waited = [r \in Runs |-> 0]

-----------------------------------------------------------------------------
(* Records.  tokens says whether the explanation carries a call's tokens, why stands for
   its fallback_reason. *)

Record(l, decision, status, source, text, tokens, why) ==
  [line |-> l, decision |-> decision, status |-> status, source |-> source, text |-> text,
   tokens |-> tokens, why |-> why]

(* explain: the decision with its explanation. *)
Explained(l, source, text, tokens, why) ==
  Record(l, DecisionOf[l].decision, DecisionOf[l].status, source, text, tokens, why)

Template(l, why) == Explained(l, "template", None, FALSE, why)

(* Slip: the tokens of a text that is not used are forgotten. *)
PaidTemplateUnpaid(l) == Template(l, "rejected")

(* The call was made and paid for, even though its text is not used. *)
PaidTemplate(l) == Explained(l, "template", None, TRUE, "rejected")

(* fail_open_decision, explained by the template. *)
FailOpen(l) == Record(l, "REVIEW", "pending", "template", None, FALSE, "failed open")

(* The loop of run_org inserts the record; or that fails and the line fails open, and
   its savepoint takes the line's cache row back with it. *)
EndLine(r, record, rows) ==
  /\ \/ /\ records' = [records EXCEPT ![r] = Append(@, record)]
        /\ mine' = [mine EXCEPT ![r] = rows]
     \/ /\ records' = [records EXCEPT ![r] = Append(@, FailOpen(Line(r)))]
        /\ mine' = [mine EXCEPT ![r] = {row \in @ : row[1] # Line(r)}]
  /\ Goto(r, "explaining")

-----------------------------------------------------------------------------
(* explanation_for, up to its call of the model. *)

Begin(r) ==
  /\ pc[r] = "waiting"
  /\ Goto(r, "explaining")
  /\ begun' = [begun EXCEPT ![r] = now]
  /\ UNCHANGED <<config, now, called, answer, records, mine, cache, billed, waited>>

AtLine(r) == pc[r] = "explaining" /\ Len(records[r]) < Len(Order)

Outside == <<config, now, begun, cache, waited>>

(* _decide_one raises. *)
DecidingFails(r) ==
  /\ AtLine(r)
  /\ EndLine(r, FailOpen(Line(r)), mine[r])
  /\ UNCHANGED <<called, answer, billed>> /\ UNCHANGED Outside

(* The explanation step fails, once or twice, before a call. *)
ExplainingFails(r) ==
  /\ AtLine(r)
  /\ EndLine(r, Template(Line(r), "step failed"), mine[r])
  /\ UNCHANGED <<called, answer, billed>> /\ UNCHANGED Outside

IsSent(r) == AtLine(r) /\ config[r] = "on" /\ DecisionOf[Line(r)].status # "pending"

(* No provider, or a record that is not sent. *)
WithoutModel(r) ==
  /\ AtLine(r) /\ ~IsSent(r)
  /\ EndLine(r, Template(Line(r), "no call"), mine[r])
  /\ UNCHANGED <<called, answer, billed>> /\ UNCHANGED Outside

(* What a SELECT finds of a line: committed rows and those of this run. *)
Found(r) == {row[2] : row \in {x \in cache \cup mine[r] : x[1] = Line(r)}}

(* Slip: a stored text is used as it is. *)
HitUnchecked(r) == Found(r)

(* A stored text is validated like a new one. *)
Hit(r) == {t \in Found(r) : Accepts(t, Trace(Line(r)))}

FromCache(r) ==
  /\ IsSent(r)
  /\ \E t \in Hit(r) : EndLine(r, Explained(Line(r), "model", t, FALSE, "cached"), mine[r])
  /\ UNCHANGED <<called, answer, billed>> /\ UNCHANGED Outside

(* Slip: no budget. *)
InTimeAlways(r) == now >= begun[r]

InTime(r) == now <= Deadline(r)

(* No text that can be used, or the SELECT fails, which counts for none: a run may
   pass over what is there. *)
OutOfTime(r) ==
  /\ IsSent(r) /\ ~InTime(r)
  /\ EndLine(r, Template(Line(r), "no call"), mine[r])
  /\ UNCHANGED <<called, answer, billed>> /\ UNCHANGED Outside

Ask(r) ==
  /\ IsSent(r) /\ InTime(r)
  /\ called' = [called EXCEPT ![r] = now]
  /\ Goto(r, "calling")
  /\ UNCHANGED <<answer, records, mine, billed>> /\ UNCHANGED Outside

-----------------------------------------------------------------------------
(* The model answers with a text, or the call fails.  One attempt. *)

Billed(r) == [billed EXCEPT ![r] = @ \cup {Line(r)}]

(* The call ends without a text that anybody looks at; whether it was charged for is not
   known here. *)
CallEnds(r, why) ==
  /\ pc[r] = "calling"
  /\ billed' \in {billed, Billed(r)}
  /\ called' = [called EXCEPT ![r] = 0]
  /\ EndLine(r, Template(Line(r), why), mine[r])
  /\ UNCHANGED answer /\ UNCHANGED Outside

(* LLMError: refused, timed out, or answered with nothing, which costs tokens as well. *)
NoAnswer(r) == CallEnds(r, "call failed")

(* Anything else that generate raises, or the validator when it reads the answer: explain
   starts again with the template, and the answer is gone. *)
AnswerFails(r) == CallEnds(r, "step failed")

Answered(r, t) ==
  /\ pc[r] = "calling"
  /\ billed' = Billed(r)
  /\ called' = [called EXCEPT ![r] = 0]
  /\ IF Accepts(t, Trace(Line(r)))
       THEN answer' = [answer EXCEPT ![r] = t] /\ Goto(r, "storing") /\ UNCHANGED <<records, mine>>
       ELSE EndLine(r, PaidTemplate(Line(r)), mine[r]) /\ UNCHANGED answer
  /\ UNCHANGED Outside

HasLine(rows, l) == \E row \in rows : row[1] = l

(* Whose uncommitted row the INSERT of r has to wait for. *)
WaitsFor(r) == {s \in Runs \ {r} : pc[r] = "storing" /\ HasLine(mine[s], Line(r))}

(* An accepted answer: a record, and the cache rows that are held after it. *)
EndAnswer(r, record, rows) ==
  /\ EndLine(r, record, rows)
  /\ answer' = [answer EXCEPT ![r] = None]
  /\ UNCHANGED <<called, billed>> /\ UNCHANGED Outside

(* This run's record has this run's text, whoever's is stored. *)
WithAnswer(r) == Explained(Line(r), "model", answer[r], TRUE, "called")

(* Slip: the row is inserted over whatever is there. *)
StoreTextAtOnce(r) ==
  pc[r] = "storing" /\ EndAnswer(r, WithAnswer(r), mine[r] \cup {<<Line(r), answer[r]>>})

(* The first text stored stays. *)
RowsWithText(r) ==
  IF HasLine(cache \cup mine[r], Line(r)) THEN mine[r] ELSE mine[r] \cup {<<Line(r), answer[r]>>}

StoreText(r) ==
  pc[r] = "storing" /\ WaitsFor(r) = {} /\ EndAnswer(r, WithAnswer(r), RowsWithText(r))

(* The INSERT fails, in a savepoint of its own. *)
StoreFails(r) == pc[r] = "storing" /\ EndAnswer(r, WithAnswer(r), mine[r])

(* The step fails with an accepted answer in hand: in the INSERT, whose savepoint is
   rolled back, or after it, when the cost is worked out. *)
KeepingFails(r) ==
  /\ pc[r] = "storing"
  /\ LET failed == Template(Line(r), "step failed")
     IN  \/ EndAnswer(r, failed, mine[r])
         \/ WaitsFor(r) = {} /\ EndAnswer(r, failed, RowsWithText(r))

-----------------------------------------------------------------------------
(* The explainer is forgotten with its run. *)
Forget(r) ==
  /\ begun' = [begun EXCEPT ![r] = 0]
  /\ called' = [called EXCEPT ![r] = 0]
  /\ waited' = [waited EXCEPT ![r] = 0]

(* Slip: an exception ends the loop, not the transaction. *)
CommitShort(r) ==
  /\ pc[r] = "explaining"
  /\ Goto(r, "done") /\ Forget(r)
  /\ cache' = cache \cup mine[r]
  /\ mine' = [mine EXCEPT ![r] = {}]
  /\ UNCHANGED <<config, now, answer, records, billed>>

Commit(r) ==
  /\ pc[r] = "explaining" /\ Len(records[r]) = Len(Order)
  /\ Goto(r, "done") /\ Forget(r)
  /\ cache' = cache \cup mine[r]
  /\ mine' = [mine EXCEPT ![r] = {}]
  /\ UNCHANGED <<config, now, answer, records, billed>>

(* Slip: the cache rows outlive the transaction. *)
RollBackKeepingTexts(r) ==
  /\ Active(r)
  /\ Goto(r, "failed") /\ Forget(r)
  /\ records' = [records EXCEPT ![r] = << >>]
  /\ answer' = [answer EXCEPT ![r] = None]
  /\ UNCHANGED <<config, now, mine, cache, billed>>

(* The process dies or the database fails: the transaction is rolled back. *)
RollBack(r) ==
  /\ Active(r)
  /\ Goto(r, "failed") /\ Forget(r)
  /\ mine' = [mine EXCEPT ![r] = {}]
  /\ records' = [records EXCEPT ![r] = << >>]
  /\ answer' = [answer EXCEPT ![r] = None]
  /\ UNCHANGED <<config, now, cache, billed>>

(* Time.  A call is over by its timeout; whoever can act at once does. *)
Calling == {r \in Runs : pc[r] = "calling"}
Blocked == {r \in Runs : WaitsFor(r) # {}}

Tick ==
  /\ Calling # {}
  /\ \A r \in Runs : Active(r) => r \in Calling \cup Blocked
  /\ \A r \in Calling : now < called[r] + Timeout
  /\ now' = now + 1
  /\ waited' = [r \in Runs |-> IF r \in Blocked THEN waited[r] + 1 ELSE waited[r]]
  /\ UNCHANGED <<config, pc, begun, called, answer, records, mine, cache, billed>>

Serve(r) ==
  \/ Begin(r) \/ DecidingFails(r) \/ ExplainingFails(r) \/ WithoutModel(r)
  \/ FromCache(r) \/ OutOfTime(r) \/ Ask(r)
  \/ NoAnswer(r) \/ AnswerFails(r) \/ (\E t \in Texts : Answered(r, t))
  \/ StoreText(r) \/ StoreFails(r) \/ KeepingFails(r) \/ Commit(r) \/ RollBack(r)

Next == (\E r \in Runs : Serve(r)) \/ Tick

Spec == Init /\ [][Next]_vars

-----------------------------------------------------------------------------
(* Types. *)

AllTexts == Texts \cup {Leftover[l] : l \in DOMAIN Leftover}

Records ==
  [line : Range(Order), decision : Decisions, status : RecordStatuses,
   source : {"template", "model"}, text : AllTexts \cup {None}, tokens : BOOLEAN,
   why : {"no call", "call failed", "rejected", "step failed", "cached", "called", "failed open"}]

(* A run that is asking or storing is at a line; it holds rows only while it lasts. *)
TypeOK ==
  /\ config \in [Runs -> Configs]
  /\ pc \in [Runs -> Places]
  /\ now \in Nat
  /\ begun \in [Runs -> Nat] /\ called \in [Runs -> Nat] /\ waited \in [Runs -> Nat]
  /\ answer \in [Runs -> Texts \cup {None}]
  /\ records \in [Runs -> Seq(Records)]
  /\ mine \in [Runs -> SUBSET (Range(Order) \X Texts)]
  /\ cache \subseteq Range(Order) \X AllTexts
  /\ billed \in [Runs -> SUBSET Range(Order)]
  /\ \A r \in Runs :
       /\ pc[r] = "storing" <=> answer[r] # None
       /\ Len(records[r]) <= Len(Order)
       /\ pc[r] \in {"calling", "storing"} => Len(records[r]) < Len(Order)
       /\ mine[r] # {} => Active(r)

-----------------------------------------------------------------------------
(* Safety. *)

Engine == INSTANCE DecisionLog WITH
  log <- [r \in Runs |-> [i \in DOMAIN records[r] |->
            [line |-> records[r][i].line, decision |-> records[r][i].decision,
             status |-> records[r][i].status]]],
  stored <- {r \in Runs : pc[r] = "done"},
  Decided <- [l \in Range(Order) |->
                [line |-> l, decision |-> DecisionOf[l].decision, status |-> DecisionOf[l].status]],
  FailedOpen <- [l \in Range(Order) |-> [line |-> l, decision |-> "REVIEW", status |-> "pending"]]

(* The explanations change no decision, lose none and reorder none (explain, D-022): with
   any answers, failures and waits, a run stores what the engine decided, line by line. *)
ExplanationsChangeNoDecision == Engine!Spec

(* Whatever the way a text came by, from the model or from a cache that an earlier
   version of the validator filled, what a record says of itself is what it is: its
   decision, its amount next to "claim", and no id, date or figure of another line. *)
ModelTextIsBacked ==
  \A r \in Runs : \A e \in Range(records[r]) : e.source = "model" =>
    /\ e.text.words \cup e.text.argues = {e.decision}
    /\ e.text.nearClaim \subseteq {AmountOf[e.line]} \ {None}
    /\ e.text.quotes \subseteq TokensOf[e.line]

(* What is charged for can be found again.  A record shows tokens only of a call that was
   made for its line; and a call that was charged for has its tokens on the record of
   its line, used or not, unless that names the failure which lost them: no answer, an
   exception in the step, or the line failing open.  A text in the cache, which later
   runs use for nothing, was charged to a run that is stored, and stands with its tokens
   on the record of that run, unless the step failed after keeping it. *)
CallsAreAccountedFor ==
  /\ \A r \in Runs : \A e \in Range(records[r]) :
       /\ e.tokens => e.line \in billed[r]
       /\ e.line \in billed[r] => e.tokens \/ e.why \in {"call failed", "step failed", "failed open"}
  /\ \A row \in cache \ Leftovers : \E r \in Runs :
       /\ pc[r] = "done" /\ row[1] \in billed[r]
       /\ \E e \in Range(records[r]) :
            e.line = row[1] /\ ((e.tokens /\ e.text = row[2]) \/ e.why = "step failed")

(* The first text stored for a trace is the one that every run reads, however many runs
   ask for it at once. *)
FirstTextStays ==
  /\ \A x, y \in cache : x[1] = y[1] => x = y
  /\ \A r \in Runs : \A i \in DOMAIN records[r] :
       LET e == records[r][i]
       IN  e.why = "cached" => <<e.line, e.text>> \in cache

(* Runs wait for each other's uncommitted texts, but never in a circle: whoever is waited
   for is further down the one order in which list_charges gives the lines. *)
WaitsForOneAhead ==
  \A r \in Runs : \A s \in WaitsFor(r) : Len(records[s]) > Len(records[r])

(* The budget does what it can: a run that is still going has lasted no longer than the
   budget, one call and what it waited for other runs. *)
BudgetHolds ==
  \A r \in Runs : Active(r) => now <= Deadline(r) + Timeout + waited[r]
=============================================================================
