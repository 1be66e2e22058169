--------------------------- MODULE ExplainProofs ---------------------------
(***************************************************************************)
(* Proofs about Explain, for any runs, lines, texts and times.             *)
(***************************************************************************)
EXTENDS Explain, TLAPS

-----------------------------------------------------------------------------
(* How a line ends.  Most of the steps of a run differ only in the record they  *)
(* give the line and in whether its text is kept.                              *)

AsDecided(l, e) == e.decision = DecisionOf[l].decision /\ e.status = DecisionOf[l].status

(* A record that line l may have: decided or failed open, and with no text of a model
   that the line's trace does not accept. *)
Fits(l, e) ==
  /\ e \in Records /\ e.line = l
  /\ AsDecided(l, e) \/ (e.decision = "REVIEW" /\ e.status = "pending")
  /\ e.source = "model" => AsDecided(l, e) /\ Accepts(e.text, Trace(l))

OwnRow(r) == <<Line(r), answer[r]>>

(* What run r holds after its line: no more than before, or its text as well. *)
RowsAfter(r, rows) ==
  \/ rows \subseteq mine[r]
  \/ /\ pc[r] = "storing" /\ WaitsFor(r) = {} /\ ~HasLine(cache \cup mine[r], Line(r))
     /\ rows = mine[r] \cup {OwnRow(r)}

(* The failures that lose what a call cost. *)
Losses == {"call failed", "step failed", "failed open"}

(* A line that is not charged for shows no tokens; one that is, now or since its answer
   was accepted, shows them or names what lost them. *)
Bills(r, e) ==
  \/ billed' = billed /\ pc[r] # "storing" /\ ~e.tokens
  \/ /\ billed' = Billed(r) \/ (billed' = billed /\ pc[r] = "storing")
     /\ e.tokens \/ e.why \in Losses

(* A text that was kept is on the record, or the step failed after keeping it. *)
Keeps(r, e) == (e.tokens /\ e.text = answer[r]) \/ e.why = "step failed"

CallOver(r) == called' = called \/ called' = [called EXCEPT ![r] = 0]

Ends(r, e, rows) ==
  /\ Active(r) /\ Len(records[r]) < Len(Order)
  /\ Fits(Line(r), e)
  /\ e.why = "cached" => <<e.line, e.text>> \in cache \cup mine[r]
  /\ RowsAfter(r, rows) /\ (rows \subseteq mine[r] \/ Keeps(r, e))
  /\ records' = [records EXCEPT ![r] = Append(@, e)]
  /\ mine' = [mine EXCEPT ![r] = rows]
  /\ pc' = [pc EXCEPT ![r] = "explaining"]
  /\ answer' = [answer EXCEPT ![r] = None]
  /\ Bills(r, e) /\ CallOver(r)
  /\ UNCHANGED <<config, now, begun, cache, waited>>

LineEnds(r) == \E e \in Records, rows \in SUBSET (Range(Order) \X Texts) : Ends(r, e, rows)

(* The other way an answer goes: it is accepted and has to be stored. *)
AcceptedAnswer(r, t) ==
  /\ pc[r] = "calling" /\ Accepts(t, Trace(Line(r)))
  /\ pc' = [pc EXCEPT ![r] = "storing"]
  /\ answer' = [answer EXCEPT ![r] = t]
  /\ billed' = Billed(r)
  /\ called' = [called EXCEPT ![r] = 0]
  /\ UNCHANGED <<records, mine, config, now, begun, cache, waited>>

AnswerAccepted == \A r \in Runs : answer[r] # None => Accepts(answer[r], Trace(Line(r)))

LEMMA LineIsListed ==
  ASSUME TypeOK, NEW r \in Runs, Len(records[r]) < Len(Order)
  PROVE Len(records[r]) + 1 \in DOMAIN Order /\ Line(r) \in Range(Order)
<1>1. Len(records[r]) \in Nat /\ Len(Order) \in Nat /\ DOMAIN Order = 1..Len(Order)
  BY OrderAssumption DEF TypeOK
<1> QED
  BY <1>1 DEF Line, Range

(* How a line ends without a call that counts. *)
Plain == {"no call", "call failed", "step failed"}

LEMMA RecordsFit ==
  ASSUME NEW l \in Range(Order)
  PROVE /\ \A why \in Plain : Fits(l, Template(l, why))
        /\ Fits(l, PaidTemplate(l)) /\ Fits(l, FailOpen(l))
        /\ \A t \in AllTexts, tokens \in BOOLEAN, why \in {"cached", "called"} :
             Accepts(t, Trace(l)) => Fits(l, Explained(l, "model", t, tokens, why))
<1>1. DecisionOf[l] \in [decision : Decisions, status : RecordStatuses]
  BY OrderAssumption
<1> QED
  BY <1>1 DEF Fits, AsDecided, Template, PaidTemplate, FailOpen, Explained, Record, Records, Decisions,
              RecordStatuses, Plain

(* What they say of their calls. *)
LEMMA TemplateSays ==
  ASSUME NEW l, NEW why PROVE Template(l, why).tokens = FALSE /\ Template(l, why).why = why
BY DEF Template, Explained, Record

LEMMA FailOpenSays ==
  ASSUME NEW l PROVE FailOpen(l).tokens = FALSE /\ FailOpen(l).why = "failed open"
BY DEF FailOpen, Record

(* Whatever record and rows the loop was given, or the failure of its insert. *)
LEMMA EndLineEnds ==
  ASSUME TypeOK, NEW r \in Runs, Active(r), Len(records[r]) < Len(Order),
         NEW e, NEW rows, Fits(Line(r), e), e.why = "cached" => <<e.line, e.text>> \in cache \cup mine[r],
         RowsAfter(r, rows), rows \subseteq mine[r] \/ Keeps(r, e),
         EndLine(r, e, rows), answer' = [answer EXCEPT ![r] = None],
         Bills(r, e), CallOver(r), UNCHANGED <<config, now, begun, cache, waited>>
  PROVE LineEnds(r)
<1>1. Line(r) \in Range(Order)
  BY LineIsListed
<1>2. OwnRow(r) \in Range(Order) \X Texts \/ pc[r] # "storing"
  BY <1>1 DEF OwnRow, TypeOK
<1>3. rows \in SUBSET (Range(Order) \X Texts)
  BY <1>2 DEF RowsAfter, TypeOK
<1>4. pc' = [pc EXCEPT ![r] = "explaining"]
  BY DEF EndLine, Goto
<1>5. CASE records' = [records EXCEPT ![r] = Append(@, e)] /\ mine' = [mine EXCEPT ![r] = rows]
  <2>1. Ends(r, e, rows)
    BY <1>4, <1>5 DEF Ends
  <2> QED
    BY <1>3, <2>1 DEF LineEnds, Fits
<1>6. CASE /\ records' = [records EXCEPT ![r] = Append(@, FailOpen(Line(r)))]
           /\ mine' = [mine EXCEPT ![r] = {row \in @ : row[1] # Line(r)}]
  <2> DEFINE kept == {row \in mine[r] : row[1] # Line(r)}
  <2>1. kept \subseteq mine[r] /\ mine' = [mine EXCEPT ![r] = kept]
    BY <1>6
  <2>2. Fits(Line(r), FailOpen(Line(r))) /\ FailOpen(Line(r)).why # "cached"
    BY <1>1, RecordsFit, FailOpenSays
  <2>5. Bills(r, FailOpen(Line(r)))
    BY FailOpenSays DEF Bills, Losses
  <2>3. Ends(r, FailOpen(Line(r)), kept)
    BY <1>4, <1>6, <2>1, <2>2, <2>5 DEF Ends, RowsAfter
  <2>4. kept \in SUBSET (Range(Order) \X Texts) /\ FailOpen(Line(r)) \in Records
    BY <2>1, <2>2 DEF Fits, TypeOK
  <2> QED
    BY <2>3, <2>4 DEF LineEnds
<1> QED
  BY <1>5, <1>6 DEF EndLine

(* What a run may do, but for Tick. *)
LEMMA StepsOfARun ==
  ASSUME TypeOK, AnswerAccepted, NEW r \in Runs, Serve(r)
  PROVE \/ Begin(r) \/ LineEnds(r) \/ Ask(r) \/ (\E t \in Texts : AcceptedAnswer(r, t))
        \/ Commit(r) \/ RollBack(r)
<1> USE DEF Outside
<1>0. /\ pc[r] \in {"explaining", "calling", "storing"} => Active(r)
      /\ pc[r] # "storing" => answer[r] = None
      /\ answer = [answer EXCEPT ![r] = answer[r]]
  BY DEF TypeOK, Active
<1>1. pc[r] \in {"calling", "storing"} \/ AtLine(r) => Len(records[r]) < Len(Order)
  BY DEF TypeOK, AtLine
<1>2. Len(records[r]) < Len(Order) => Line(r) \in Range(Order)
  BY LineIsListed
<1>3. RowsAfter(r, mine[r])
  BY DEF RowsAfter
<1>4. ASSUME NEW e, Fits(Line(r), e), e.why # "cached", EndLine(r, e, mine[r]),
             pc[r] = "calling" \/ AtLine(r), Bills(r, e), CallOver(r),
             UNCHANGED <<answer, config, now, begun, cache, waited>>
      PROVE LineEnds(r)
  BY <1>0, <1>1, <1>3, <1>4, EndLineEnds DEF AtLine
<1>5. CASE DecidingFails(r) \/ ExplainingFails(r) \/ WithoutModel(r) \/ OutOfTime(r)
  <2>1. AtLine(r) /\ Line(r) \in Range(Order)
    BY <1>1, <1>2, <1>5 DEF DecidingFails, ExplainingFails, WithoutModel, OutOfTime, IsSent
  <2>2. PICK e \in {FailOpen(Line(r))} \cup {Template(Line(r), why) : why \in Plain} : EndLine(r, e, mine[r])
    BY <1>5 DEF DecidingFails, ExplainingFails, WithoutModel, OutOfTime, Plain
  <2>3. UNCHANGED <<called, answer, billed, config, now, begun, cache, waited>>
    BY <1>5 DEF DecidingFails, ExplainingFails, WithoutModel, OutOfTime
  <2>4. Fits(Line(r), e) /\ ~e.tokens /\ e.why # "cached"
    <3>1. CASE e = FailOpen(Line(r))
      <4>1. Fits(Line(r), e)
        BY <2>1, <3>1, RecordsFit
      <4> QED
        BY <3>1, <4>1, FailOpenSays
    <3>2. ASSUME NEW why \in Plain, e = Template(Line(r), why)
          PROVE  Fits(Line(r), e) /\ ~e.tokens /\ e.why # "cached"
      <4>1. Fits(Line(r), e)
        BY <2>1, <3>2, RecordsFit
      <4>2. e.tokens = FALSE /\ e.why = why
        BY <3>2, TemplateSays
      <4> QED
        BY <4>1, <4>2 DEF Plain
    <3> QED
      BY <2>2, <3>1, <3>2
  <2>5. Bills(r, e) /\ CallOver(r)
    BY <2>1, <2>3, <2>4 DEF Bills, CallOver, AtLine
  <2> QED
    BY <1>4, <2>1, <2>2, <2>3, <2>4, <2>5
<1>6. CASE FromCache(r)
  <2>1. AtLine(r) /\ Line(r) \in Range(Order) /\ Len(records[r]) < Len(Order) /\ Active(r)
    BY <1>0, <1>1, <1>2, <1>6 DEF FromCache, IsSent, AtLine
  <2>2. PICK t \in Hit(r) : EndLine(r, Explained(Line(r), "model", t, FALSE, "cached"), mine[r])
    BY <1>6 DEF FromCache
  <2>3. Accepts(t, Trace(Line(r))) /\ <<Line(r), t>> \in cache \cup mine[r]
    <3>1. PICK row \in cache \cup mine[r] : row[1] = Line(r) /\ row[2] = t
      BY <2>2 DEF Hit, Found
    <3>2. row \in Range(Order) \X AllTexts
      BY DEF TypeOK, AllTexts
    <3>3. row = <<Line(r), t>>
      BY <3>1, <3>2
    <3> QED
      BY <2>2, <3>3 DEF Hit
  <2>4. t \in AllTexts
    BY <2>3 DEF TypeOK, AllTexts
  <2> DEFINE e == Explained(Line(r), "model", t, FALSE, "cached")
  <2>5. Fits(Line(r), e)
    BY <2>1, <2>3, <2>4, RecordsFit
  <2>6. e.line = Line(r) /\ e.text = t /\ e.tokens = FALSE
    BY DEF Explained, Record
  <2>7. answer' = [answer EXCEPT ![r] = None] /\ UNCHANGED <<called, billed, config, now, begun, cache, waited>>
    BY <1>0, <1>6, <2>1 DEF FromCache, AtLine
  <2>8. EndLine(r, e, mine[r])
    BY <2>2
  <2> HIDE DEF e
  <2>9. Bills(r, e) /\ CallOver(r)
    BY <2>1, <2>6, <2>7 DEF Bills, CallOver, AtLine
  <2> QED
    BY <1>3, <2>1, <2>3, <2>5, <2>6, <2>7, <2>8, <2>9, EndLineEnds
<1>7. ASSUME NEW t \in Texts, Answered(r, t) PROVE LineEnds(r) \/ AcceptedAnswer(r, t)
  <2>1. CASE Accepts(t, Trace(Line(r)))
    BY <1>7, <2>1 DEF Answered, AcceptedAnswer, Goto
  <2>2. CASE ~Accepts(t, Trace(Line(r)))
    <3>1. pc[r] = "calling" /\ Line(r) \in Range(Order) /\ EndLine(r, PaidTemplate(Line(r)), mine[r])
      BY <1>1, <1>2, <1>7, <2>2 DEF Answered
    <3>2. UNCHANGED <<answer, config, now, begun, cache, waited>> /\ CallOver(r)
      BY <1>7, <2>2 DEF Answered, CallOver
    <3>3. Bills(r, PaidTemplate(Line(r)))
      BY <1>7 DEF Answered, Bills, PaidTemplate, Explained, Record
    <3>4. Fits(Line(r), PaidTemplate(Line(r)))
      BY <3>1, RecordsFit
    <3>5. PaidTemplate(Line(r)).why # "cached"
      BY DEF PaidTemplate, Explained, Record
    <3> QED
      BY <1>4, <3>1, <3>2, <3>3, <3>4, <3>5
  <2> QED
    BY <2>1, <2>2
<1>8. CASE NoAnswer(r) \/ AnswerFails(r)
  <2>1. PICK why \in {"call failed", "step failed"} : CallEnds(r, why)
    BY <1>8 DEF NoAnswer, AnswerFails
  <2> DEFINE e == Template(Line(r), why)
  <2>2. pc[r] = "calling" /\ Line(r) \in Range(Order) /\ EndLine(r, e, mine[r])
        /\ (billed' = billed \/ billed' = Billed(r))
    BY <1>1, <1>2, <2>1 DEF CallEnds
  <2>3. UNCHANGED <<answer, config, now, begun, cache, waited>> /\ CallOver(r)
    BY <2>1 DEF CallEnds, CallOver
  <2>4. Fits(Line(r), e) /\ ~e.tokens /\ e.why \in {"call failed", "step failed"}
    <3>1. Fits(Line(r), e)
      BY <2>2, RecordsFit DEF Plain
    <3>2. e.tokens = FALSE /\ e.why = why
      BY TemplateSays
    <3> QED
      BY <3>1, <3>2
  <2> HIDE DEF e
  <2>5. Bills(r, e)
    BY <2>2, <2>4 DEF Bills, Losses
  <2> QED
    BY <1>4, <2>2, <2>3, <2>4, <2>5
<1>9. CASE StoreText(r) \/ StoreFails(r) \/ KeepingFails(r)
  <2>1. pc[r] = "storing" /\ Active(r) /\ Len(records[r]) < Len(Order) /\ Line(r) \in Range(Order)
    BY <1>0, <1>1, <1>2, <1>9 DEF StoreText, StoreFails, KeepingFails
  <2>2. PICK e \in {WithAnswer(r), Template(Line(r), "step failed")}, rows \in {mine[r], RowsWithText(r)} :
          EndAnswer(r, e, rows) /\ (rows = mine[r] \/ WaitsFor(r) = {})
    BY <1>9 DEF StoreText, StoreFails, KeepingFails
  <2>3. RowsAfter(r, rows)
    BY <1>3, <2>1, <2>2 DEF RowsAfter, RowsWithText, OwnRow
  <2>4. answer[r] \in AllTexts /\ Accepts(answer[r], Trace(Line(r)))
    BY <2>1 DEF TypeOK, AnswerAccepted, AllTexts
  <2>5. Fits(Line(r), e) /\ e.why # "cached" /\ Keeps(r, e) /\ (e.tokens \/ e.why \in Losses)
    <3>1. CASE e = WithAnswer(r)
      <4>1. Fits(Line(r), e)
        BY <2>1, <2>4, <3>1, RecordsFit DEF WithAnswer
      <4>2. e.tokens = TRUE /\ e.text = answer[r] /\ e.why = "called"
        BY <3>1 DEF WithAnswer, Explained, Record
      <4> QED
        BY <4>1, <4>2 DEF Keeps
    <3>2. CASE e = Template(Line(r), "step failed")
      <4>1. Fits(Line(r), e)
        BY <2>1, <3>2, RecordsFit DEF Plain
      <4>2. e.why = "step failed"
        BY <3>2, TemplateSays
      <4> QED
        BY <4>1, <4>2 DEF Keeps, Losses
    <3> QED
      BY <2>2, <3>1, <3>2
  <2>7. EndLine(r, e, rows) /\ answer' = [answer EXCEPT ![r] = None]
        /\ UNCHANGED <<called, billed, config, now, begun, cache, waited>>
    BY <2>2 DEF EndAnswer
  <2>8. Bills(r, e) /\ CallOver(r)
    BY <2>1, <2>5, <2>7 DEF Bills, CallOver
  <2> QED
    BY <2>1, <2>3, <2>5, <2>7, <2>8, EndLineEnds
<1> QED
  BY <1>5, <1>6, <1>7, <1>8, <1>9 DEF Serve

-----------------------------------------------------------------------------
(* The inductive invariant. *)

RecordsFitLines == \A r \in Runs : \A i \in DOMAIN records[r] : Fits(Order[i], records[r][i])

(* A run holds rows of lines it has left behind. *)
RowsBehind ==
  \A r \in Runs : \A row \in mine[r] : \E i \in 1..Len(records[r]) : row[1] = Order[i]

(* No two rows for one trace, committed or not. *)
RowsApart ==
  /\ \A x, y \in cache : x[1] = y[1] => x = y
  /\ \A r \in Runs : \A x \in mine[r] : ~HasLine(cache, x[1])
  /\ \A r, s \in Runs : \A x \in mine[r], y \in mine[s] : x[1] = y[1] => r = s /\ x = y

CachedStays ==
  \A r \in Runs : \A i \in DOMAIN records[r] :
    records[r][i].why = "cached" => <<records[r][i].line, records[r][i].text>> \in cache

(* A call began within the budget. *)
CallsInTime ==
  /\ \A r \in Runs : pc[r] = "calling" => called[r] <= Deadline(r) /\ now <= called[r] + Timeout
  /\ BudgetHolds

Inv == AnswerAccepted /\ RecordsFitLines /\ RowsBehind /\ RowsApart /\ CachedStays /\ CallsInTime

LEMMA RecordsGrow ==
  ASSUME TypeOK, NEW r \in Runs, NEW e \in Records, Len(records[r]) < Len(Order),
         records' = [records EXCEPT ![r] = Append(@, e)]
  PROVE /\ records' \in [Runs -> Seq(Records)]
        /\ Len(records'[r]) = Len(records[r]) + 1 /\ Len(records'[r]) <= Len(Order)
        /\ records'[r][Len(records[r]) + 1] = e
        /\ \A i \in 1..Len(records[r]) : records'[r][i] = records[r][i]
        /\ DOMAIN records'[r] = 1..(Len(records[r]) + 1) /\ DOMAIN records[r] = 1..Len(records[r])
        /\ Len(records[r]) \in Nat /\ Len(Order) \in Nat
        /\ \A s \in Runs \ {r} : records'[s] = records[s]
<1>1. records[r] \in Seq(Records) /\ Order \in Seq(Range(Order))
  BY OrderAssumption DEF TypeOK
<1>2. Len(records[r]) \in Nat /\ Len(Order) \in Nat
  BY <1>1
<1>3. records'[r] = Append(records[r], e) /\ \A s \in Runs \ {r} : records'[s] = records[s]
  BY DEF TypeOK
<1>4. Append(records[r], e) \in Seq(Records) /\ Len(Append(records[r], e)) = Len(records[r]) + 1
      /\ \A i \in 1..Len(records[r]) : Append(records[r], e)[i] = records[r][i]
      /\ Append(records[r], e)[Len(records[r]) + 1] = e
  BY <1>1
<1>5. records' \in [Runs -> Seq(Records)]
  BY <1>3, <1>4 DEF TypeOK
<1> QED
  BY <1>1, <1>2, <1>3, <1>4, <1>5

LEMMA TypeInit == Init => TypeOK
<1> SUFFICES ASSUME Init PROVE TypeOK
  OBVIOUS
<1>1. << >> \in Seq(Records) /\ Len(<< >>) = 0 /\ Len(Order) \in Nat
  BY OrderAssumption
<1>2. cache \subseteq Range(Order) \X AllTexts
  <2>1. ASSUME NEW l \in DOMAIN Leftover PROVE <<l, Leftover[l]>> \in Range(Order) \X AllTexts
    BY TextsAssumption DEF AllTexts
  <2> QED
    BY <2>1 DEF Init, Leftovers
<1>3. cache \subseteq Range(Order) \X AllTexts /\ billed \in [Runs -> SUBSET Range(Order)]
  BY <1>2 DEF Init
<1> QED
  BY <1>1, <1>3 DEF Init, TypeOK, Places, Active

(* Every step keeps the types. *)
LEMMA TypeStep == TypeOK /\ AnswerAccepted /\ [Next]_vars => TypeOK'
<1> SUFFICES ASSUME TypeOK, AnswerAccepted, [Next]_vars PROVE TypeOK'
  OBVIOUS
<1> USE DEF Places, Active
<1>1. ASSUME NEW r \in Runs, Begin(r) PROVE TypeOK'
  BY <1>1 DEF Begin, Goto, TypeOK
<1>2. ASSUME NEW r \in Runs, LineEnds(r) PROVE TypeOK'
  <2>1. PICK e \in Records, rows \in SUBSET (Range(Order) \X Texts) : Ends(r, e, rows)
    BY <1>2 DEF LineEnds
  <2>2. /\ records' \in [Runs -> Seq(Records)] /\ Len(records'[r]) <= Len(Order)
        /\ \A s \in Runs \ {r} : records'[s] = records[s]
    BY <2>1, RecordsGrow DEF Ends
  <2>3. mine' \in [Runs -> SUBSET (Range(Order) \X Texts)]
    BY <2>1 DEF Ends, TypeOK
  <2>4. billed' \in [Runs -> SUBSET Range(Order)]
    <3>1. Line(r) \in Range(Order)
      BY <2>1, LineIsListed DEF Ends
    <3>2. billed \in [Runs -> SUBSET Range(Order)]
      BY DEF TypeOK
    <3>3. Billed(r) \in [Runs -> SUBSET Range(Order)]
      BY <3>1, <3>2 DEF Billed
    <3>4. billed' = billed \/ billed' = Billed(r)
      BY <2>1 DEF Ends, Bills
    <3> QED
      BY <3>2, <3>3, <3>4
  <2>5. called' \in [Runs -> Nat]
    <3>1. called \in [Runs -> Nat] /\ 0 \in Nat
      BY DEF TypeOK
    <3> QED
      BY <2>1, <3>1 DEF Ends, CallOver
  <2> QED
    BY <2>1, <2>2, <2>3, <2>4, <2>5 DEF Ends, TypeOK
<1>3. ASSUME NEW r \in Runs, Ask(r) PROVE TypeOK'
  BY <1>3 DEF Ask, IsSent, AtLine, Goto, TypeOK, Outside
<1>4. ASSUME NEW r \in Runs, NEW t \in Texts, AcceptedAnswer(r, t) PROVE TypeOK'
  <2>1. Line(r) \in Range(Order)
    BY <1>4, LineIsListed DEF AcceptedAnswer, TypeOK
  <2> QED
    BY <1>4, <2>1, TextsAssumption DEF AcceptedAnswer, Billed, TypeOK
<1>5. ASSUME NEW r \in Runs, Commit(r) PROVE TypeOK'
  <2>1. cache' \subseteq Range(Order) \X AllTexts
    BY <1>5 DEF Commit, TypeOK, AllTexts
  <2> QED
    BY <1>5, <2>1 DEF Commit, Forget, Goto, TypeOK
<1>6. ASSUME NEW r \in Runs, RollBack(r) PROVE TypeOK'
  <2>1. << >> \in Seq(Records) /\ Len(<< >>) = 0 /\ Len(Order) \in Nat
    BY OrderAssumption
  <2> QED
    BY <1>6, <2>1 DEF RollBack, Forget, Goto, TypeOK
<1>7. CASE Tick
  BY <1>7 DEF Tick, TypeOK
<1>8. CASE UNCHANGED vars
  BY <1>8 DEF vars, TypeOK
<1> QED
  BY <1>1, <1>2, <1>3, <1>4, <1>5, <1>6, <1>7, <1>8, StepsOfARun DEF Next

LEMMA InvInit == Init => Inv
<1> SUFFICES ASSUME Init PROVE Inv
  OBVIOUS
<1>1. AnswerAccepted /\ RecordsFitLines /\ RowsBehind /\ CachedStays
  BY DEF Init, AnswerAccepted, RecordsFitLines, RowsBehind, CachedStays
<1>2. RowsApart
  <2>1. \A x, y \in cache : x[1] = y[1] => x = y
    BY DEF Init, Leftovers
  <2>2. \A r \in Runs : mine[r] = {}
    BY DEF Init
  <2> QED
    BY <2>1, <2>2 DEF RowsApart
<1>3. CallsInTime
  <2>1. \A r \in Runs : pc[r] = "waiting"
    BY DEF Init
  <2> QED
    BY <2>1 DEF CallsInTime, BudgetHolds, Active
<1> QED
  BY <1>1, <1>2, <1>3 DEF Inv

(* A line that ends. *)
LEMMA InvLineEnds ==
  ASSUME TypeOK, Inv, NEW r \in Runs, LineEnds(r)
  PROVE Inv'
<1>1. PICK e \in Records, rows \in SUBSET (Range(Order) \X Texts) : Ends(r, e, rows)
  BY DEF LineEnds
<1> DEFINE n == Len(records[r])
<1>2. /\ Len(records'[r]) = n + 1 /\ records'[r][n + 1] = e
      /\ \A i \in 1..n : records'[r][i] = records[r][i]
      /\ DOMAIN records'[r] = 1..(n + 1) /\ DOMAIN records[r] = 1..n
      /\ n \in Nat /\ \A s \in Runs \ {r} : records'[s] = records[s]
  BY <1>1, RecordsGrow DEF Ends
<1>3. mine'[r] = rows /\ \A s \in Runs \ {r} : mine'[s] = mine[s]
  BY <1>1 DEF Ends, TypeOK
<1>4. answer'[r] = None /\ pc'[r] = "explaining"
      /\ \A s \in Runs \ {r} : answer'[s] = answer[s] /\ pc'[s] = pc[s]
  BY <1>1 DEF Ends, TypeOK
<1>5. Order[n + 1] = Line(r) /\ Fits(Line(r), e)
  BY <1>1 DEF Ends, Line
<1>6. AnswerAccepted'
  BY <1>2, <1>4 DEF Inv, AnswerAccepted, Line
<1>7. RecordsFitLines'
  <2> SUFFICES ASSUME NEW s \in Runs, NEW i \in DOMAIN records'[s] PROVE Fits(Order[i], records'[s][i])
    BY DEF RecordsFitLines, Fits, AsDecided
  <2>1. CASE s # r
    BY <1>2, <2>1 DEF Inv, RecordsFitLines
  <2>2. CASE s = r /\ i \in 1..n
    BY <1>2, <2>2 DEF Inv, RecordsFitLines
  <2>3. CASE s = r /\ i = n + 1
    BY <1>2, <1>5, <2>3
  <2> QED
    BY <1>2, <2>1, <2>2, <2>3
<1>8. \A row \in rows : row \in mine[r] \/ (row = OwnRow(r) /\ row[1] = Order[n + 1])
  BY <1>1, <1>5 DEF Ends, RowsAfter, OwnRow
<1>9. RowsBehind'
  <2> SUFFICES ASSUME NEW s \in Runs, NEW row \in mine'[s]
               PROVE \E i \in 1..Len(records'[s]) : row[1] = Order[i]
    BY DEF RowsBehind
  <2>1. CASE s # r
    BY <1>2, <1>3, <2>1 DEF Inv, RowsBehind
  <2>2. CASE s = r /\ row \in mine[r]
    <3>1. PICK i \in 1..n : row[1] = Order[i]
      BY <2>2 DEF Inv, RowsBehind
    <3>2. i \in 1..Len(records'[s])
      BY <1>2, <2>2, <3>1
    <3> QED
      BY <3>1, <3>2
  <2>3. CASE s = r /\ row[1] = Order[n + 1]
    BY <1>2, <2>3
  <2> QED
    BY <1>3, <1>8, <2>1, <2>2, <2>3
<1>10. cache' = cache
  BY <1>1 DEF Ends
<1>11. RowsApart'
  <2>1. CASE rows \subseteq mine[r]
    <3>1. \A s \in Runs : mine'[s] \subseteq mine[s]
      BY <1>3, <2>1
    <3> QED
      BY <1>10, <3>1 DEF Inv, RowsApart, HasLine
  <2>2. CASE /\ pc[r] = "storing" /\ WaitsFor(r) = {} /\ ~HasLine(cache \cup mine[r], Line(r))
             /\ rows = mine[r] \cup {OwnRow(r)}
    <3>1. OwnRow(r)[1] = Line(r)
      BY DEF OwnRow
    <3>2. \A s \in Runs : \A y \in mine[s] : y[1] # Line(r)
      BY <2>2 DEF WaitsFor, HasLine
    <3>3. \A x \in cache : x[1] # Line(r)
      BY <2>2 DEF HasLine
    <3>4. \A s \in Runs : \A x \in mine'[s] : x \in mine[s] \/ (s = r /\ x = OwnRow(r))
      BY <1>3, <2>2
    <3>5. \A s \in Runs : \A x \in mine'[s] : ~HasLine(cache', x[1])
      BY <1>10, <3>1, <3>3, <3>4 DEF Inv, RowsApart, HasLine
    <3>6. \A s, u \in Runs : \A x \in mine'[s], y \in mine'[u] : x[1] = y[1] => s = u /\ x = y
      BY <3>1, <3>2, <3>4 DEF Inv, RowsApart
    <3> QED
      BY <1>10, <3>5, <3>6 DEF Inv, RowsApart
  <2> QED
    BY <1>1, <2>1, <2>2 DEF Ends, RowsAfter
<1>12. CachedStays'
  <2>1. e.why = "cached" => <<e.line, e.text>> \in cache
    <3> SUFFICES ASSUME <<e.line, e.text>> \in mine[r] PROVE FALSE
      BY <1>1 DEF Ends
    <3> DEFINE row == <<e.line, e.text>>
    <3>0. row[1] = e.line /\ row \in mine[r]
      OBVIOUS
    <3> HIDE DEF row
    <3>1. PICK i \in 1..n : e.line = Order[i]
      BY <3>0 DEF Inv, RowsBehind
    <3>2. e.line = Order[n + 1]
      BY <1>5 DEF Fits
    <3>3. i \in DOMAIN Order /\ n + 1 \in DOMAIN Order
      <4>1. Len(Order) \in Nat /\ DOMAIN Order = 1..Len(Order) /\ n < Len(Order)
        BY <1>1, OrderAssumption DEF Ends
      <4> HIDE DEF n
      <4> QED
        BY <1>2, <3>1, <4>1
    <3>4. i = n + 1
      BY <3>1, <3>2, <3>3, OrderAssumption
    <3> QED
      BY <1>2, <3>1, <3>4
  <2> SUFFICES ASSUME NEW s \in Runs, NEW i \in DOMAIN records'[s], records'[s][i].why = "cached"
               PROVE <<records'[s][i].line, records'[s][i].text>> \in cache
    BY <1>10 DEF CachedStays
  <2>2. CASE s # r
    BY <1>2, <2>2 DEF Inv, CachedStays
  <2>3. CASE s = r /\ i \in 1..n
    BY <1>2, <2>3 DEF Inv, CachedStays
  <2>4. CASE s = r /\ i = n + 1
    BY <1>2, <2>1, <2>4
  <2> QED
    BY <1>2, <2>2, <2>3, <2>4
<1>13. CallsInTime'
  <2>1. \A s \in Runs \ {r} : called'[s] = called[s]
    BY <1>1 DEF Ends, CallOver, TypeOK
  <2> QED
    BY <1>1, <1>4, <2>1 DEF Ends, Inv, CallsInTime, BudgetHolds, Deadline, Active
<1> QED
  BY <1>6, <1>7, <1>9, <1>11, <1>12, <1>13 DEF Inv

(* Every step keeps the invariant. *)
LEMMA InvStep == TypeOK /\ Inv /\ [Next]_vars => Inv'
<1> SUFFICES ASSUME TypeOK, Inv, [Next]_vars PROVE Inv'
  OBVIOUS
<1>0. /\ \A s \in Runs : begun[s] \in Nat /\ called[s] \in Nat /\ waited[s] \in Nat
      /\ now \in Nat /\ Budget \in Nat /\ Timeout \in Nat
  BY TimesAssumption DEF TypeOK
(* Steps that leave what has been written and read alone. *)
<1>1. ASSUME UNCHANGED <<records, mine, cache>>
      PROVE RecordsFitLines' /\ RowsBehind' /\ RowsApart' /\ CachedStays'
  <2>1. RecordsFitLines'
    BY <1>1 DEF Inv, RecordsFitLines, Fits, AsDecided
  <2>2. RowsBehind'
    BY <1>1 DEF Inv, RowsBehind
  <2>3. RowsApart'
    BY <1>1 DEF Inv, RowsApart, HasLine
  <2>4. CachedStays'
    BY <1>1 DEF Inv, CachedStays
  <2> QED
    BY <2>1, <2>2, <2>3, <2>4
<1>2. ASSUME UNCHANGED <<records, answer>> PROVE AnswerAccepted'
  BY <1>2 DEF Inv, AnswerAccepted, Line
<1>3. ASSUME NEW r \in Runs, Begin(r) PROVE Inv'
  <2>1. CallsInTime'
    <3>1. begun'[r] = now /\ pc'[r] = "explaining" /\ now' = now
          /\ \A s \in Runs \ {r} : begun'[s] = begun[s] /\ pc'[s] = pc[s]
      BY <1>3 DEF Begin, Goto, TypeOK
    <3>2. waited' = waited /\ called' = called
      BY <1>3 DEF Begin
    <3>3. now <= now + Budget + Timeout + waited[r]
      BY <1>0
    <3>4. ASSUME NEW s \in Runs, s # r
          PROVE /\ pc'[s] = "calling" => called'[s] <= begun'[s] + Budget /\ now' <= called'[s] + Timeout
                /\ Active(s)' => now' <= begun'[s] + Budget + Timeout + waited'[s]
      BY <3>1, <3>2, <3>4 DEF Inv, CallsInTime, BudgetHolds, Deadline, Active
    <3> QED
      BY <3>1, <3>2, <3>3, <3>4 DEF CallsInTime, BudgetHolds, Deadline, Active
  <2> QED
    BY <1>1, <1>2, <1>3, <2>1 DEF Begin, Inv
<1>4. ASSUME NEW r \in Runs, Ask(r) PROVE Inv'
  <2>1. CallsInTime'
    <3>1. called'[r] = now /\ pc'[r] = "calling" /\ UNCHANGED <<now, begun, waited>> /\ pc[r] = "explaining"
          /\ now <= Deadline(r)
          /\ \A s \in Runs \ {r} : called'[s] = called[s] /\ pc'[s] = pc[s]
      BY <1>4 DEF Ask, IsSent, AtLine, InTime, Goto, TypeOK, Outside
    <3>2. now <= now + Timeout
      BY <1>0
    <3>3. Active(r) /\ now <= Deadline(r) + Timeout + waited[r]
      BY <3>1 DEF Inv, CallsInTime, BudgetHolds, Active
    <3>4. ASSUME NEW s \in Runs, s # r
          PROVE /\ pc'[s] = "calling" => called'[s] <= begun'[s] + Budget /\ now' <= called'[s] + Timeout
                /\ Active(s)' => now' <= begun'[s] + Budget + Timeout + waited'[s]
      BY <3>1, <3>4 DEF Inv, CallsInTime, BudgetHolds, Deadline, Active
    <3> QED
      BY <3>1, <3>2, <3>3, <3>4 DEF CallsInTime, BudgetHolds, Deadline, Active
  <2> QED
    BY <1>1, <1>2, <1>4, <2>1 DEF Ask, Inv, Outside
<1>5. ASSUME NEW r \in Runs, NEW t \in Texts, AcceptedAnswer(r, t) PROVE Inv'
  <2>0. pc'[r] = "storing" /\ answer'[r] = t /\ UNCHANGED <<now, begun, waited, records>>
        /\ \A s \in Runs \ {r} : answer'[s] = answer[s] /\ pc'[s] = pc[s] /\ called'[s] = called[s]
    BY <1>5 DEF AcceptedAnswer, TypeOK
  <2>1. CallsInTime'
    BY <1>5, <2>0 DEF AcceptedAnswer, Inv, CallsInTime, BudgetHolds, Deadline, Active
  <2>2. AnswerAccepted'
    BY <1>5, <2>0 DEF AcceptedAnswer, Inv, AnswerAccepted, Line
  <2> QED
    BY <1>1, <1>5, <2>1, <2>2 DEF AcceptedAnswer, Inv
<1>6. ASSUME NEW r \in Runs, Commit(r) PROVE Inv'
  <2>0. /\ mine'[r] = {} /\ cache' = cache \cup mine[r] /\ pc'[r] = "done"
        /\ UNCHANGED <<now, records, answer>>
        /\ \A s \in Runs \ {r} : /\ mine'[s] = mine[s] /\ pc'[s] = pc[s] /\ called'[s] = called[s]
                                 /\ begun'[s] = begun[s] /\ waited'[s] = waited[s]
    BY <1>6 DEF Commit, Forget, Goto, TypeOK
  <2>1. CallsInTime'
    BY <2>0 DEF Inv, CallsInTime, BudgetHolds, Deadline, Active
  <2>2. RowsApart'
    BY <2>0 DEF Inv, RowsApart, HasLine
  <2>3. RecordsFitLines' /\ CachedStays'
    BY <2>0 DEF Inv, RecordsFitLines, CachedStays, Fits, AsDecided
  <2>4. RowsBehind'
    BY <2>0 DEF Inv, RowsBehind
  <2> QED
    BY <1>2, <2>0, <2>1, <2>2, <2>3, <2>4 DEF Inv
<1>7. ASSUME NEW r \in Runs, RollBack(r) PROVE Inv'
  <2>0. /\ mine'[r] = {} /\ records'[r] = << >> /\ pc'[r] = "failed" /\ answer'[r] = None
        /\ UNCHANGED <<now, cache>>
        /\ \A s \in Runs \ {r} : /\ mine'[s] = mine[s] /\ pc'[s] = pc[s] /\ records'[s] = records[s]
                                 /\ answer'[s] = answer[s] /\ called'[s] = called[s]
                                 /\ begun'[s] = begun[s] /\ waited'[s] = waited[s]
    BY <1>7 DEF RollBack, Forget, Goto, TypeOK
  <2>1. CallsInTime'
    BY <2>0 DEF Inv, CallsInTime, BudgetHolds, Deadline, Active
  <2>2. RowsApart'
    BY <2>0 DEF Inv, RowsApart, HasLine
  <2>3. RecordsFitLines'
    BY <2>0 DEF Inv, RecordsFitLines, Fits, AsDecided
  <2>4. CachedStays'
    BY <2>0 DEF Inv, CachedStays
  <2>5. RowsBehind' /\ AnswerAccepted'
    BY <2>0 DEF Inv, RowsBehind, AnswerAccepted, Line
  <2> QED
    BY <2>1, <2>2, <2>3, <2>4, <2>5 DEF Inv
<1>8. ASSUME Tick PROVE Inv'
  <2>0. /\ now' = now + 1 /\ UNCHANGED <<pc, begun, called, answer, records, mine, cache>>
        /\ \A r \in Runs : Active(r) => pc[r] = "calling" \/ r \in Blocked
        /\ \A r \in Runs : pc[r] = "calling" => now < called[r] + Timeout
        /\ \A r \in Runs : waited'[r] = IF r \in Blocked THEN waited[r] + 1 ELSE waited[r]
    BY <1>8 DEF Tick, Calling
  <2>1. CallsInTime'
    <3>1. ASSUME NEW r \in Runs, pc[r] = "calling" PROVE now' <= called[r] + Timeout
      BY <2>0, <3>1, TimesAssumption DEF TypeOK
    <3>2. ASSUME NEW r \in Runs, Active(r) PROVE now' <= Deadline(r) + Timeout + waited'[r]
      <4>1. CASE pc[r] = "calling"
        <5>1. waited'[r] \in Nat
          BY <1>0, <2>0
        <5>2. called[r] <= begun[r] + Budget /\ now' <= called[r] + Timeout
          BY <3>1, <4>1 DEF Inv, CallsInTime, Deadline
        <5>3. now' \in Nat
          BY <1>0, <2>0
        <5> QED
          BY <1>0, <5>1, <5>2, <5>3 DEF Deadline
      <4>2. CASE r \in Blocked
        BY <2>0, <3>2, <4>2, TimesAssumption DEF TypeOK, Inv, CallsInTime, BudgetHolds, Deadline
      <4> QED
        BY <2>0, <3>2, <4>1, <4>2
    <3> QED
      BY <2>0, <3>1, <3>2 DEF Inv, CallsInTime, BudgetHolds, Deadline, Active
  <2> QED
    BY <1>1, <1>2, <2>0, <2>1 DEF Inv
<1>9. ASSUME UNCHANGED vars PROVE Inv'
  <2>1. CallsInTime'
    BY <1>9 DEF vars, Inv, CallsInTime, BudgetHolds, Deadline, Active
  <2> QED
    BY <1>1, <1>2, <1>9, <2>1 DEF vars, Inv
<1> QED
  BY <1>3, <1>4, <1>5, <1>6, <1>7, <1>8, <1>9, StepsOfARun, InvLineEnds DEF Next, Inv

-----------------------------------------------------------------------------
(* The theorems. *)

THEOREM Invariants == Spec => [](TypeOK /\ Inv)
<1>1. Init => TypeOK /\ Inv
  BY TypeInit, InvInit
<1>2. TypeOK /\ Inv /\ [Next]_vars => TypeOK' /\ Inv'
  BY TypeStep, InvStep DEF Inv
<1> QED
  BY <1>1, <1>2, PTL DEF Spec

(* Runs, answers, records and cache rows keep their types; only a run that is going
   holds rows. *)
THEOREM TypeCorrect == Spec => []TypeOK
BY Invariants, PTL

(* However a text came by, a record says of itself what it is. *)
THEOREM ModelTextAlwaysBacked == Spec => []ModelTextIsBacked
<1>1. TypeOK /\ Inv => ModelTextIsBacked
  <2> SUFFICES ASSUME TypeOK, Inv, NEW r \in Runs, NEW e \in Range(records[r]), e.source = "model"
               PROVE /\ e.text.words \cup e.text.argues = {e.decision}
                     /\ e.text.nearClaim \subseteq {AmountOf[e.line]} \ {None}
                     /\ e.text.quotes \subseteq TokensOf[e.line]
    BY DEF ModelTextIsBacked
  <2>1. PICK i \in DOMAIN records[r] : records[r][i] = e
    BY DEF Range
  <2>2. Fits(Order[i], e)
    BY <2>1 DEF Inv, RecordsFitLines
  <2>3. Accepts(e.text, Trace(e.line)) /\ e.decision = DecisionOf[e.line].decision
    BY <2>2 DEF Fits, AsDecided
  <2> QED
    BY <2>3 DEF Accepts, SaysTheDecision, NamesTheAmount, QuotesTheTrace, Trace
<1> QED
  BY <1>1, Invariants, PTL

(* The first text stored for a trace is the one every run reads. *)
THEOREM FirstTextAlwaysStays == Spec => []FirstTextStays
<1>1. Inv => FirstTextStays
  BY DEF Inv, RowsApart, CachedStays, FirstTextStays
<1> QED
  BY <1>1, Invariants, PTL

(* Whoever is waited for is further down the order, so runs never wait in a circle. *)
THEOREM NoCircleOfRuns == Spec => []WaitsForOneAhead
<1>1. TypeOK /\ Inv => WaitsForOneAhead
  <2> SUFFICES ASSUME TypeOK, Inv, NEW r \in Runs, NEW s \in WaitsFor(r)
               PROVE Len(records[s]) > Len(records[r])
    BY DEF WaitsForOneAhead
  <2>1. PICK row \in mine[s] : row[1] = Line(r)
    BY DEF WaitsFor, HasLine
  <2>2. s \in Runs /\ pc[r] = "storing"
    BY DEF WaitsFor
  <2>3. PICK i \in 1..Len(records[s]) : row[1] = Order[i]
    BY <2>2 DEF Inv, RowsBehind
  <2>4. /\ Len(records[r]) \in Nat /\ Len(records[s]) \in Nat /\ Len(Order) \in Nat
        /\ Len(records[s]) <= Len(Order) /\ Len(records[r]) < Len(Order)
        /\ DOMAIN Order = 1..Len(Order)
    BY <2>2, OrderAssumption DEF TypeOK
  <2>5. i \in DOMAIN Order /\ Len(records[r]) + 1 \in DOMAIN Order
    BY <2>4
  <2>6. i = Len(records[r]) + 1
    BY <2>1, <2>3, <2>5, OrderAssumption DEF Line
  <2> QED
    BY <2>4, <2>6
<1> QED
  BY <1>1, Invariants, PTL

(* A run lasts no longer than its budget, one call and what it waited for others. *)
THEOREM BudgetAlwaysHolds == Spec => []BudgetHolds
<1>1. Inv => BudgetHolds
  BY DEF Inv, CallsInTime
<1> QED
  BY <1>1, Invariants, PTL

-----------------------------------------------------------------------------
(* What was charged for. *)

(* The lines a run was charged for are those it has left behind, and the one whose answer
   it is about to store. *)
BillsBehind ==
  \A r \in Runs : pc[r] # "failed" =>
    /\ \A l \in billed[r] :
         (\E i \in 1..Len(records[r]) : l = Order[i]) \/ (pc[r] = "storing" /\ l = Line(r))
    /\ pc[r] = "storing" => Line(r) \in billed[r]

Traced(r, e) ==
  /\ e.tokens => e.line \in billed[r]
  /\ e.line \in billed[r] => e.tokens \/ e.why \in Losses

RecordsTraced == \A r \in Runs : \A i \in DOMAIN records[r] : Traced(r, records[r][i])

Pays(e, row) == e.line = row[1] /\ ((e.tokens /\ e.text = row[2]) \/ e.why = "step failed")

PaidBy(r, row) == row[1] \in billed[r] /\ \E i \in DOMAIN records[r] : Pays(records[r][i], row)

(* Rows that are not committed yet were paid for by the run that holds them. *)
RowsPaid ==
  /\ \A r \in Runs : \A row \in mine[r] : PaidBy(r, row)
  /\ \A row \in cache \ Leftovers : \E r \in Runs : pc[r] = "done" /\ PaidBy(r, row)

AllAccounted == BillsBehind /\ RecordsTraced /\ RowsPaid

(* A line that ends. *)
LEMMA LineEndsAccounted ==
  ASSUME TypeOK, Inv, AllAccounted, NEW r \in Runs, LineEnds(r)
  PROVE  AllAccounted'
<1>1. PICK e \in Records, rows \in SUBSET (Range(Order) \X Texts) : Ends(r, e, rows)
  BY DEF LineEnds
<1> DEFINE n == Len(records[r])
<1>2. /\ Len(records'[r]) = n + 1 /\ records'[r][n + 1] = e
      /\ \A i \in 1..n : records'[r][i] = records[r][i]
      /\ DOMAIN records'[r] = 1..(n + 1) /\ DOMAIN records[r] = 1..n
      /\ n \in Nat /\ Len(Order) \in Nat /\ \A s \in Runs \ {r} : records'[s] = records[s]
  BY <1>1, RecordsGrow DEF Ends
<1>3. /\ mine'[r] = rows /\ \A s \in Runs \ {r} : mine'[s] = mine[s]
      /\ pc'[r] = "explaining" /\ \A s \in Runs \ {r} : pc'[s] = pc[s]
      /\ cache' = cache /\ pc[r] \notin {"failed", "done"}
  BY <1>1 DEF Ends, Active, TypeOK
<1>4. /\ n < Len(Order) /\ Order[n + 1] = Line(r) /\ e.line = Line(r) /\ e.tokens \in BOOLEAN
  BY <1>1 DEF Ends, Fits, Line, Records
<1>5. Bills(r, e) /\ RowsAfter(r, rows) /\ (rows \subseteq mine[r] \/ Keeps(r, e))
  BY <1>1 DEF Ends
<1> HIDE DEF n
<1>6. /\ \A s \in Runs \ {r} : billed'[s] = billed[s]
      /\ billed[r] \subseteq billed'[r]
      /\ \A l \in billed'[r] : l \in billed[r] \/ l = Line(r)
  <2>1. CASE billed' = billed
    BY <2>1
  <2>2. CASE billed' = Billed(r)
    BY <2>2 DEF Billed, TypeOK
  <2> QED
    BY <1>5, <2>1, <2>2 DEF Bills
(* Lines that are behind are others. *)
<1>7. \A i \in 1..n : i \in 1..(n + 1) /\ Order[i] # Line(r)
  <2>1. DOMAIN Order = 1..Len(Order)
    BY OrderAssumption
  <2> SUFFICES ASSUME NEW i \in 1..n PROVE i \in 1..(n + 1) /\ Order[i] # Line(r)
    OBVIOUS
  <2>2. i \in DOMAIN Order /\ n + 1 \in DOMAIN Order /\ i # n + 1 /\ i \in 1..(n + 1)
    BY <1>2, <1>4, <2>1
  <2> QED
    BY <1>4, <2>2, OrderAssumption
<1>8. pc[r] # "storing" => Line(r) \notin billed[r]
  <2> SUFFICES ASSUME pc[r] # "storing", Line(r) \in billed[r] PROVE FALSE
    OBVIOUS
  <2>1. PICK i \in 1..Len(records[r]) : Line(r) = Order[i]
    BY <1>3 DEF AllAccounted, BillsBehind
  <2> QED
    BY <1>7, <2>1 DEF n
<1>9. pc[r] = "storing" => Line(r) \in billed'[r]
  BY <1>3, <1>6 DEF AllAccounted, BillsBehind
<1>10. Traced(r, e)'
  <2>1. CASE billed' = billed /\ pc[r] # "storing" /\ ~e.tokens
    BY <1>4, <1>8, <2>1 DEF Traced
  <2>2. CASE /\ billed' = Billed(r) \/ (billed' = billed /\ pc[r] = "storing")
             /\ e.tokens \/ e.why \in Losses
    <3>1. Line(r) \in billed'[r]
      BY <1>9, <2>2 DEF Billed, TypeOK
    <3> QED
      BY <1>4, <2>2, <3>1 DEF Traced
  <2> QED
    BY <1>5, <2>1, <2>2 DEF Bills
<1>11. BillsBehind'
  <2> SUFFICES ASSUME NEW s \in Runs, pc'[s] # "failed"
               PROVE  /\ \A l \in billed'[s] : \/ \E i \in 1..Len(records'[s]) : l = Order[i]
                                               \/ pc'[s] = "storing" /\ l = Line(s)'
                      /\ pc'[s] = "storing" => Line(s)' \in billed'[s]
    BY DEF BillsBehind
  <2>1. CASE s # r
    <3>1. pc'[s] = pc[s] /\ billed'[s] = billed[s] /\ records'[s] = records[s]
      BY <1>2, <1>3, <1>6, <2>1
    <3>2. Line(s)' = Line(s)
      BY <3>1 DEF Line
    <3>3. /\ \A l \in billed[s] :
               (\E i \in 1..Len(records[s]) : l = Order[i]) \/ (pc[s] = "storing" /\ l = Line(s))
          /\ pc[s] = "storing" => Line(s) \in billed[s]
      BY <3>1 DEF AllAccounted, BillsBehind
    <3> QED
      BY <3>1, <3>2, <3>3
  <2>2. CASE s = r
    <3> SUFFICES ASSUME NEW l \in billed'[r] PROVE \E i \in 1..Len(records'[r]) : l = Order[i]
      BY <1>3, <2>2
    <3>1. CASE l = Line(r)
      <4>1. n + 1 \in 1..Len(records'[r])
        BY <1>2
      <4> QED
        BY <1>4, <3>1, <4>1
    <3>2. CASE l \in billed[r] /\ l # Line(r)
      <4>1. PICK i \in 1..n : l = Order[i]
        BY <1>3, <3>2 DEF AllAccounted, BillsBehind, n
      <4> QED
        BY <1>2, <1>7, <4>1
    <3> QED
      BY <1>6, <3>1, <3>2
  <2> QED
    BY <2>1, <2>2
<1>12. RecordsTraced'
  <2> SUFFICES ASSUME NEW s \in Runs, NEW i \in DOMAIN records'[s], NEW x, x = records'[s][i]
               PROVE Traced(s, x)'
    BY DEF RecordsTraced, Traced
  <2>1. CASE s # r
    BY <1>2, <1>6, <2>1 DEF AllAccounted, RecordsTraced, Traced
  <2>2. CASE s = r /\ i \in 1..n
    <3>1. x = records[r][i] /\ Traced(r, x)
      BY <1>2, <2>2 DEF AllAccounted, RecordsTraced
    <3>2. x.line # Line(r)
      <4>1. Fits(Order[i], records[r][i])
        BY <1>2, <2>2 DEF Inv, RecordsFitLines
      <4> QED
        BY <1>7, <2>2, <3>1, <4>1 DEF Fits
    <3> QED
      BY <1>6, <2>2, <3>1, <3>2 DEF Traced
  <2>3. CASE s = r /\ i = n + 1
    BY <1>2, <1>10, <2>3
  <2> QED
    BY <1>2, <2>1, <2>2, <2>3
(* A row that is paid for stays so. *)
<1>13. ASSUME NEW s \in Runs, NEW row, PaidBy(s, row) PROVE PaidBy(s, row)'
  <2>1. PICK i \in DOMAIN records[s] : Pays(records[s][i], row)
    BY <1>13 DEF PaidBy
  <2>2. i \in DOMAIN records'[s] /\ records'[s][i] = records[s][i]
    BY <1>2, <1>7
  <2>3. row[1] \in billed'[s]
    BY <1>6, <1>13 DEF PaidBy
  <2> QED
    BY <2>1, <2>2, <2>3 DEF PaidBy, Pays
<1>14. ASSUME NEW row \in rows PROVE PaidBy(r, row)'
  <2>1. CASE row \in mine[r]
    BY <1>13, <2>1 DEF AllAccounted, RowsPaid
  <2>2. CASE row \notin mine[r]
    <3>1. row = OwnRow(r) /\ pc[r] = "storing" /\ Keeps(r, e)
      BY <1>5, <2>2 DEF RowsAfter
    <3>2. row[1] = Line(r) /\ row[2] = answer[r]
      BY <3>1 DEF OwnRow
    <3>3. Pays(e, row)
      BY <1>4, <3>1, <3>2 DEF Pays, Keeps
    <3>4. n + 1 \in DOMAIN records'[r] /\ Pays(records'[r][n + 1], row)
      BY <1>2, <3>3
    <3>5. row[1] \in billed'[r]
      BY <1>9, <3>1, <3>2
    <3> QED
      BY <3>4, <3>5 DEF PaidBy, Pays
  <2> QED
    BY <2>1, <2>2
<1>15. RowsPaid'
  <2>1. ASSUME NEW s \in Runs, NEW row \in mine'[s] PROVE PaidBy(s, row)'
    BY <1>3, <1>13, <1>14, <2>1 DEF AllAccounted, RowsPaid
  <2>2. ASSUME NEW row \in cache' \ Leftovers PROVE \E s \in Runs : pc'[s] = "done" /\ PaidBy(s, row)'
    <3>1. PICK s \in Runs : pc[s] = "done" /\ PaidBy(s, row)
      BY <1>3, <2>2 DEF AllAccounted, RowsPaid
    <3>2. pc'[s] = "done" /\ PaidBy(s, row)'
      BY <1>3, <1>13, <3>1
    <3> QED
      BY <3>2
  <2> QED
    BY <2>1, <2>2 DEF RowsPaid, Leftovers
<1> QED
  BY <1>11, <1>12, <1>15 DEF AllAccounted

(* Of what a run was charged for nothing is forgotten before it fails: every line it has
   asked about has a record with the tokens, or with the failure that lost them, and every
   text it holds or has left in the cache was charged to it. *)
THEOREM EveryCallIsAccountedFor == Spec => []AllAccounted
<1>1. Init => AllAccounted
  <2> SUFFICES ASSUME Init PROVE AllAccounted
    OBVIOUS
  <2>1. \A r \in Runs : records[r] = << >> /\ billed[r] = {} /\ mine[r] = {} /\ pc[r] = "waiting"
    BY DEF Init
  <2>2. cache = Leftovers
    BY DEF Init
  <2> QED
    BY <2>1, <2>2 DEF AllAccounted, BillsBehind, RecordsTraced, RowsPaid
<1>2. TypeOK /\ Inv /\ AllAccounted /\ [Next]_vars => AllAccounted'
  <2> SUFFICES ASSUME TypeOK, Inv, AllAccounted, [Next]_vars PROVE AllAccounted'
    OBVIOUS
  <2>1. ASSUME UNCHANGED <<records, billed>>
        PROVE  /\ RecordsTraced'
               /\ \A s \in Runs : \A row : PaidBy(s, row) => PaidBy(s, row)'
    BY <2>1 DEF AllAccounted, RecordsTraced, Traced, PaidBy, Pays
  (* Steps that show nothing but where a run is. *)
  <2>2. ASSUME UNCHANGED <<records, billed, mine, cache>>,
               \A s \in Runs : pc'[s] = pc[s] \/ (pc[s] \notin {"storing", "done", "failed"} /\ pc'[s] # "storing")
        PROVE  AllAccounted'
    <3>1. BillsBehind'
      BY <2>2 DEF AllAccounted, BillsBehind, Line
    <3>2. RowsPaid'
      BY <2>1, <2>2 DEF AllAccounted, RowsPaid, Leftovers
    <3> QED
      BY <2>1, <2>2, <3>1, <3>2 DEF AllAccounted
  <2>3. ASSUME NEW r \in Runs, Begin(r) \/ Ask(r) PROVE AllAccounted'
    <3>1. UNCHANGED <<records, billed, mine, cache>>
      BY <2>3 DEF Begin, Ask, Outside
    <3>2. /\ pc[r] \in {"waiting", "explaining"} /\ pc'[r] \in {"explaining", "calling"}
          /\ \A s \in Runs \ {r} : pc'[s] = pc[s]
      BY <2>3 DEF Begin, Ask, IsSent, AtLine, Goto, TypeOK
    <3> QED
      BY <2>2, <3>1, <3>2
  <2>4. ASSUME NEW r \in Runs, NEW t \in Texts, AcceptedAnswer(r, t) PROVE AllAccounted'
    <3>1. /\ UNCHANGED <<records, mine, cache>> /\ pc[r] = "calling" /\ pc'[r] = "storing"
          /\ \A s \in Runs \ {r} : pc'[s] = pc[s] /\ billed'[s] = billed[s]
          /\ billed'[r] = billed[r] \cup {Line(r)} /\ Line(r)' = Line(r)
      BY <2>4 DEF AcceptedAnswer, Billed, Line, TypeOK
    <3>2. \A i \in DOMAIN records[r] : records[r][i].line # Line(r)
      <4> SUFFICES ASSUME NEW i \in DOMAIN records[r] PROVE records[r][i].line # Line(r)
        OBVIOUS
      <4>1. records[r][i].line = Order[i]
        BY DEF Inv, RecordsFitLines, Fits
      <4>2. /\ Len(records[r]) \in Nat /\ DOMAIN records[r] = 1..Len(records[r]) /\ Len(Order) \in Nat
            /\ Len(records[r]) < Len(Order) /\ DOMAIN Order = 1..Len(Order)
        BY <3>1, OrderAssumption DEF TypeOK
      <4>3. i \in DOMAIN Order /\ Len(records[r]) + 1 \in DOMAIN Order /\ i # Len(records[r]) + 1
        BY <4>2
      <4> QED
        BY <4>1, <4>3, OrderAssumption DEF Line
    <3>3. BillsBehind'
      BY <3>1 DEF AllAccounted, BillsBehind, Line
    <3>4. RecordsTraced'
      BY <3>1, <3>2 DEF AllAccounted, RecordsTraced, Traced
    <3>5. ASSUME NEW s \in Runs, NEW row, PaidBy(s, row) PROVE PaidBy(s, row)'
      BY <3>1, <3>5 DEF PaidBy, Pays
    <3>6. RowsPaid'
      <4>1. ASSUME NEW row \in cache' \ Leftovers PROVE \E s \in Runs : pc'[s] = "done" /\ PaidBy(s, row)'
        <5>1. PICK s \in Runs : pc[s] = "done" /\ PaidBy(s, row)
          BY <3>1, <4>1 DEF AllAccounted, RowsPaid
        <5> QED
          BY <3>1, <3>5, <5>1
      <4> QED
        BY <3>1, <3>5, <4>1 DEF AllAccounted, RowsPaid, Leftovers
    <3> QED
      BY <3>3, <3>4, <3>6 DEF AllAccounted
  <2>5. ASSUME NEW r \in Runs, Commit(r) PROVE AllAccounted'
    <3>1. /\ UNCHANGED <<records, billed>> /\ mine'[r] = {} /\ cache' = cache \cup mine[r]
          /\ pc[r] = "explaining" /\ pc'[r] = "done"
          /\ \A s \in Runs \ {r} : mine'[s] = mine[s] /\ pc'[s] = pc[s]
      BY <2>5 DEF Commit, Goto, TypeOK
    <3>2. BillsBehind'
      BY <3>1 DEF AllAccounted, BillsBehind, Line
    <3>3. ASSUME NEW row \in cache' \ Leftovers PROVE \E s \in Runs : pc'[s] = "done" /\ PaidBy(s, row)'
      <4>1. CASE row \in mine[r]
        BY <2>1, <3>1, <4>1 DEF AllAccounted, RowsPaid
      <4>2. CASE row \in cache
        <5>1. PICK s \in Runs : pc[s] = "done" /\ PaidBy(s, row)
          BY <3>3, <4>2 DEF AllAccounted, RowsPaid
        <5> QED
          BY <2>1, <3>1, <5>1
      <4> QED
        BY <3>1, <3>3, <4>1, <4>2
    <3>4. RowsPaid'
      BY <2>1, <3>1, <3>3 DEF AllAccounted, RowsPaid, Leftovers
    <3> QED
      BY <2>1, <3>1, <3>2, <3>4 DEF AllAccounted
  <2>6. ASSUME NEW r \in Runs, RollBack(r) PROVE AllAccounted'
    <3>1. /\ UNCHANGED <<billed, cache>> /\ mine'[r] = {} /\ records'[r] = << >>
          /\ pc[r] # "done" /\ pc'[r] = "failed"
          /\ \A s \in Runs \ {r} : mine'[s] = mine[s] /\ pc'[s] = pc[s] /\ records'[s] = records[s]
      BY <2>6 DEF RollBack, Goto, Active, TypeOK
    <3>2. BillsBehind'
      BY <3>1 DEF AllAccounted, BillsBehind, Line
    <3>3. RecordsTraced'
      BY <3>1 DEF AllAccounted, RecordsTraced, Traced
    <3>4. ASSUME NEW s \in Runs \ {r}, NEW row, PaidBy(s, row) PROVE PaidBy(s, row)'
      BY <3>1, <3>4 DEF PaidBy, Pays
    <3>5. ASSUME NEW row \in cache' \ Leftovers PROVE \E s \in Runs : pc'[s] = "done" /\ PaidBy(s, row)'
      <4>1. PICK s \in Runs : pc[s] = "done" /\ PaidBy(s, row)
        BY <3>1, <3>5 DEF AllAccounted, RowsPaid
      <4> QED
        BY <3>1, <3>4, <4>1
    <3>6. RowsPaid'
      BY <3>1, <3>4, <3>5 DEF AllAccounted, RowsPaid, Leftovers
    <3> QED
      BY <3>2, <3>3, <3>6 DEF AllAccounted
  <2>7. CASE Tick \/ UNCHANGED vars
    <3>1. UNCHANGED <<records, billed, mine, cache, pc>>
      BY <2>7 DEF Tick, vars
    <3> QED
      BY <2>2, <3>1
  <2> QED
    BY <2>3, <2>4, <2>5, <2>6, <2>7, StepsOfARun, LineEndsAccounted DEF Next, Inv
<1> QED
  BY <1>1, <1>2, Invariants, PTL DEF Spec

(* A record shows tokens only of a call that was made for its line, a call that was
   charged for has its tokens on a record or a record that names what lost them, and a
   text in the cache was charged to a stored run. *)
THEOREM CallsAlwaysAccountedFor == Spec => []CallsAreAccountedFor
<1>1. AllAccounted => CallsAreAccountedFor
  <2> SUFFICES ASSUME AllAccounted PROVE CallsAreAccountedFor
    OBVIOUS
  <2>1. ASSUME NEW r \in Runs, NEW e \in Range(records[r])
        PROVE  /\ e.tokens => e.line \in billed[r]
               /\ e.line \in billed[r] => e.tokens \/ e.why \in {"call failed", "step failed", "failed open"}
    <3>1. PICK i \in DOMAIN records[r] : e = records[r][i]
      BY <2>1 DEF Range
    <3> QED
      BY <3>1 DEF AllAccounted, RecordsTraced, Traced, Losses
  <2>2. ASSUME NEW row \in cache \ Leftovers
        PROVE  \E r \in Runs :
                 /\ pc[r] = "done" /\ row[1] \in billed[r]
                 /\ \E e \in Range(records[r]) :
                      e.line = row[1] /\ ((e.tokens /\ e.text = row[2]) \/ e.why = "step failed")
    <3>1. PICK r \in Runs : pc[r] = "done" /\ PaidBy(r, row)
      BY <2>2 DEF AllAccounted, RowsPaid
    <3>2. PICK i \in DOMAIN records[r] : Pays(records[r][i], row)
      BY <3>1 DEF PaidBy
    <3>3. records[r][i] \in Range(records[r])
      BY DEF Range
    <3> QED
      BY <3>1, <3>2, <3>3 DEF PaidBy, Pays
  <2> QED
    BY <2>1, <2>2 DEF CallsAreAccountedFor
<1> QED
  BY <1>1, EveryCallIsAccountedFor, PTL

-----------------------------------------------------------------------------
(* The refinement. *)

Entry(e) == [line |-> e.line, decision |-> e.decision, status |-> e.status]

logMapped == [r \in Runs |-> [i \in DOMAIN records[r] |-> Entry(records[r][i])]]

storedMapped == {r \in Runs : pc[r] = "done"}

decidedMapped ==
  [l \in Range(Order) |-> [line |-> l, decision |-> DecisionOf[l].decision, status |-> DecisionOf[l].status]]

failedMapped == [l \in Range(Order) |-> [line |-> l, decision |-> "REVIEW", status |-> "pending"]]

bar == <<logMapped, storedMapped>>

(* A line that ends is one entry more: the line's own, decided or failed open. *)
LEMMA LineEndsDecides ==
  ASSUME TypeOK, NEW r \in Runs, LineEnds(r)
  PROVE Engine!Decide(r)
<1>1. PICK e \in Records, rows \in SUBSET (Range(Order) \X Texts) : Ends(r, e, rows)
  BY DEF LineEnds
<1> DEFINE n == Len(records[r])  log == logMapped[r]
<1>2. /\ Len(records'[r]) = n + 1 /\ records'[r][n + 1] = e
      /\ \A i \in 1..n : records'[r][i] = records[r][i]
      /\ DOMAIN records'[r] = 1..(n + 1) /\ DOMAIN records[r] = 1..n
      /\ n \in Nat /\ \A s \in Runs \ {r} : records'[s] = records[s]
  BY <1>1, RecordsGrow DEF Ends
<1>3. log = [i \in 1..n |-> Entry(records[r][i])]
  BY <1>2 DEF logMapped
<1>4. Len(log) = n
  BY <1>2, <1>3
<1>5. logMapped'[r] = Append(log, Entry(e))
  <2>1. logMapped'[r] = [i \in 1..(n + 1) |-> Entry(records'[r][i])]
    BY <1>2 DEF logMapped
  <2>2. Append(log, Entry(e)) = [i \in 1..(n + 1) |-> IF i = n + 1 THEN Entry(e) ELSE Entry(records[r][i])]
    BY <1>2, <1>3, <1>4
  <2>3. \A i \in 1..(n + 1) :
          Entry(records'[r][i]) = IF i = n + 1 THEN Entry(e) ELSE Entry(records[r][i])
    BY <1>2
  <2> HIDE DEF n, log
  <2> QED
    BY <2>1, <2>2, <2>3
<1>6. logMapped' = [logMapped EXCEPT ![r] = Append(@, Entry(e))]
  <2>1. \A s \in Runs \ {r} : logMapped'[s] = logMapped[s]
    BY <1>2 DEF logMapped
  <2> QED
    BY <1>5, <2>1 DEF logMapped
<1>7. storedMapped' = storedMapped /\ r \notin storedMapped
  BY <1>1 DEF Ends, storedMapped, TypeOK, Active
<1>8. n < Len(Order) /\ Order[n + 1] = Line(r) /\ Line(r) \in Range(Order)
  BY <1>1, LineIsListed DEF Ends, Line
<1>9. Entry(e) \in {decidedMapped[Line(r)], failedMapped[Line(r)]}
  <2> DEFINE l == Line(r)
  <2>1. e.line = l /\ (AsDecided(l, e) \/ (e.decision = "REVIEW" /\ e.status = "pending"))
    BY <1>1 DEF Ends, Fits
  <2>2. decidedMapped[l] = [line |-> l, decision |-> DecisionOf[l].decision, status |-> DecisionOf[l].status]
    BY <1>8 DEF decidedMapped
  <2>3. failedMapped[l] = [line |-> l, decision |-> "REVIEW", status |-> "pending"]
    BY <1>8 DEF failedMapped
  <2> QED
    BY <2>1, <2>2, <2>3 DEF AsDecided, Entry
<1> DEFINE next == Order[Len(logMapped[r]) + 1]
           Grows(x) == logMapped' = [logMapped EXCEPT ![r] = Append(@, x)]
<1>10. next = Line(r) /\ r \notin storedMapped /\ Len(logMapped[r]) < Len(Order)
  BY <1>4, <1>7, <1>8
<1>11. Grows(decidedMapped[next]) \/ Grows(failedMapped[next])
  <2> HIDE DEF next
  <2>1. decidedMapped[next] = Entry(e) \/ failedMapped[next] = Entry(e)
    BY <1>9, <1>10
  <2>2. CASE decidedMapped[next] = Entry(e)
    BY <1>6, <2>2
  <2>3. CASE failedMapped[next] = Entry(e)
    BY <1>6, <2>3
  <2> QED
    BY <2>1, <2>2, <2>3
<1>12. CASE Grows(decidedMapped[next])
  <2>1. Engine!Append1(r, decidedMapped[next])
    BY <1>7, <1>12 DEF Engine!Append1, logMapped, storedMapped, decidedMapped, Entry
  <2> QED
    BY <1>10, <2>1 DEF Engine!Decide, logMapped, storedMapped, decidedMapped, Entry
<1>13. CASE Grows(failedMapped[next])
  <2>1. Engine!Append1(r, failedMapped[next])
    BY <1>7, <1>13 DEF Engine!Append1, logMapped, storedMapped, failedMapped, Entry
  <2> QED
    BY <1>10, <2>1 DEF Engine!Decide, logMapped, storedMapped, failedMapped, Entry
<1> QED
  BY <1>11, <1>12, <1>13

(* Explanations, their cache, their calls and their waits only delay what a run stores: a
   line that ends is the engine's entry for it, and every other step but the commit and
   the rollback does not show. *)
THEOREM ExplainImplementsDecisions == Spec => ExplanationsChangeNoDecision
<1>1. Init => Engine!Init
  BY DEF Init, Engine!Init
<1>2. TypeOK /\ Inv /\ [Next]_vars => [Engine!Next]_bar
  <2> SUFFICES ASSUME TypeOK, Inv, [Next]_vars PROVE [Engine!Next]_bar
    OBVIOUS
  <2>1. ASSUME UNCHANGED records, storedMapped' = storedMapped PROVE UNCHANGED bar
    BY <2>1 DEF bar, logMapped, Entry
  <2>2. ASSUME NEW r \in Runs, Begin(r) \/ Ask(r) \/ (\E t \in Texts : AcceptedAnswer(r, t)) PROVE UNCHANGED bar
    <3>1. UNCHANGED records /\ pc[r] # "done" /\ pc'[r] # "done" /\ \A s \in Runs \ {r} : pc'[s] = pc[s]
      BY <2>2 DEF Begin, Ask, IsSent, AtLine, AcceptedAnswer, Goto, TypeOK
    <3> QED
      BY <2>1, <3>1 DEF storedMapped
  <2>3. ASSUME NEW r \in Runs, Commit(r) PROVE Engine!Store(r)
    <3>1. storedMapped' = storedMapped \cup {r} /\ r \notin storedMapped
      BY <2>3 DEF Commit, Goto, TypeOK, storedMapped
    <3>2. logMapped' = logMapped
      BY <2>3 DEF Commit, logMapped, Entry
    <3>3. Len(logMapped[r]) = Len(records[r]) /\ Len(records[r]) = Len(Order)
      <4>1. records[r] \in Seq(Records)
        BY DEF TypeOK
      <4>2. logMapped[r] = [i \in 1..Len(records[r]) |-> Entry(records[r][i])]
        BY <4>1 DEF logMapped
      <4> QED
        BY <2>3, <4>1, <4>2 DEF Commit
    <3> QED
      BY <3>1, <3>2, <3>3 DEF Engine!Store, logMapped, storedMapped, Entry
  <2>4. ASSUME NEW r \in Runs, RollBack(r) PROVE Engine!RollBack(r)
    <3>1. storedMapped' = storedMapped /\ r \notin storedMapped
      BY <2>4 DEF RollBack, Goto, TypeOK, Active, storedMapped
    <3>2. logMapped' = [logMapped EXCEPT ![r] = << >>]
      <4>1. records'[r] = << >> /\ \A s \in Runs \ {r} : records'[s] = records[s]
        BY <2>4 DEF RollBack, TypeOK
      <4>2. logMapped'[r] = << >>
        <5>1. DOMAIN records'[r] = {}
          BY <4>1
        <5> QED
          BY <4>1, <5>1 DEF logMapped
      <4>3. \A s \in Runs \ {r} : logMapped'[s] = logMapped[s]
        BY <4>1 DEF logMapped
      <4> QED
        BY <4>2, <4>3 DEF logMapped
    <3> QED
      BY <3>1, <3>2 DEF Engine!RollBack, logMapped, storedMapped, Entry
  <2>5. CASE Tick \/ UNCHANGED vars
    BY <2>1, <2>5 DEF Tick, vars, storedMapped
  <2> QED
    BY <2>2, <2>3, <2>4, <2>5, StepsOfARun, LineEndsDecides DEF Next, Inv, Engine!Next
<1> QED
  BY <1>1, <1>2, Invariants, PTL
     DEF Spec, ExplanationsChangeNoDecision, Engine!Spec, Engine!vars, bar, logMapped, storedMapped, Entry
=============================================================================
