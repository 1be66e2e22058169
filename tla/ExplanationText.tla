-------------------------- MODULE ExplanationText --------------------------
(***************************************************************************)
(* What may be said of a decision: the trace of backend/app/llm/trace.py   *)
(* and the checks of backend/app/llm/validate.py on a model's answer.      *)
(*                                                                         *)
(* A text is what the checks find in an answer:                            *)
(*   [form, flaws, words, argues, currencies, nearClaim, quotes]           *)
(* form is "json" for an object with one string of sensible length; flaws  *)
(* are forbidden phrases, links, currency symbols, percentages, number     *)
(* words, negative numbers and dates not written YYYY-MM-DD; words are the *)
(* decisions it writes in capitals, argues those its wording argues for;   *)
(* nearClaim are the figures next to the word claim; quotes are its IDs,   *)
(* snake_case names, dates and numbers.                                    *)
(***************************************************************************)
EXTENDS FiniteSets

CONSTANTS
  DecisionOf,     \* line -> [decision, status]: what the engine decided
  AmountOf,       \* line -> the amount claimed, or None
  CurrencyOf,     \* line -> the currency
  TokensOf,       \* line -> what the record's own ids, names, dates and figures are
  None

(* build_trace: a record's own facts, without what differs from run to run. *)
Trace(l) ==
  [decision |-> DecisionOf[l].decision, amount |-> AmountOf[l], currency |-> CurrencyOf[l],
   tokens |-> TokensOf[l]]

WellFormed(text) == text.form = "json" /\ text.flaws = {}

SaysTheDecision(text, trace) ==
  text.words = {trace.decision} /\ text.argues \subseteq {trace.decision}

(* An amount next to "claim" is refused where nothing is claimed. *)
NamesTheAmount(text, trace) ==
  /\ text.currencies \subseteq {trace.currency}
  /\ \A m \in text.nearClaim : trace.amount # None /\ m = trace.amount

QuotesTheTrace(text, trace) == text.quotes \subseteq trace.tokens

(* Slip: only the capitals are read. *)
AcceptsCapitals(text, trace) ==
  WellFormed(text) /\ text.words = {trace.decision} /\ NamesTheAmount(text, trace)
    /\ QuotesTheTrace(text, trace)

(* validate_explanation. *)
Accepts(text, trace) ==
  WellFormed(text) /\ SaysTheDecision(text, trace) /\ NamesTheAmount(text, trace)
    /\ QuotesTheTrace(text, trace)
=============================================================================
