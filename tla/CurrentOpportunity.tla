-------------------------- MODULE CurrentOpportunity --------------------------
(***************************************************************************)
(* Which of an opportunity's two summaries is shown, and with which status, *)
(* on a given day.                                                         *)
(***************************************************************************)
EXTENDS Naturals

CONSTANT MaxDay  \* bound: the last day a run reaches

ASSUME MaxDayAssumption == MaxDay \in Nat \ {0}

Kinds == {"forecast", "synopsis"}

\* A date, 0 where the column is null.
Date == 0 .. MaxDay + 1

Summary == [post : Date, close : Date, archive : Date]

\* No summary of this kind: like one without a post date it is never shown.
Absent == [post |-> 0, close |-> 0, archive |-> 0]

CurrentRow == [kind : Kinds, status : {"forecasted", "posted", "closed", "archived"}]

CanBePublic(summary, day) == summary.post # 0 /\ summary.post <= day

Passed(date, day) == date # 0 /\ date < day

StatusOf(kind, summary, day) ==
  IF Passed(summary.archive, day) THEN "archived"
  ELSE IF Passed(summary.close, day) THEN "closed"
  ELSE IF kind = "forecast" THEN "forecasted" ELSE "posted"

\* Mutant: the synopsis does not take the place of the forecast.
BothShown(draft, summaries, day) ==
  { [kind |-> k, status |-> StatusOf(k, summaries[k], day)] :
      k \in { k \in Kinds : ~draft /\ CanBePublic(summaries[k], day) } }

\* The current_opportunity_summary row there should be: none for a draft, else
\* the synopsis if it can be public, else the forecast if that can.
CurrentAndStatus(draft, summaries, day) ==
  { [kind |-> k, status |-> StatusOf(k, summaries[k], day)] :
      k \in { k \in Kinds : /\ ~draft
                            /\ CanBePublic(summaries[k], day)
                            /\ k = "synopsis" \/ ~CanBePublic(summaries["synopsis"], day) } }
===============================================================================
