--------------------------- MODULE MCIntelligence ---------------------------
(* What the CRM may hold about an account in the runs.  Urgent: a contract  *)
(* about to end and an overdue deal, which make two signals, two risks, an  *)
(* insight and, at a score of 100, the advice to renew.  Mild: a contract   *)
(* that ends this quarter, whose score of 40 asks for nothing.  Calm: no    *)
(* signal at all.                                                           *)
EXTENDS Intelligence

Calm == [account |-> [contact |-> "recent", people |-> "decider", critical |-> FALSE,
                      engaged |-> FALSE, quoted |-> FALSE],
         deals |-> [stage |-> "moving", late |-> FALSE, ends |-> "far", renewal |-> "UNDERWAY"]]
Mild == [Calm EXCEPT !.deals.ends = "quarter"]
Urgent == [Calm EXCEPT !.deals.late = TRUE, !.deals.ends = "fortnight", !.deals.renewal = "NOT_STARTED"]

UrgentOrMild == {Urgent, Mild}
====
