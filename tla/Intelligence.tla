---------------------------- MODULE Intelligence ----------------------------
(***************************************************************************)
(* The rule engine of internal/intelligence: a run reads the CRM, turns the *)
(* conditions it finds into signals, scores risks from them, and writes     *)
(* insights and recommendations; people ignore signals, accept risks and    *)
(* answer recommendations meanwhile.                                        *)
(*                                                                          *)
(* Nothing in a run is transactional and nothing keeps the "analyze now"    *)
(* button from running beside the scheduler, so a run reads the CRM in two  *)
(* steps and writes each table in another.  The statements that write one   *)
(* table touch every row at most once and depend on nothing they wrote      *)
(* before, so they are one step, which a failure may leave half done.       *)
(* Every account has at most one deal, one contract and one critical        *)
(* request, so that the dedupe key of a row is its account and type.        *)
(***************************************************************************)
EXTENDS Integers, FiniteSets

CONSTANTS
    Account,      \* customers
    Leaving,      \* the customers that may be deactivated
    Situations,   \* what the CRM may hold about one account
    Desk,         \* people answering recommendations
    MaxFaults,    \* bound on failed statements and crashes
    MaxDecisions  \* bound on what people decide, a run included

(* AccountFacts are the counters of accountFacts cut at the thresholds of   *)
(* the rules: no contact for 30 or 60 days, contacts without or with a      *)
(* decision maker.  DealFacts are those of opportunityFacts and             *)
(* contractFacts: 30 or 60 days in a stage, days to the end of a contract.  *)
AccountFacts == [contact : {"recent", "quiet", "silent"}, people : {"decider", "others", "nobody"},
                 critical : BOOLEAN, engaged : BOOLEAN, quoted : BOOLEAN]
DealFacts == [stage : {"none", "moving", "stalled", "stuck"}, late : BOOLEAN,
              ends : {"far", "quarter", "month", "fortnight"},
              renewal : {"NOT_STARTED", "AUTO_RENEW", "UNDERWAY"}]
Situation == [account : AccountFacts, deals : DealFacts]

ASSUME SituationAssumption ==
    /\ Situations \subseteq Situation /\ Situations # {}
    /\ Account # {} /\ Leaving \subseteq Account
    /\ MaxFaults \in Nat /\ MaxDecisions \in Nat

SignalType == {"NO_CONTACT", "DECISION_MAKER_MISSING", "CRITICAL_VOC", "ENGAGEMENT_INCREASE",
               "QUOTE_REQUESTED", "DEAL_STALLED", "CLOSE_DATE_PASSED", "CONTRACT_EXPIRING"}
RiskType == {"RELATIONSHIP_RISK", "VOC_RISK", "RENEWAL_RISK", "DEAL_RISK"}
AdviceType == {"SCHEDULE_MEETING", "RESOLVE_VOC", "CREATE_RENEWAL", "ADVANCE_DEAL", "FOLLOW_UP_QUOTE"}

-----------------------------------------------------------------------------
(* The rules.  A signal is its type and its severity.                       *)

Raise(type, severity, condition) ==
    IF condition THEN {[type |-> type, severity |-> severity]} ELSE {}

AccountSignals(f) ==
    Raise("NO_CONTACT", IF f.contact = "silent" THEN "HIGH" ELSE "MEDIUM", f.contact # "recent")
    \cup Raise("DECISION_MAKER_MISSING", IF f.people = "nobody" THEN "HIGH" ELSE "MEDIUM", f.people # "decider")
    \cup Raise("CRITICAL_VOC", "CRITICAL", f.critical)
    \cup Raise("ENGAGEMENT_INCREASE", "LOW", f.engaged)
    \cup Raise("QUOTE_REQUESTED", "LOW", f.quoted)

OpportunitySignals(d) ==
    Raise("DEAL_STALLED", IF d.stage = "stuck" THEN "HIGH" ELSE "MEDIUM", d.stage \in {"stalled", "stuck"})
    \cup Raise("CLOSE_DATE_PASSED", "HIGH", d.stage # "none" /\ d.late)

ContractSignals(d) ==
    Raise("CONTRACT_EXPIRING",
          IF d.ends = "fortnight" /\ d.renewal = "NOT_STARTED" THEN "CRITICAL"
          ELSE IF d.ends = "quarter" THEN "MEDIUM" ELSE "HIGH",
          d.ends # "far")

(* What one pass finds about an account: the account's own rules only run   *)
(* when accountFacts listed it, the rules on its deals and contracts always.*)
Found(listed, s) ==
    (IF listed THEN AccountSignals(s.account) ELSE {})
    \cup OpportunitySignals(s.deals) \cup ContractSignals(s.deals)

Types(signals) == {s.type : s \in signals}
Has(signals, type, severity) == [type |-> type, severity |-> severity] \in signals
If(points, condition) == IF condition THEN points ELSE 0

(* scoreRisks: the factors of each kind of risk, before the cap at 100.     *)
Points(signals, deals, risk) ==
    CASE risk = "RELATIONSHIP_RISK" ->
             If(35, Has(signals, "NO_CONTACT", "MEDIUM")) + If(50, Has(signals, "NO_CONTACT", "HIGH"))
             + If(25, Has(signals, "DECISION_MAKER_MISSING", "MEDIUM"))
             + If(35, Has(signals, "DECISION_MAKER_MISSING", "HIGH"))
             - If(20, /\ "ENGAGEMENT_INCREASE" \in Types(signals)
                      /\ {"NO_CONTACT", "DECISION_MAKER_MISSING"} \cap Types(signals) # {})
      [] risk = "VOC_RISK" -> If(75, "CRITICAL_VOC" \in Types(signals))
      [] risk = "RENEWAL_RISK" ->
             If(40, Has(signals, "CONTRACT_EXPIRING", "MEDIUM")) + If(60, Has(signals, "CONTRACT_EXPIRING", "HIGH"))
             + If(85, Has(signals, "CONTRACT_EXPIRING", "CRITICAL"))
             + If(15, "CONTRACT_EXPIRING" \in Types(signals) /\ deals.renewal # "UNDERWAY")
      [] risk = "DEAL_RISK" ->
             If(45, Has(signals, "DEAL_STALLED", "MEDIUM")) + If(60, Has(signals, "DEAL_STALLED", "HIGH"))
             + If(55, "CLOSE_DATE_PASSED" \in Types(signals))

ScoreRisks(signals, deals) == {risk \in RiskType : Points(signals, deals, risk) > 0}

AdviceFor(risk) ==
    CASE risk = "RELATIONSHIP_RISK" -> "SCHEDULE_MEETING"
      [] risk = "VOC_RISK" -> "RESOLVE_VOC"
      [] risk = "RENEWAL_RISK" -> "CREATE_RENEWAL"
      [] risk = "DEAL_RISK" -> "ADVANCE_DEAL"

Recommend(signals, deals) ==
    LET urgent == {AdviceFor(risk) : risk \in {r \in RiskType : Points(signals, deals, r) >= 70}} IN
    urgent \cup (IF "QUOTE_REQUESTED" \in Types(signals) /\ "ADVANCE_DEAL" \notin urgent
                 THEN {"FOLLOW_UP_QUOTE"} ELSE {})

Negative == SignalType \ {"ENGAGEMENT_INCREASE", "QUOTE_REQUESTED"}
BuildInsight(signals) == Cardinality(Types(signals) \cap Negative) >= 2

-----------------------------------------------------------------------------
VARIABLES
    facts,    \* what the CRM holds about each account
    listed,   \* the accounts that accountFacts selects: active and not merged
    signal,   \* status of each row of signals
    risk,     \* status of each row of risks
    insight,  \* status of each row of insights; AGED is ACTIVE past expires_at
    advice,   \* status of each row of recommendations
    tasks,    \* tasks made from each recommendation
    run,      \* the scheduled run and the one of the "analyze now" button
    recent,   \* some run finished within auto_analyze_minutes
    desk,     \* the answers to recommendations in flight
    up,       \* the server process is running
    faults,   \* statements that failed so far
    decisions \* what people decided so far

crm == <<facts, listed>>
rows == <<signal, risk, insight, advice, tasks>>
vars == <<facts, listed, signal, risk, insight, advice, tasks, run, recent, desk, up, faults, decisions>>

Absent == "NONE"
Decided == {"ACCEPTED", "DISMISSED"}
Trigger == {"SCHEDULE", "MANUAL"}

(* listed and read are the facts a run has read, left the accounts it still *)
(* has to advise.                                                           *)
NoRun == [at |-> "idle", listed |-> {}, read |-> [a \in Account |-> CHOOSE s \in Situations : TRUE],
          left |-> {}]
NoAnswer == [at |-> "idle", answer |-> "ACCEPTED", account |-> CHOOSE a \in Account : TRUE,
             type |-> "RESOLVE_VOC", gone |-> FALSE]

TypeOK ==
    /\ facts \in [Account -> Situations]
    /\ listed \subseteq Account
    /\ signal \in [Account -> [SignalType -> {Absent, "ACTIVE", "RESOLVED", "IGNORED"}]]
    /\ risk \in [Account -> [RiskType -> {Absent, "OPEN", "RESOLVED", "ACCEPTED"}]]
    /\ insight \in [Account -> {Absent, "ACTIVE", "AGED", "EXPIRED"}]
    /\ advice \in [Account -> [AdviceType -> {Absent, "OPEN"} \cup Decided]]
    /\ tasks \in [Account -> [AdviceType -> Nat]]
    /\ run \in [Trigger -> [at : {"idle", "records", "signals", "risks", "advise"},
                            listed : SUBSET Account, read : [Account -> Situation],
                            left : SUBSET Account]]
    /\ recent \in BOOLEAN /\ up \in BOOLEAN
    /\ desk \in [Desk -> [at : {"idle", "write"}, answer : Decided, account : Account,
                          type : AdviceType, gone : BOOLEAN]]
    /\ faults \in 0..MaxFaults /\ decisions \in 0..MaxDecisions

Init ==
    /\ facts \in [Account -> Situations]
    /\ listed = Account
    /\ signal = [a \in Account |-> [t \in SignalType |-> Absent]]
    /\ risk = [a \in Account |-> [t \in RiskType |-> Absent]]
    /\ insight = [a \in Account |-> Absent]
    /\ advice = [a \in Account |-> [t \in AdviceType |-> Absent]]
    /\ tasks = [a \in Account |-> [t \in AdviceType |-> 0]]
    /\ run = [r \in Trigger |-> NoRun]
    /\ recent = FALSE
    /\ desk = [d \in Desk |-> NoAnswer]
    /\ up = TRUE
    /\ faults = 0 /\ decisions = 0

SignalsOf(r, a) == Found(a \in run[r].listed, run[r].read[a])
RisksOf(r, a) == ScoreRisks(SignalsOf(r, a), run[r].read[a].deals)
AdviceOf(r, a) == Recommend(SignalsOf(r, a), run[r].read[a].deals)
At(r, step) == up /\ run[r].at = step
Decide == decisions < MaxDecisions /\ decisions' = decisions + 1

-----------------------------------------------------------------------------
(* The CRM moves on, and DeleteCustomer deactivates an account that has     *)
(* history; its deals and contracts stay as they are.                       *)

Change(a) ==
    /\ \E s \in Situations \ {facts[a]} : facts' = [facts EXCEPT ![a] = s]
    /\ UNCHANGED <<listed, rows, run, recent, desk, up, faults, decisions>>

DeleteCustomer(a) ==
    /\ up /\ a \in Leaving \cap listed
    /\ \/ facts[a].deals.stage # "none" \/ facts[a].deals.ends # "far"
       \/ facts[a].account.critical \/ facts[a].account.quoted
    /\ listed' = listed \ {a}
    /\ UNCHANGED <<facts, rows, run, recent, desk, up, faults, decisions>>

(* auto_analyze_minutes pass since the last finished run; an insight passes *)
(* its 14 days.                                                             *)
Elapse ==
    /\ recent /\ recent' = FALSE
    /\ UNCHANGED <<crm, rows, run, desk, up, faults, decisions>>

Age(a) ==
    /\ insight[a] = "ACTIVE" /\ insight' = [insight EXCEPT ![a] = "AGED"]
    /\ UNCHANGED <<crm, signal, risk, advice, tasks, run, recent, desk, up, faults, decisions>>

-----------------------------------------------------------------------------
(* A run.  RunIfDue is throttled by the last finished run; the button is    *)
(* not.  accountFacts is read first.                                        *)
Begin(r) ==
    /\ At(r, "idle")
    /\ IF r = "SCHEDULE" THEN ~recent /\ UNCHANGED decisions ELSE Decide
    /\ run' = [run EXCEPT ![r].at = "records", ![r].listed = listed,
                          ![r].read = [a \in Account |-> [@[a] EXCEPT !.account = facts[a].account]]]
    /\ UNCHANGED <<crm, rows, recent, desk, up, faults>>

(* opportunityFacts and contractFacts know nothing of inactive customers.   *)
ReadRecords(r) ==
    /\ At(r, "records")
    /\ run' = [run EXCEPT ![r].at = "signals",
                          ![r].read = [a \in Account |-> [@[a] EXCEPT !.deals = facts[a].deals]]]
    /\ UNCHANGED <<crm, rows, recent, desk, up, faults, decisions>>

(* A failed statement ends the run; its row gets finished_at and the error  *)
(* unless that statement fails too.                                         *)
Fail(r) ==
    /\ faults < MaxFaults /\ faults' = faults + 1
    /\ run' = [run EXCEPT ![r] = NoRun]
    /\ recent' \in {recent, TRUE}

StatementFails(r) ==
    /\ up /\ run[r].at # "idle" /\ Fail(r)
    /\ UNCHANGED <<crm, rows, desk, up, decisions>>

(* The rows of a table after an upsert of the live ones, which leaves the   *)
(* rows somebody set aside alone, and after the rest of the shown rows are  *)
(* resolved.                                                                *)
UpsertReopens(table, live, shown, aside) ==      \* mutant: no CASE on the status
    [a \in Account |-> [t \in DOMAIN table[a] |-> IF <<a, t>> \in live THEN shown ELSE table[a][t]]]
Upsert(table, live, shown, aside) ==
    [a \in Account |-> [t \in DOMAIN table[a] |->
        IF <<a, t>> \in live /\ table[a][t] # aside THEN shown ELSE table[a][t]]]
ResolveNothing(table, live, shown) == table      \* mutant: stale rows stay
ResolveStale(table, live, shown) ==
    [a \in Account |-> [t \in DOMAIN table[a] |->
        IF <<a, t>> \notin live /\ table[a][t] = shown THEN "RESOLVED" ELSE table[a][t]]]

PersistSignals(r) ==
    LET live == UNION {{a} \X Types(SignalsOf(r, a)) : a \in Account} IN
    /\ At(r, "signals")
    /\ \/ /\ signal' = ResolveStale(Upsert(signal, live, "ACTIVE", "IGNORED"), live, "ACTIVE")
          /\ run' = [run EXCEPT ![r].at = "risks"] /\ UNCHANGED <<recent, faults>>
       \/ /\ \E done \in SUBSET live : signal' = Upsert(signal, done, "ACTIVE", "IGNORED")
          /\ Fail(r)
    /\ UNCHANGED <<crm, risk, insight, advice, tasks, desk, up, decisions>>

PersistRisks(r) ==
    LET live == UNION {{a} \X RisksOf(r, a) : a \in Account} IN
    /\ At(r, "risks")
    /\ \/ /\ risk' = ResolveStale(Upsert(risk, live, "OPEN", "ACCEPTED"), live, "OPEN")
          /\ run' = [run EXCEPT ![r].at = "advise", ![r].left = {a \in Account : SignalsOf(r, a) # {}}]
          /\ UNCHANGED <<recent, faults>>
       \/ /\ \E done \in SUBSET live : risk' = Upsert(risk, done, "OPEN", "ACCEPTED")
          /\ Fail(r)
    /\ UNCHANGED <<crm, signal, insight, advice, tasks, desk, up, decisions>>

(* persistInsights and persistRecommendations for one account of byAccount, *)
(* in the random order of a Go map.                                         *)
AdviseOnly(r, a) ==      \* mutant: nothing is withdrawn
    /\ At(r, "advise") /\ a \in run[r].left /\ a \in run[r].listed
    /\ insight' = [insight EXCEPT ![a] = IF BuildInsight(SignalsOf(r, a)) THEN "ACTIVE" ELSE @]
    /\ advice' = [advice EXCEPT ![a] = [t \in AdviceType |->
                     IF t \in AdviceOf(r, a) /\ @[t] = Absent THEN "OPEN" ELSE @[t]]]
    /\ run' = [run EXCEPT ![r].left = @ \ {a}]
    /\ UNCHANGED <<crm, signal, risk, tasks, recent, desk, up, faults, decisions>>

Advise(r, a) ==
    /\ At(r, "advise") /\ a \in run[r].left /\ a \in run[r].listed
    /\ insight' = [insight EXCEPT ![a] = IF BuildInsight(SignalsOf(r, a)) THEN "ACTIVE" ELSE @]
    /\ \E done \in SUBSET AdviceOf(r, a) :
          LET due == AdviceOf(r, a)
              written == [t \in AdviceType |->
                  IF t \in done /\ advice[a][t] = Absent THEN "OPEN" ELSE advice[a][t]]
              withdrawn == {t \in AdviceType \ due : advice[a][t] = "OPEN"} IN
          \/ /\ done = due
             /\ advice' = [advice EXCEPT ![a] = [t \in AdviceType |->
                              IF t \in withdrawn THEN Absent ELSE written[t]]]
             /\ desk' = [d \in Desk |-> [desk[d] EXCEPT
                   !.gone = @ \/ (desk[d].at = "write" /\ desk[d].account = a /\ desk[d].type \in withdrawn)]]
             /\ run' = [run EXCEPT ![r].left = @ \ {a}]
             /\ UNCHANGED <<recent, faults>>
          \/ /\ advice' = [advice EXCEPT ![a] = written]
             /\ Fail(r) /\ UNCHANGED desk
    /\ UNCHANGED <<crm, signal, risk, tasks, up, decisions>>

(* The process ends: every run and every request in flight is gone.         *)
Stop ==
    /\ up' = FALSE
    /\ run' = [r \in Trigger |-> NoRun] /\ desk' = [d \in Desk |-> NoAnswer]

(* For an account that has signals but is not listed, accounts[accountID]   *)
(* is nil and account.ID panics.  The handler of the button runs under the  *)
(* recover of server.go; nothing recovers the scheduler, whose panic ends   *)
(* the process.                                                             *)
Panic(r, a) ==
    /\ At(r, "advise") /\ a \in run[r].left \ run[r].listed
    /\ IF r = "MANUAL" THEN run' = [run EXCEPT ![r] = NoRun] /\ UNCHANGED <<desk, up>> ELSE Stop
    /\ UNCHANGED <<crm, rows, recent, faults, decisions>>

(* expireInsights, then the UPDATE of the run's row.                        *)
FinishKeepsInsights(r) ==      \* mutant: nothing ages out
    /\ At(r, "advise") /\ run[r].left = {}
    /\ run' = [run EXCEPT ![r] = NoRun] /\ recent' = TRUE
    /\ UNCHANGED <<crm, rows, desk, up, faults, decisions>>

Finish(r) ==
    /\ At(r, "advise") /\ run[r].left = {}
    /\ insight' = [a \in Account |-> IF insight[a] = "AGED" THEN "EXPIRED" ELSE insight[a]]
    /\ run' = [run EXCEPT ![r] = NoRun] /\ recent' = TRUE
    /\ UNCHANGED <<crm, signal, risk, advice, tasks, desk, up, faults, decisions>>

Crash ==
    /\ up /\ faults < MaxFaults /\ faults' = faults + 1
    /\ Stop /\ UNCHANGED <<crm, rows, recent, decisions>>

Restart ==
    /\ ~up /\ up' = TRUE
    /\ UNCHANGED <<crm, rows, run, recent, desk, faults, decisions>>

-----------------------------------------------------------------------------
(* People.  IgnoreSignal and AcceptRisk read the row and update it by id,   *)
(* whatever its status.                                                     *)
IgnoreSignal(a, t) ==
    /\ up /\ signal[a][t] # Absent
    /\ signal' = [signal EXCEPT ![a][t] = "IGNORED"]
    /\ Decide
    /\ UNCHANGED <<crm, risk, insight, advice, tasks, run, recent, desk, up, faults>>

AcceptRisk(a, t) ==
    /\ up /\ risk[a][t] # Absent
    /\ risk' = [risk EXCEPT ![a][t] = "ACCEPTED"]
    /\ Decide
    /\ UNCHANGED <<crm, signal, insight, advice, tasks, run, recent, desk, up, faults>>

(* AcceptRecommendation and DismissRecommendation read an OPEN row ...      *)
OpenAdvice(d, a, t, answer) ==
    /\ up /\ desk[d].at = "idle" /\ advice[a][t] = "OPEN"
    /\ desk' = [desk EXCEPT ![d] = [at |-> "write", answer |-> answer, account |-> a, type |-> t, gone |-> FALSE]]
    /\ Decide
    /\ UNCHANGED <<crm, rows, run, recent, up, faults>>

(* ... and later write by its id, which may have been answered or withdrawn *)
(* since.  Accepting inserts the task in either case.                       *)
Answer(d) ==
    LET a == desk[d].account  t == desk[d].type IN
    /\ up /\ desk[d].at = "write"
    /\ advice' = IF desk[d].gone THEN advice ELSE [advice EXCEPT ![a][t] = desk[d].answer]
    /\ tasks' = [tasks EXCEPT ![a][t] = @ + If(1, desk[d].answer = "ACCEPTED")]
    /\ desk' = [desk EXCEPT ![d] = NoAnswer]
    /\ UNCHANGED <<crm, signal, risk, insight, run, recent, up, faults, decisions>>

Leave(d) ==
    /\ desk[d].at = "write"
    /\ desk' = [desk EXCEPT ![d] = NoAnswer]
    /\ UNCHANGED <<crm, rows, run, recent, up, faults, decisions>>

-----------------------------------------------------------------------------
Proceed(r) ==
    \/ ReadRecords(r) \/ PersistSignals(r) \/ PersistRisks(r) \/ Finish(r)
    \/ \E a \in Account : Advise(r, a) \/ Panic(r, a)

Next ==
    \/ \E a \in Account : Change(a) \/ DeleteCustomer(a) \/ Age(a)
    \/ Elapse \/ Crash \/ Restart
    \/ \E r \in Trigger : Begin(r) \/ StatementFails(r) \/ Proceed(r)
    \/ \E a \in Account, t \in SignalType : IgnoreSignal(a, t)
    \/ \E a \in Account, t \in RiskType : AcceptRisk(a, t)
    \/ \E d \in Desk, a \in Account, t \in AdviceType, answer \in Decided : OpenAdvice(d, a, t, answer)
    \/ \E d \in Desk : Answer(d) \/ Leave(d)

(* The scheduler ticks every minute, statements return, days pass, the      *)
(* container is restarted.                                                  *)
Fairness ==
    /\ WF_vars(Elapse) /\ WF_vars(Restart) /\ WF_vars(Begin("SCHEDULE"))
    /\ \A a \in Account : WF_vars(Age(a))
    /\ \A r \in Trigger : WF_vars(Proceed(r))

Spec == Init /\ [][Next]_vars
FairSpec == Spec /\ Fairness

-----------------------------------------------------------------------------
(* Human decisions survive: no step, of a run or of a person, takes back an *)
(* ignored signal, an accepted risk or an answered recommendation, whatever *)
(* runs interleave and however late their writes (the engine "will not      *)
(* resurrect either").                                                      *)
DecisionsStand ==
    [][\A a \in Account :
          /\ \A t \in SignalType : signal[a][t] = "IGNORED" => signal'[a][t] = "IGNORED"
          /\ \A t \in RiskType : risk[a][t] = "ACCEPTED" => risk'[a][t] = "ACCEPTED"
          /\ \A t \in AdviceType : advice[a][t] \in Decided => advice'[a][t] \in Decided]_vars

Holds(a) == Found(a \in listed, facts[a])
Due(a) == Recommend(Holds(a), facts[a].deals)
In(row, status) == {t \in DOMAIN row : row[t] = status}
CrmSettles == <>[][UNCHANGED crm]_vars

(* Self-healing: once the CRM stops changing, exactly the conditions that   *)
(* hold are shown as signals, bar those somebody ignored, and exactly the   *)
(* risks they make are open, bar those somebody accepted.  Runs that        *)
(* overlap, fail, crash or panic only delay this: both tables are written   *)
(* before the step that panics.                                             *)
RowsFollowFacts ==
    CrmSettles => <>[]
        \A a \in Account :
            /\ In(signal[a], "ACTIVE") = Types(Holds(a)) \ In(signal[a], "IGNORED")
            /\ In(risk[a], "OPEN") = ScoreRisks(Holds(a), facts[a].deals) \ In(risk[a], "ACCEPTED")

(* persistRecommendations: while every account with signals is listed, an   *)
(* account that has some signal ends up with the advice its rules give and, *)
(* unanswered, no other.                                                    *)
AdviceFollowsFacts ==
    CrmSettles => <>[]
        ((\A a \in Account : Holds(a) # {} => a \in listed) =>
            \A a \in Account : Holds(a) # {} =>
                In(advice[a], "OPEN") = Due(a) \ (In(advice[a], "ACCEPTED") \cup In(advice[a], "DISMISSED")))

(* expireInsights: an insight "should not be presented as current forever". *)
(* Once the CRM stops changing, an account whose signals no longer make an  *)
(* insight stops showing one, although only a run that wrote every table    *)
(* comes to expire it and one that read the CRM earlier shows it anew for   *)
(* another 14 days.  As for the advice, while every account with signals is *)
(* listed: the step that panics comes before the expiry.                    *)
InsightsAgeOut ==
    CrmSettles => <>[]
        ((\A a \in Account : Holds(a) # {} => a \in listed) =>
            \A a \in Account : ~BuildInsight(Holds(a)) => insight[a] \notin {"ACTIVE", "AGED"})

(* job/runner.go lines 29-30: calling Analyze every tick is safe.  The      *)
(* process only stops when something outside it fails.                      *)
EveryTickIsSafe == up \/ faults > 0
====
