------------------------ MODULE Intelligence_proofs ------------------------
(***************************************************************************)
(* Proofs about Intelligence for any accounts, situations and people, and   *)
(* for any rules: nothing here depends on what Found, Points or Recommend   *)
(* say, only on where a run writes.                                         *)
(***************************************************************************)
EXTENDS Intelligence, TLAPS

SignalStatus == {Absent, "ACTIVE", "RESOLVED", "IGNORED"}
RiskStatus == {Absent, "OPEN", "RESOLVED", "ACCEPTED"}
AdviceStatus == {Absent, "OPEN"} \cup Decided
Answers == [at : {"idle", "write"}, answer : Decided, account : Account, type : AdviceType, gone : BOOLEAN]
Runs == [at : {"idle", "records", "signals", "risks", "advise"}, listed : SUBSET Account,
         read : [Account -> Situation], left : SUBSET Account]

(* What DecisionsStand says of one step.                                    *)
Stands ==
    \A a \in Account :
        /\ \A t \in SignalType : signal[a][t] = "IGNORED" => signal'[a][t] = "IGNORED"
        /\ \A t \in RiskType : risk[a][t] = "ACCEPTED" => risk'[a][t] = "ACCEPTED"
        /\ \A t \in AdviceType : advice[a][t] \in Decided => advice'[a][t] \in Decided

LEMMA BlankTypes == NoRun \in Runs /\ NoAnswer \in Answers
<1>1. (CHOOSE s \in Situations : TRUE) \in Situation
    BY SituationAssumption
<1>2. (CHOOSE a \in Account : TRUE) \in Account
    BY SituationAssumption
<1> QED
    BY <1>1, <1>2 DEF NoRun, NoAnswer, Runs, Answers, AdviceType, Decided

(* A failed statement.                                                      *)
LEMMA FailType ==
    ASSUME TypeOK, NEW r \in Trigger, Fail(r)
    PROVE  run' \in [Trigger -> Runs] /\ recent' \in BOOLEAN /\ faults' \in 0..MaxFaults
<1>1. run \in [Trigger -> Runs] /\ recent \in BOOLEAN /\ faults \in 0..MaxFaults
    BY DEF TypeOK, Runs
<1>2. recent' \in BOOLEAN
    BY <1>1 DEF Fail
<1>3. faults' \in 0..MaxFaults
    BY <1>1, SituationAssumption DEF Fail
<1>4. run' \in [Trigger -> Runs]
    BY <1>1, BlankTypes DEF Fail
<1> QED
    BY <1>2, <1>3, <1>4

(* Steps that write no row.                                                 *)
LEMMA RunStep ==
    ASSUME TypeOK, NEW r \in Trigger,
           Begin(r) \/ ReadRecords(r) \/ StatementFails(r) \/ \E a \in Account : Panic(r, a)
    PROVE  TypeOK' /\ Stands
<1>1. UNCHANGED <<crm, rows>>
    BY DEF Begin, ReadRecords, StatementFails, Panic, Stop
<1>2. run \in [Trigger -> Runs] /\ \A a \in Account : facts[a] \in Situation
    BY SituationAssumption DEF TypeOK, Runs
<1>3. run' \in [Trigger -> Runs]
    <2>1. CASE Begin(r)
        <3>0. run[r] \in Runs /\ listed \in SUBSET Account
            BY <1>2 DEF TypeOK
        <3>1. [a \in Account |-> [run[r].read[a] EXCEPT !.account = facts[a].account]] \in [Account -> Situation]
            BY <1>2 DEF Runs, Situation
        <3> QED
            BY <2>1, <3>0, <3>1, <1>2 DEF Begin, Runs
    <2>2. CASE ReadRecords(r)
        <3>1. [a \in Account |-> [run[r].read[a] EXCEPT !.deals = facts[a].deals]] \in [Account -> Situation]
            BY <1>2 DEF Runs, Situation
        <3> QED
            BY <2>2, <3>1, <1>2 DEF ReadRecords, Runs
    <2>3. CASE StatementFails(r)
        BY <2>3, FailType DEF StatementFails
    <2>4. CASE \E a \in Account : Panic(r, a)
        BY <2>4, <1>2, BlankTypes DEF Panic, Stop
    <2> QED
        BY <2>1, <2>2, <2>3, <2>4
<1>4. desk' \in [Desk -> Answers] /\ up' \in BOOLEAN
    <2>1. desk \in [Desk -> Answers] /\ up \in BOOLEAN
        BY DEF TypeOK, Answers
    <2>2. UNCHANGED <<desk, up>> \/ Stop
        BY DEF Begin, ReadRecords, StatementFails, Panic
    <2> QED
        BY <2>1, <2>2, BlankTypes DEF Stop
<1>5. recent' \in BOOLEAN /\ faults' \in 0..MaxFaults
    <2>1. CASE StatementFails(r)
        BY <2>1, FailType DEF StatementFails
    <2>2. CASE ~StatementFails(r)
        <3>1. UNCHANGED <<recent, faults>>
            BY <2>2 DEF Begin, ReadRecords, Panic
        <3> QED
            BY <3>1 DEF TypeOK
    <2> QED
        BY <2>1, <2>2
<1>6. decisions' \in 0..MaxDecisions
    <2>1. decisions \in 0..MaxDecisions
        BY DEF TypeOK
    <2>2. decisions' = decisions \/ Decide
        BY DEF Begin, ReadRecords, StatementFails, Panic
    <2> QED
        BY <2>1, <2>2, SituationAssumption DEF Decide
<1> QED
    BY <1>1, <1>3, <1>4, <1>5, <1>6
    DEF TypeOK, Stands, Runs, Answers, crm, rows, Decided

LEMMA PersistStep ==
    ASSUME TypeOK, NEW r \in Trigger, PersistSignals(r) \/ PersistRisks(r)
    PROVE  TypeOK' /\ Stands
<1>1. /\ signal \in [Account -> [SignalType -> SignalStatus]]
      /\ risk \in [Account -> [RiskType -> RiskStatus]]
      /\ run \in [Trigger -> Runs]
    BY DEF TypeOK, SignalStatus, RiskStatus, Runs
<1>2. /\ signal' \in [Account -> [SignalType -> SignalStatus]]
      /\ \A a \in Account, t \in SignalType : signal[a][t] = "IGNORED" => signal'[a][t] = "IGNORED"
    <2>1. \A a \in Account : DOMAIN signal[a] = SignalType /\ \A t \in SignalType : signal[a][t] \in SignalStatus
        BY <1>1
    <2>2. \/ signal' = signal
          \/ \E live : signal' = Upsert(signal, live, "ACTIVE", "IGNORED")
          \/ \E live : signal' = ResolveStale(Upsert(signal, live, "ACTIVE", "IGNORED"), live, "ACTIVE")
        BY DEF PersistSignals, PersistRisks
    <2>3. CASE signal' = signal
        BY <2>3, <1>1
    <2>4. CASE \E live : signal' = Upsert(signal, live, "ACTIVE", "IGNORED")
        BY <2>4, <2>1 DEF Upsert, SignalStatus
    <2>5. CASE \E live : signal' = ResolveStale(Upsert(signal, live, "ACTIVE", "IGNORED"), live, "ACTIVE")
        <3>1. PICK live : signal' = ResolveStale(Upsert(signal, live, "ACTIVE", "IGNORED"), live, "ACTIVE")
            BY <2>5
        <3>2. signal' = [a \in Account |-> [t \in SignalType |->
                  IF <<a, t>> \in live
                  THEN IF signal[a][t] # "IGNORED" THEN "ACTIVE" ELSE signal[a][t]
                  ELSE IF signal[a][t] = "ACTIVE" THEN "RESOLVED" ELSE signal[a][t]]]
            BY <3>1, <2>1 DEF Upsert, ResolveStale
        <3> QED
            BY <3>2, <2>1 DEF SignalStatus
    <2> QED
        BY <2>2, <2>3, <2>4, <2>5
<1>3. /\ risk' \in [Account -> [RiskType -> RiskStatus]]
      /\ \A a \in Account, t \in RiskType : risk[a][t] = "ACCEPTED" => risk'[a][t] = "ACCEPTED"
    <2>1. \A a \in Account : DOMAIN risk[a] = RiskType /\ \A t \in RiskType : risk[a][t] \in RiskStatus
        BY <1>1
    <2>2. \/ risk' = risk
          \/ \E live : risk' = Upsert(risk, live, "OPEN", "ACCEPTED")
          \/ \E live : risk' = ResolveStale(Upsert(risk, live, "OPEN", "ACCEPTED"), live, "OPEN")
        BY DEF PersistSignals, PersistRisks
    <2>3. CASE risk' = risk
        BY <2>3, <1>1
    <2>4. CASE \E live : risk' = Upsert(risk, live, "OPEN", "ACCEPTED")
        BY <2>4, <2>1 DEF Upsert, RiskStatus
    <2>5. CASE \E live : risk' = ResolveStale(Upsert(risk, live, "OPEN", "ACCEPTED"), live, "OPEN")
        <3>1. PICK live : risk' = ResolveStale(Upsert(risk, live, "OPEN", "ACCEPTED"), live, "OPEN")
            BY <2>5
        <3>2. risk' = [a \in Account |-> [t \in RiskType |->
                  IF <<a, t>> \in live
                  THEN IF risk[a][t] # "ACCEPTED" THEN "OPEN" ELSE risk[a][t]
                  ELSE IF risk[a][t] = "OPEN" THEN "RESOLVED" ELSE risk[a][t]]]
            BY <3>1, <2>1 DEF Upsert, ResolveStale
        <3> QED
            BY <3>2, <2>1 DEF RiskStatus
    <2> QED
        BY <2>2, <2>3, <2>4, <2>5
<1>4. run' \in [Trigger -> Runs] /\ recent' \in BOOLEAN /\ faults' \in 0..MaxFaults
    <2>1. CASE Fail(r)
        BY <2>1, FailType
    <2>2. CASE ~Fail(r)
        <3>1. UNCHANGED <<recent, faults>>
            BY <2>2 DEF PersistSignals, PersistRisks
        <3> DEFINE left == {a \in Account : SignalsOf(r, a) # {}}
        <3>2. \/ run' = [run EXCEPT ![r].at = "risks"]
              \/ run' = [run EXCEPT ![r].at = "advise", ![r].left = left]
            BY <2>2 DEF PersistSignals, PersistRisks
        <3>a. left \in SUBSET Account
            OBVIOUS
        <3> HIDE DEF left
        <3>b. run[r] \in Runs
            BY <1>1
        <3>c. [run[r] EXCEPT !.at = "risks"] \in Runs /\ [run[r] EXCEPT !.at = "advise", !.left = left] \in Runs
            BY <3>a, <3>b DEF Runs
        <3>3. run' \in [Trigger -> Runs]
            <4>1. CASE run' = [run EXCEPT ![r].at = "risks"]
                BY <4>1, <3>c, <1>1
            <4>2. CASE run' = [run EXCEPT ![r].at = "advise", ![r].left = left]
                <5>1. run' = [run EXCEPT ![r] = [run[r] EXCEPT !.at = "advise", !.left = left]]
                    BY <4>2, <1>1
                <5> QED
                    BY <5>1, <3>c, <1>1
            <4> QED
                BY <3>2, <4>1, <4>2
        <3> QED
            BY <3>1, <3>3 DEF TypeOK
    <2> QED
        BY <2>1, <2>2
<1>5. UNCHANGED <<crm, insight, advice, tasks, desk, up, decisions>>
    BY DEF PersistSignals, PersistRisks
<1> QED
    BY <1>2, <1>3, <1>4, <1>5
    DEF TypeOK, Stands, Runs, SignalStatus, RiskStatus, crm, Decided

LEMMA AdviseStep ==
    ASSUME TypeOK, NEW r \in Trigger, NEW a \in Account, Advise(r, a)
    PROVE  TypeOK' /\ Stands
<1>1. /\ advice \in [Account -> [AdviceType -> AdviceStatus]]
      /\ desk \in [Desk -> Answers]
      /\ run \in [Trigger -> Runs]
    BY DEF TypeOK, AdviceStatus, Runs, Answers
<1>2. UNCHANGED <<crm, signal, risk, tasks, up, decisions>>
    BY DEF Advise
<1>3. insight' \in [Account -> {Absent, "ACTIVE", "AGED", "EXPIRED"}]
    BY DEF Advise, TypeOK
<1>4. PICK row \in [AdviceType -> AdviceStatus] :
          /\ advice' = [advice EXCEPT ![a] = row]
          /\ \A t \in AdviceType : advice[a][t] \in Decided => row[t] \in Decided
    <2>1. PICK done \in SUBSET AdviceOf(r, a) :
              LET written == [t \in AdviceType |->
                      IF t \in done /\ advice[a][t] = Absent THEN "OPEN" ELSE advice[a][t]]
                  withdrawn == {t \in AdviceType \ AdviceOf(r, a) : advice[a][t] = "OPEN"} IN
              \/ advice' = [advice EXCEPT ![a] = written]
              \/ advice' = [advice EXCEPT ![a] = [t \in AdviceType |->
                               IF t \in withdrawn THEN Absent ELSE written[t]]]
        BY DEF Advise
    <2> DEFINE written == [t \in AdviceType |->
                   IF t \in done /\ advice[a][t] = Absent THEN "OPEN" ELSE advice[a][t]]
               withdrawn == {t \in AdviceType \ AdviceOf(r, a) : advice[a][t] = "OPEN"}
               kept == [t \in AdviceType |-> IF t \in withdrawn THEN Absent ELSE written[t]]
    <2>2. \A t \in AdviceType : advice[a][t] \in AdviceStatus
        BY <1>1
    <2>3. /\ written \in [AdviceType -> AdviceStatus]
          /\ \A t \in AdviceType : advice[a][t] \in Decided => written[t] \in Decided
        BY <2>2 DEF AdviceStatus, Decided, Absent
    <2>4. /\ kept \in [AdviceType -> AdviceStatus]
          /\ \A t \in AdviceType : advice[a][t] \in Decided => kept[t] \in Decided
        BY <2>2, <2>3 DEF AdviceStatus, Decided, Absent
    <2>5. advice' = [advice EXCEPT ![a] = written] \/ advice' = [advice EXCEPT ![a] = kept]
        BY <2>1
    <2> QED
        BY <2>3, <2>4, <2>5
<1>5. desk' \in [Desk -> Answers]
    <2>1. CASE desk' = desk
        BY <2>1, <1>1
    <2>2. CASE \E gone : desk' = [d \in Desk |-> [desk[d] EXCEPT !.gone = @ \/ (desk[d].at = "write" /\ desk[d].account = a /\ desk[d].type \in gone)]]
        <3>1. PICK gone : desk' = [d \in Desk |-> [desk[d] EXCEPT !.gone = @ \/ (desk[d].at = "write" /\ desk[d].account = a /\ desk[d].type \in gone)]]
            BY <2>2
        <3>2. \A d \in Desk : \A b \in BOOLEAN : [desk[d] EXCEPT !.gone = b] \in Answers
            BY <1>1 DEF Answers
        <3>3. \A d \in Desk : (desk[d].gone \/ (desk[d].at = "write" /\ desk[d].account = a /\ desk[d].type \in gone)) \in BOOLEAN
            OBVIOUS
        <3> QED
            BY <3>1, <3>2, <3>3
    <2> QED
        BY <2>1, <2>2 DEF Advise
<1>6. run' \in [Trigger -> Runs] /\ recent' \in BOOLEAN /\ faults' \in 0..MaxFaults
    <2>1. CASE Fail(r)
        BY <2>1, FailType
    <2>2. CASE ~Fail(r)
        <3>1. UNCHANGED <<recent, faults>> /\ run' = [run EXCEPT ![r].left = @ \ {a}]
            BY <2>2 DEF Advise
        <3>2. run' \in [Trigger -> Runs]
            BY <3>1, <1>1 DEF Runs
        <3> QED
            BY <3>1, <3>2 DEF TypeOK
    <2> QED
        BY <2>1, <2>2
<1>7. advice' \in [Account -> [AdviceType -> AdviceStatus]]
    BY <1>1, <1>4
<1>8. Stands
    BY <1>1, <1>2, <1>4 DEF Stands
<1> QED
    BY <1>2, <1>3, <1>5, <1>6, <1>7, <1>8 DEF TypeOK, Runs, Answers, AdviceStatus, crm

(* The end of a run, the process, the clock and the CRM.                    *)
LEMMA OtherStep ==
    ASSUME TypeOK,
           \/ \E r \in Trigger : Finish(r)
           \/ \E a \in Account : Change(a) \/ DeleteCustomer(a) \/ Age(a)
           \/ Elapse \/ Crash \/ Restart
           \/ \E d \in Desk : Leave(d)
    PROVE  TypeOK' /\ Stands
<1>1. UNCHANGED <<signal, risk, advice, tasks, decisions>>
    BY DEF Finish, Change, DeleteCustomer, Age, Elapse, Crash, Restart, Leave, rows
<1>2. facts' \in [Account -> Situations] /\ listed' \subseteq Account
    <2>1. facts \in [Account -> Situations] /\ listed \subseteq Account
        BY DEF TypeOK
    <2>2. \/ UNCHANGED crm
          \/ \E a \in Account : Change(a) \/ DeleteCustomer(a)
        BY DEF Finish, Age, Elapse, Crash, Restart, Leave
    <2> QED
        BY <2>1, <2>2 DEF Change, DeleteCustomer, crm
<1>3. insight' \in [Account -> {Absent, "ACTIVE", "AGED", "EXPIRED"}]
    <2>1. insight \in [Account -> {Absent, "ACTIVE", "AGED", "EXPIRED"}]
        BY DEF TypeOK
    <2>2. \/ insight' = insight
          \/ \E r \in Trigger : Finish(r)
          \/ \E a \in Account : Age(a)
        BY DEF Change, DeleteCustomer, Elapse, Crash, Restart, Leave, rows
    <2> QED
        BY <2>1, <2>2 DEF Finish, Age
<1>4. run' \in [Trigger -> Runs]
    <2>1. run \in [Trigger -> Runs]
        BY DEF TypeOK, Runs
    <2> QED
        BY <2>1, BlankTypes DEF Finish, Change, DeleteCustomer, Age, Elapse, Crash, Stop, Restart, Leave
<1>5. desk' \in [Desk -> Answers]
    <2>1. desk \in [Desk -> Answers]
        BY DEF TypeOK, Answers
    <2> QED
        BY <2>1, BlankTypes DEF Finish, Change, DeleteCustomer, Age, Elapse, Crash, Stop, Restart, Leave
<1>6. recent' \in BOOLEAN /\ up' \in BOOLEAN
    BY DEF TypeOK, Finish, Change, DeleteCustomer, Age, Elapse, Crash, Stop, Restart, Leave
<1>7. faults' \in 0..MaxFaults
    BY SituationAssumption
    DEF TypeOK, Finish, Change, DeleteCustomer, Age, Elapse, Crash, Restart, Leave
<1> QED
    BY <1>1, <1>2, <1>3, <1>4, <1>5, <1>6, <1>7
    DEF TypeOK, Stands, Runs, Answers, Decided

(* What people decide.                                                      *)
LEMMA PeopleStep ==
    ASSUME TypeOK,
           \/ \E a \in Account, t \in SignalType : IgnoreSignal(a, t)
           \/ \E a \in Account, t \in RiskType : AcceptRisk(a, t)
           \/ \E d \in Desk, a \in Account, t \in AdviceType, answer \in Decided : OpenAdvice(d, a, t, answer)
    PROVE  TypeOK' /\ Stands
<1>1. UNCHANGED <<crm, insight, advice, tasks, run, recent, up, faults>>
    BY DEF IgnoreSignal, AcceptRisk, OpenAdvice, rows
<1>2. decisions' \in 0..MaxDecisions
    <2>1. decisions \in 0..MaxDecisions /\ Decide
        BY DEF TypeOK, IgnoreSignal, AcceptRisk, OpenAdvice
    <2> QED
        BY <2>1, SituationAssumption DEF Decide
<1>3. /\ signal' \in [Account -> [SignalType -> SignalStatus]]
      /\ \A a \in Account, t \in SignalType : signal[a][t] = "IGNORED" => signal'[a][t] = "IGNORED"
    <2>1. signal \in [Account -> [SignalType -> SignalStatus]]
        BY DEF TypeOK, SignalStatus
    <2>2. signal' = signal \/ \E a \in Account, t \in SignalType : signal' = [signal EXCEPT ![a][t] = "IGNORED"]
        BY DEF IgnoreSignal, AcceptRisk, OpenAdvice, rows
    <2> QED
        BY <2>1, <2>2 DEF SignalStatus
<1>4. /\ risk' \in [Account -> [RiskType -> RiskStatus]]
      /\ \A a \in Account, t \in RiskType : risk[a][t] = "ACCEPTED" => risk'[a][t] = "ACCEPTED"
    <2>1. risk \in [Account -> [RiskType -> RiskStatus]]
        BY DEF TypeOK, RiskStatus
    <2>2. risk' = risk \/ \E a \in Account, t \in RiskType : risk' = [risk EXCEPT ![a][t] = "ACCEPTED"]
        BY DEF IgnoreSignal, AcceptRisk, OpenAdvice, rows
    <2> QED
        BY <2>1, <2>2 DEF RiskStatus
<1>5. desk' \in [Desk -> Answers]
    <2>1. desk \in [Desk -> Answers]
        BY DEF TypeOK, Answers
    <2>2. desk' = desk \/ \E d \in Desk : \E q \in Answers : desk' = [desk EXCEPT ![d] = q]
        BY DEF IgnoreSignal, AcceptRisk, OpenAdvice, Answers
    <2> QED
        BY <2>1, <2>2
<1> QED
    BY <1>1, <1>2, <1>3, <1>4, <1>5
    DEF TypeOK, Stands, Answers, SignalStatus, RiskStatus, crm, Decided

LEMMA AnswerStep ==
    ASSUME TypeOK, NEW d \in Desk, Answer(d)
    PROVE  TypeOK' /\ Stands
<1> DEFINE a == desk[d].account
           t == desk[d].type
<1>1. /\ advice \in [Account -> [AdviceType -> AdviceStatus]]
      /\ tasks \in [Account -> [AdviceType -> Nat]]
      /\ desk \in [Desk -> Answers]
      /\ a \in Account /\ t \in AdviceType /\ desk[d].answer \in Decided
    BY DEF TypeOK, AdviceStatus, Answers
<1>2. UNCHANGED <<crm, signal, risk, insight, run, recent, up, faults, decisions>>
    BY DEF Answer
<1>3. desk' \in [Desk -> Answers]
    BY <1>1, BlankTypes DEF Answer
<1>4. tasks' \in [Account -> [AdviceType -> Nat]]
    BY <1>1 DEF Answer, If
<1>5. advice' \in [Account -> [AdviceType -> AdviceStatus]]
    BY <1>1 DEF Answer, AdviceStatus
<1>6. Stands
    BY <1>1, <1>2 DEF Answer, Stands
<1> QED
    BY <1>2, <1>3, <1>4, <1>5, <1>6 DEF TypeOK, Answers, AdviceStatus, crm

LEMMA InitType == Init => TypeOK
<1> SUFFICES ASSUME Init PROVE TypeOK
    OBVIOUS
<1>1. run \in [Trigger -> Runs] /\ desk \in [Desk -> Answers]
    BY BlankTypes DEF Init
<1>2. faults \in 0..MaxFaults /\ decisions \in 0..MaxDecisions
    BY SituationAssumption DEF Init
<1> QED
    BY <1>1, <1>2 DEF Init, TypeOK, Runs, Answers

LEMMA NextType == TypeOK /\ [Next]_vars => TypeOK' /\ [Stands]_vars
<1> SUFFICES ASSUME TypeOK, [Next]_vars PROVE TypeOK' /\ [Stands]_vars
    OBVIOUS
<1>1. CASE UNCHANGED vars
    BY <1>1 DEF TypeOK, vars, Decided
<1>2. CASE Next
    BY <1>2, RunStep, PersistStep, AdviseStep, OtherStep, PeopleStep, AnswerStep DEF Next, Proceed
<1> QED
    BY <1>1, <1>2

(* No interleaving of runs, failures, crashes, withdrawals and answers      *)
(* takes back what a person decided.                                        *)
THEOREM HumanDecisionsSurvive == Spec => DecisionsStand
<1>1. [Stands]_vars => [\A a \in Account :
          /\ \A t \in SignalType : signal[a][t] = "IGNORED" => signal'[a][t] = "IGNORED"
          /\ \A t \in RiskType : risk[a][t] = "ACCEPTED" => risk'[a][t] = "ACCEPTED"
          /\ \A t \in AdviceType : advice[a][t] \in Decided => advice'[a][t] \in Decided]_vars
    BY DEF Stands
<1> QED
    BY <1>1, InitType, NextType, PTL DEF Spec, DecisionsStand
====
