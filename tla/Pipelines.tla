----------------------------- MODULE Pipelines -----------------------------
(***************************************************************************)
(* Pipelines, their stages and the deals that move through them: the        *)
(* administrator's handlers for pipelines and stages (server), opportunity  *)
(* updates with the stage gate (crm, intelligence), playbook progress and   *)
(* the exit criteria of a stage.                                            *)
(*                                                                          *)
(* Handlers read, check and write in separate statements; a slot of Client  *)
(* is one request between them, and a transaction of writes is one step.    *)
(* A deal is the set of its filled fields; an exit criterion that blocks is *)
(* a field that must be filled, a field that must be empty, or "playbook".  *)
(* Criteria that only warn, or are OFF or inactive, change nothing.  is_won *)
(* stands for is_lost too: the code treats the two alike.                   *)
(***************************************************************************)
EXTENDS Integers, FiniteSets

CONSTANTS
    Pipeline,      \* ids of pipelines
    NoPipeline,    \* the pipeline of a stage that does not exist
    Stage,         \* ids of stages
    NoStage,       \* the stage of a deal that does not exist
    Deal,          \* ids of opportunities
    Executions,    \* what an administrator saves for a stage: whether its
                   \* playbook has a required item, and the blocking criteria
    Client,        \* slots of requests
    First, Opening, Won,   \* the pipeline and two of the stages Bootstrap creates
    MaxOrder,      \* bound on stage_order
    MaxVersion,    \* bound on the versions of a deal
    MaxRequests    \* bound on the requests of a behaviour

ASSUME PipelinesAssumption ==
    /\ First \in Pipeline /\ NoPipeline \notin Pipeline
    /\ Opening \in Stage /\ Won \in Stage \ {Opening} /\ NoStage \notin Stage
    /\ MaxOrder \in Nat \ {0, 1} /\ MaxVersion \in Nat \ {0} /\ MaxRequests \in Nat

VARIABLES
    pipeline,   \* pipelines
    stage,      \* pipeline_stages
    criteria,   \* stage_exit_criteria: those that block, by stage
    items,      \* stages whose active playbook has a required item
    deal,       \* opportunities
    done,       \* opportunity_playbook_progress: <<deal, stage>> completed
    client,     \* the requests in progress
    begun       \* how many requests have begun

board  == <<pipeline, stage, criteria, items>>
deals  == <<deal, done>>
vars   == <<board, deals, client, begun>>

(* next action: the only field AddActivity writes; competitor: one that     *)
(* only an update of the deal writes.                                       *)
Field == {"next action", "competitor"}
Criterion == [rule : {"present", "empty"}, field : Field] \cup {[rule |-> "playbook", field |-> "competitor"]}

ASSUME ExecutionsAssumption == Executions \subseteq BOOLEAN \X SUBSET Criterion

Status == {"OPEN", "WON"}
PipelineRow == [state : {"none", "active", "inactive"}, default : BOOLEAN]
StageRow == [pipeline : Pipeline \cup {NoPipeline}, order : -1..MaxOrder, won : BOOLEAN, active : BOOLEAN]
DealRow == [stage : Stage \cup {NoStage}, pipeline : Pipeline \cup {NoPipeline}, status : Status,
            fields : SUBSET Field, version : 0..MaxVersion]

(* A request on a deal: the deal, the row it read, the input, the target    *)
(* stage as read, and what its gate saw: the stage to leave and the         *)
(* criteria it found met.  A request on the board: its object and the row   *)
(* it read.                                                                 *)
Request == [op : {"idle", "create", "read", "gate", "write", "pipeline", "drop pipeline",
                  "stage", "drop stage"},
            deal : Deal \cup {NoStage}, before : DealRow, to : Stage \cup {NoStage}, target : StageRow,
            fields : SUBSET Field, version : 0..MaxVersion, leaving : Stage \cup {NoStage},
            gate : SUBSET Criterion, on : Pipeline \cup {NoPipeline}, row : PipelineRow]

NoRow == [state |-> "none", default |-> FALSE]
Absent == [pipeline |-> NoPipeline, order |-> 0, won |-> FALSE, active |-> FALSE]
NoDeal == [stage |-> NoStage, pipeline |-> NoPipeline, status |-> "OPEN", fields |-> {}, version |-> 0]
Idle == [op |-> "idle", deal |-> NoStage, before |-> NoDeal, to |-> NoStage, target |-> Absent,
         fields |-> {}, version |-> 0, leaving |-> NoStage, gate |-> {}, on |-> NoPipeline, row |-> NoRow]

TypeOK ==
    /\ pipeline \in [Pipeline -> PipelineRow]
    /\ stage \in [Stage -> StageRow]
    /\ criteria \in [Stage -> SUBSET Criterion]
    /\ items \subseteq Stage
    /\ deal \in [Deal -> DealRow]
    /\ done \subseteq Deal \X Stage
    /\ client \in [Client -> Request]
    /\ begun \in 0..MaxRequests

(* Bootstrap: one default pipeline; an open and a won stage of its nine.    *)
Init ==
    /\ pipeline = [p \in Pipeline |-> IF p = First THEN [state |-> "active", default |-> TRUE] ELSE NoRow]
    /\ stage = [s \in Stage |-> IF s \notin {Opening, Won} THEN Absent
                                ELSE [pipeline |-> First, order |-> IF s = Won THEN 2 ELSE 1,
                                      won |-> s = Won, active |-> TRUE]]
    /\ criteria = [s \in Stage |-> {}]
    /\ items = {}
    /\ deal = [d \in Deal |-> NoDeal]
    /\ done = {}
    /\ client = [k \in Client |-> Idle]
    /\ begun = 0

-----------------------------------------------------------------------------
(* Requests                                                                 *)

Count == begun < MaxRequests /\ begun' = begun + 1
Begin(k, request) == Count /\ client[k] = Idle /\ client' = [client EXCEPT ![k] = request]
Await(k, request) == client' = [client EXCEPT ![k] = request] /\ UNCHANGED begun
Done(k) == Await(k, Idle)
At(k, op) == client[k].op = op

Stages(p) == {s \in Stage : stage[s].pipeline = p}
Exists(d) == deal[d].stage # NoStage

-----------------------------------------------------------------------------
(* Deals                                                                    *)

StageStatus(row, otherwise) == IF row.won THEN "WON" ELSE otherwise

(* The first active stage of a default pipeline that is active; with two    *)
(* such pipelines the query's order decides, here either.                   *)
DefaultStage(s) ==
    LET p == stage[s].pipeline IN
    /\ p # NoPipeline /\ stage[s].active /\ pipeline[p] = [state |-> "active", default |-> TRUE]
    /\ \A t \in Stage : stage[t].pipeline # NoPipeline /\ stage[t].active
                        /\ pipeline[stage[t].pipeline] = [state |-> "active", default |-> TRUE]
                        => stage[s].order <= stage[t].order

(* CreateOpportunity: the stage of the input, active, or the default one.   *)
ReadStage(k, s) ==
    /\ stage[s].pipeline # NoPipeline /\ (stage[s].active \/ DefaultStage(s))
    /\ \E fields \in SUBSET Field :
         Begin(k, [Idle EXCEPT !.op = "create", !.to = s, !.target = stage[s], !.fields = fields])
    /\ UNCHANGED <<board, deals>>

CreateOpportunity(k, d) ==
    /\ At(k, "create") /\ Done(k) /\ ~Exists(d)
    /\ LET q == client[k] IN
         deal' = IF stage[q.to].pipeline = NoPipeline THEN deal
                 ELSE [deal EXCEPT ![d] = [stage |-> q.to, pipeline |-> q.target.pipeline,
                           status |-> StageStatus(q.target, "OPEN"), fields |-> q.fields, version |-> 1]]
    /\ UNCHANGED <<board, done>>

(* UpdateOpportunity reads the deal; version 0 stands for the one read.     *)
(* ChangeOpportunityStage is the same call with the fields it read.         *)
ReadDeal(k, d, to, fields, version) ==
    /\ Exists(d) /\ deal[d].version < MaxVersion
    /\ Begin(k, [Idle EXCEPT !.op = "read", !.deal = d, !.before = deal[d], !.to = to, !.fields = fields,
                    !.version = IF version = 0 THEN deal[d].version ELSE version])
    /\ UNCHANGED <<board, deals>>

(* The target stage is read, active or not; only a change of stage goes     *)
(* through the gate.                                                        *)
ReadTarget(k) ==
    /\ At(k, "read")
    /\ LET q == client[k] IN
         IF stage[q.to].pipeline = NoPipeline THEN Done(k)
         ELSE Await(k, [q EXCEPT !.op = IF q.to = q.before.stage THEN "write" ELSE "gate",
                                 !.target = stage[q.to]])
    /\ UNCHANGED <<board, deals>>

Met(row, d, rule) ==
    CASE rule.rule = "present" -> rule.field \in row.fields
      [] rule.rule = "empty"   -> rule.field \notin row.fields
      [] OTHER -> row.stage \in items => <<d, row.stage>> \in done

(* ValidateStageTransition reads the deal again, wants an active target in  *)
(* its pipeline and every blocking criterion of its stage met.              *)
ValidateStageTransition(k) ==
    /\ At(k, "gate")
    /\ LET q == client[k]
           row == deal[q.deal]
           open == /\ stage[q.to].pipeline = row.pipeline /\ stage[q.to].active
                   /\ \A rule \in criteria[row.stage] : Met(row, q.deal, rule)
       IN IF ~open THEN Done(k)
          ELSE Await(k, [q EXCEPT !.op = "write", !.leaving = row.stage, !.gate = criteria[row.stage]])
    /\ UNCHANGED <<board, deals>>

(* Mutant: the row is written whatever its version.                         *)
UpdateOpportunityAnyVersion(k) ==
    /\ At(k, "write") /\ Done(k)
    /\ LET q == client[k] IN
         IF stage[q.to].pipeline # NoPipeline
         THEN deal' = [deal EXCEPT ![q.deal] = [stage |-> q.to, pipeline |-> q.target.pipeline,
                     status |-> StageStatus(q.target, q.before.status), fields |-> q.fields,
                     version |-> q.version + 1]]
         ELSE UNCHANGED deal
    /\ UNCHANGED <<board, done>>

(* UPDATE ... WHERE id AND version: pipeline and status as the target stage *)
(* was read, the status of an open stage as the deal was.                   *)
UpdateOpportunity(k) ==
    /\ At(k, "write") /\ Done(k)
    /\ LET q == client[k] IN
         IF deal[q.deal].version = q.version /\ stage[q.to].pipeline # NoPipeline
         THEN /\ deal[q.deal].version < MaxVersion
              /\ deal' = [deal EXCEPT ![q.deal] = [stage |-> q.to, pipeline |-> q.target.pipeline,
                     status |-> StageStatus(q.target, q.before.status), fields |-> q.fields,
                     version |-> @.version + 1]]
         ELSE UNCHANGED deal
    /\ UNCHANGED <<board, done>>

(* AddActivity: the next action it names is written without a new version.  *)
AddActivity(d) ==
    /\ Count /\ Exists(d) /\ "next action" \notin deal[d].fields
    /\ deal' = [deal EXCEPT ![d].fields = @ \cup {"next action"}]
    /\ UNCHANGED <<board, done, client>>

(* SetPlaybookProgress: an item of the playbook of the deal's stage.        *)
SetPlaybookProgress(d) ==
    /\ Count /\ Exists(d) /\ deal[d].stage \in items
    /\ LET mark == <<d, deal[d].stage>>
       IN done' = IF mark \in done THEN done \ {mark} ELSE done \cup {mark}
    /\ UNCHANGED <<board, deal, client>>

(* SaveStageExecution: the playbook and the criteria of a stage, replaced   *)
(* in one transaction; progress goes with a removed item.                   *)
SaveStageExecution(s, input) ==
    /\ Count /\ stage[s].pipeline # NoPipeline
    /\ items' = IF input[1] THEN items \cup {s} ELSE items \ {s}
    /\ done' = IF input[1] THEN done ELSE {mark \in done : mark[2] # s}
    /\ criteria' = [criteria EXCEPT ![s] = input[2]]
    /\ UNCHANGED <<pipeline, stage, deal, client>>

-----------------------------------------------------------------------------
(* Pipelines                                                                *)

Others(p) == [q \in Pipeline |-> IF q = p THEN pipeline[q] ELSE [pipeline[q] EXCEPT !.default = FALSE]]

(* createPipeline: a new default clears the others; it may be inactive.     *)
CreatePipeline(p) ==
    /\ Count /\ pipeline[p] = NoRow /\ p # First
    /\ \E state \in {"active", "inactive"}, default \in BOOLEAN :
         pipeline' = [IF default THEN Others(p) ELSE pipeline
                        EXCEPT ![p] = [state |-> state, default |-> default]]
    /\ UNCHANGED <<stage, criteria, items, deals, client>>

(* updatePipeline reads the row, refuses to clear the default or to make an *)
(* inactive one default, and writes in a transaction.                       *)
ReadPipeline(k, p) ==
    /\ pipeline[p].state # "none"
    /\ Begin(k, [Idle EXCEPT !.op = "pipeline", !.on = p, !.row = pipeline[p]])
    /\ UNCHANGED <<board, deals>>

UpdatePipeline(k, state, default) ==
    /\ At(k, "pipeline") /\ Done(k)
    /\ LET q == client[k] IN
         IF (q.row.default => default) /\ (default => state = "active") /\ pipeline[q.on].state # "none"
         THEN pipeline' = [IF default /\ ~q.row.default THEN Others(q.on) ELSE pipeline
                             EXCEPT ![q.on] = [state |-> state, default |-> default]]
         ELSE UNCHANGED pipeline
    /\ UNCHANGED <<stage, criteria, items, deals>>

(* deletePipeline: neither the default nor one with deals; the stages and   *)
(* what belongs to them go with it, unless a deal arrived meanwhile.        *)
ReadDeleted(k, p) ==
    /\ pipeline[p].state # "none" /\ ~pipeline[p].default
    /\ \A d \in Deal : deal[d].pipeline # p
    /\ Begin(k, [Idle EXCEPT !.op = "drop pipeline", !.on = p])
    /\ UNCHANGED <<board, deals>>

DeletePipeline(k) ==
    /\ At(k, "drop pipeline") /\ Done(k)
    /\ LET p == client[k].on IN
         IF \E d \in Deal : deal[d].pipeline = p THEN UNCHANGED <<board, done>>
         ELSE /\ pipeline' = [pipeline EXCEPT ![p] = NoRow]
              /\ stage' = [s \in Stage |-> IF s \in Stages(p) THEN Absent ELSE stage[s]]
              /\ criteria' = [s \in Stage |-> IF s \in Stages(p) THEN {} ELSE criteria[s]]
              /\ items' = items \ Stages(p)
              /\ done' = {mark \in done : mark[2] \notin Stages(p)}
    /\ UNCHANGED deal

-----------------------------------------------------------------------------
(* Stages                                                                   *)

Taken(p, order) == \E s \in Stages(p) : stage[s].order = order

(* createStage: one INSERT, at a position that is free.                     *)
CreateStage(s, p, order) ==
    /\ Count /\ stage[s] = Absent /\ pipeline[p].state # "none" /\ ~Taken(p, order)
    /\ \E won \in BOOLEAN :
         stage' = [stage EXCEPT ![s] =
             [pipeline |-> p, order |-> order, won |-> won, active |-> TRUE]]
    /\ UNCHANGED <<pipeline, criteria, items, deals, client>>

(* updateStage reads the stage; a stage with open deals stays active.       *)
ReadStageRow(k, s, active) ==
    /\ stage[s].pipeline # NoPipeline
    /\ active \/ \A d \in Deal : ~(deal[d].stage = s /\ deal[d].status = "OPEN")
    /\ Begin(k, [Idle EXCEPT !.op = "stage", !.to = s, !.target = [stage[s] EXCEPT !.active = active]])
    /\ UNCHANGED <<board, deals>>

(* Mutant: the two stages trade places.                                     *)
ReorderedBySwap(p, s, from, to) ==
    [t \in Stage |-> IF t \in Stages(p) \ {s} /\ stage[t].order = to
                     THEN [stage[t] EXCEPT !.order = from] ELSE stage[t]]

(* reorderStage, from the position read: the moved stage is parked and the  *)
(* block between the two positions shifts by one.                           *)
Reordered(p, s, from, to) ==
    [t \in Stage |->
       IF t \in Stages(p) \ {s}
       THEN LET at == stage[t].order
            IN [stage[t] EXCEPT !.order = IF from < to /\ at > from /\ at <= to THEN at - 1
                                          ELSE IF to < from /\ at >= to /\ at < from THEN at + 1 ELSE at]
       ELSE stage[t]]

Distinct(rows, p) ==
    \A t, u \in {x \in Stage : rows[x].pipeline = p} : t # u => rows[t].order # rows[u].order

(* The transaction: reorder, take is_won from the others, write.  A         *)
(* position used twice violates UNIQUE(pipeline_id, stage_order) and rolls  *)
(* back.  The index is checked row by row, so the statement that shifts     *)
(* several rows may fail on a position about to become free.                *)
UpdateStage(k, order, won) ==
    /\ At(k, "stage") /\ Done(k)
    /\ LET s == client[k].to
           p == client[k].target.pipeline
           from == client[k].target.order
           moved == IF order # from THEN Reordered(p, s, from, order) ELSE stage
           rows == [t \in Stage |->
                      IF t = s THEN [pipeline |-> p, order |-> order, won |-> won,
                                     active |-> client[k].target.active]
                      ELSE IF t \in Stages(p) THEN [moved[t] EXCEPT !.won = @ /\ ~won]
                      ELSE moved[t]]
       IN \/ UNCHANGED stage
          \/ stage[s].pipeline = p /\ Distinct(rows, p) /\ stage' = rows
    /\ UNCHANGED <<pipeline, criteria, items, deals>>

(* deleteStage: no deal in it and not the last stage of its pipeline when   *)
(* checked; the later stages move up.                                       *)
ReadDeletedStage(k, s) ==
    /\ stage[s].pipeline # NoPipeline
    /\ \A d \in Deal : deal[d].stage # s
    /\ Cardinality(Stages(stage[s].pipeline)) > 1
    /\ Begin(k, [Idle EXCEPT !.op = "drop stage", !.to = s, !.target = stage[s]])
    /\ UNCHANGED <<board, deals>>

DeleteStage(k) ==
    /\ At(k, "drop stage") /\ Done(k)
    /\ LET s == client[k].to
           p == client[k].target.pipeline
           rows == [t \in Stage |->
                      IF t = s THEN Absent
                      ELSE IF t \in Stages(p) /\ stage[t].order > client[k].target.order
                           THEN [stage[t] EXCEPT !.order = @ - 1] ELSE stage[t]]
       IN \/ UNCHANGED <<board, done>>
          \/ /\ (\A d \in Deal : deal[d].stage # s) /\ Distinct(rows, p)
             /\ stage' = rows
             /\ criteria' = [criteria EXCEPT ![s] = {}]
             /\ items' = items \ {s}
             /\ done' = {mark \in done : mark[2] # s}
             /\ UNCHANGED pipeline
    /\ UNCHANGED deal

-----------------------------------------------------------------------------
OnDeal(k) ==
    \/ ReadTarget(k) \/ ValidateStageTransition(k) \/ UpdateOpportunity(k)
    \/ \E s \in Stage : ReadStage(k, s)
    \/ \E d \in Deal :
         \/ CreateOpportunity(k, d)
         \/ \E to \in Stage, fields \in SUBSET Field, version \in 0..deal[d].version :
              ReadDeal(k, d, to, fields, version)

OnBoard(k) ==
    \/ DeletePipeline(k) \/ DeleteStage(k)
    \/ \E p \in Pipeline : ReadPipeline(k, p) \/ ReadDeleted(k, p)
    \/ \E state \in {"active", "inactive"}, default \in BOOLEAN : UpdatePipeline(k, state, default)
    \/ \E s \in Stage : ReadDeletedStage(k, s) \/ \E active \in BOOLEAN : ReadStageRow(k, s, active)
    \/ \E order \in 1..MaxOrder, won \in BOOLEAN : UpdateStage(k, order, won)

Next ==
    \/ \E k \in Client : OnDeal(k) \/ OnBoard(k)
    \/ \E d \in Deal : AddActivity(d) \/ SetPlaybookProgress(d)
    \/ \E p \in Pipeline : CreatePipeline(p)
    \/ \E s \in Stage, p \in Pipeline, order \in 1..MaxOrder : CreateStage(s, p, order)
    \/ \E s \in Stage, input \in Executions : SaveStageExecution(s, input)

Spec == Init /\ [][Next]_vars

-----------------------------------------------------------------------------
(* What the board promises                                                  *)

(* Held fast by the version: the criteria of rules a gate found met, for    *)
(* the fields only a versioned update can take away or fill.                *)
Lasting(rule) == rule.rule = "present" \/ (rule.rule = "empty" /\ rule.field = "competitor")

(* A stage is left through its gate: when a deal changes its stage, the     *)
(* request's gate judged that very stage, and every field criterion it      *)
(* found met still is, however many updates and activities came between.    *)
StageChangeGated ==
    [][\A d \in Deal : Exists(d) /\ deal'[d].stage # deal[d].stage =>
         \E k \in Client :
           /\ client[k].op = "write" /\ client[k].deal = d
           /\ client[k].leaving = deal[d].stage
           /\ \A rule \in client[k].gate : Lasting(rule) => Met(deal[d], d, rule)]_vars

(* Moving or deleting a stage keeps the order of the other stages of its    *)
(* board, even when the position read is out of date.                       *)
BoardOrderKept ==
    [][\A s, t \in Stage :
         /\ stage[s].pipeline = stage[t].pipeline /\ stage[s].order < stage[t].order
         /\ stage'[s].pipeline = stage'[t].pipeline /\ stage'[s].pipeline # NoPipeline
         /\ stage'[t].order < stage'[s].order
         => \E k \in Client : client[k].op = "stage" /\ client[k].to \in {s, t}]_vars
=============================================================================
