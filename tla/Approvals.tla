----------------------------- MODULE Approvals ------------------------------
(***************************************************************************)
(* The approval workflow: approval.Service (SavePolicy, Submit, Decide) and *)
(* the administrator's deletePolicy, over the mail service that announces   *)
(* its results.                                                             *)
(*                                                                          *)
(* Submit, Decide and deletePolicy read the database and act on what they   *)
(* read in a later statement: each is a call that takes several steps.  A   *)
(* transaction is one step.  An entity is its snapshot's amount: the        *)
(* conditions of matches compare numbers, and an operator on text compares  *)
(* in the same way.                                                         *)
(***************************************************************************)
EXTENDS Mail

CONSTANTS
    Policy,        \* rows of approval_policies, in the order priority, id
    Place,         \* the place of a policy in that order
    Entity,        \* what is submitted
    Amount,        \* the snapshot of an entity
    Condition,     \* conditions administrators write: field, operator, value
    TextIn,        \* pairs of numbers: the first's digits are in the second's
    Manager,       \* users.manager_id, or NoUser
    RoleMember,    \* accounts that hold the policies' approver role
    MayRequest,    \* accounts with approval:request
    MayApprove,    \* accounts with approval:approve
    Caller         \* requests the server handles at the same time

ASSUME ApprovalAssumption ==
    /\ Place \in [Policy -> Nat]
    /\ Amount \in [Entity -> Nat]
    /\ Condition \subseteq [field : {"", "amount", "other"}, op : STRING, value : Nat]
    /\ TextIn \subseteq Nat \X Nat
    /\ Manager \in [User -> User \cup {NoUser}]
    /\ RoleMember \subseteq User /\ MayRequest \subseteq User /\ MayApprove \subseteq User
    /\ Entity # {} /\ Policy # {} /\ Request # {} /\ Condition # {}

VARIABLES
    policy,    \* approval_policies
    request,   \* approval_requests with their step and history
    call       \* what each request the server handles does next

vars == <<mailVars, policy, request, call>>

Always == [field |-> "", op |-> "", value |-> 0]

PolicyRow == [state : {"none", "active", "inactive", "deleted"},
              cond : Condition \cup {Always}, method : {"MANAGER", "ROLE"}]

RequestRow == [status : Decision \cup {"none", "PENDING"}, version : Nat,
               entity : Entity, policy : Policy,
               requester : User, approver : User,
               step : Decision \cup {"PENDING"},
               history : SUBSET [actor : User, decision : Decision]]

Call == [at : {"idle", "exists", "resolve", "insert", "decide", "remove", "deactivate"},
         user : User, entity : Entity, policy : Policy, approver : User, method : {"MANAGER", "ROLE"},
         request : Request, decision : Decision, version : Nat]

BlankRequest ==
    LET someone == CHOOSE v \in User : TRUE IN
    [status |-> "none", version |-> 1, entity |-> CHOOSE e \in Entity : TRUE,
     policy |-> CHOOSE p \in Policy : TRUE, requester |-> someone, approver |-> someone,
     step |-> "PENDING", history |-> {}]

IdleCall ==
    LET someone == CHOOSE v \in User : TRUE IN
    [at |-> "idle", user |-> someone, entity |-> CHOOSE e \in Entity : TRUE,
     policy |-> CHOOSE p \in Policy : TRUE, approver |-> someone, method |-> "MANAGER",
     request |-> CHOOSE q \in Request : TRUE, decision |-> "APPROVED", version |-> 0]

RowTypes ==
    /\ policy \in [Policy -> PolicyRow]
    /\ request \in [Request -> RequestRow]
    /\ call \in [Caller -> Call]

TypeOK == MailTypeOK /\ RowTypes

Init ==
    /\ MailInit
    /\ policy = [p \in Policy |-> [state |-> "none", cond |-> Always, method |-> "MANAGER"]]
    /\ request = [q \in Request |-> BlankRequest]
    /\ call = [x \in Caller |-> IdleCall]

Exists(p)  == policy[p].state \in {"active", "inactive"}
Existing   == {q \in Request : request[q].status # "none"}
Active(u)  == account[u] # "inactive"
Goto(x, step) == call' = [call EXCEPT ![x].at = step]
Return(x)  == call' = [call EXCEPT ![x] = IdleCall]

-----------------------------------------------------------------------------
(* Policies                                                                 *)

(* SavePolicy: an INSERT under a new id, or an UPDATE of the row there is.  *)
SavePolicy(p) ==
    /\ policy[p].state # "deleted"
    /\ Change
    /\ \E cond \in Condition \cup {Always}, method \in {"MANAGER", "ROLE"}, active \in BOOLEAN :
        policy' = [policy EXCEPT ![p] = [state |-> IF active THEN "active" ELSE "inactive",
                                         cond |-> cond, method |-> method]]
    /\ UNCHANGED <<settings, renewals, sending, tick, request, call>>

(* deletePolicy counts the policy's requests: pending ones refuse it,       *)
(* decided ones turn it into a deactivation.                                *)
CountRequests(x, p) ==
    LET mine == {q \in Existing : request[q].policy = p} IN
    /\ call[x].at = "idle" /\ Exists(p)
    /\ \A q \in mine : request[q].status # "PENDING"
    /\ call' = [call EXCEPT ![x] = [IdleCall EXCEPT !.policy = p,
                                    !.at = IF mine = {} THEN "remove" ELSE "deactivate"]]
    /\ UNCHANGED <<mailVars, policy, request>>

(* Mutant: the schema does not tie a request to its policy.                 *)
RemovePolicyUnchecked(x) ==
    /\ call[x].at = "remove"
    /\ policy' = [policy EXCEPT ![call[x].policy].state = "deleted"]
    /\ Return(x)
    /\ UNCHANGED <<mailVars, request>>

(* The DELETE fails if a request has come to refer to the policy.           *)
RemovePolicy(x) ==
    LET p == call[x].policy IN
    /\ call[x].at = "remove"
    /\ policy' = IF \E q \in Existing : request[q].policy = p THEN policy
                 ELSE [policy EXCEPT ![p].state = "deleted"]
    /\ Return(x)
    /\ UNCHANGED <<mailVars, request>>

DeactivatePolicy(x) ==
    /\ call[x].at = "deactivate"
    /\ policy' = [policy EXCEPT ![call[x].policy].state =
                     IF @ = "deleted" THEN @ ELSE "inactive"]
    /\ Return(x)
    /\ UNCHANGED <<mailVars, request>>

-----------------------------------------------------------------------------
(* Submit                                                                   *)

(* matches: without a field always, without the field in the snapshot       *)
(* never; no operator, and one it does not know, is equality.               *)
Matches(cond, amount) ==
    CASE cond.field = ""      -> TRUE
      [] cond.field = "other" -> FALSE
      [] cond.op = "CONTAINS" -> <<cond.value, amount>> \in TextIn
      [] cond.op = "GT"  -> amount > cond.value
      [] cond.op = "GTE" -> amount >= cond.value
      [] cond.op = "LT"  -> amount < cond.value
      [] cond.op = "LTE" -> amount <= cond.value
      [] cond.op = "NE"  -> amount # cond.value
      [] OTHER           -> amount = cond.value

(* applicable: the first active policy whose condition the entity meets.    *)
Applicable(e) ==
    LET hits == {p \in Policy : policy[p].state = "active" /\ Matches(policy[p].cond, Amount[e])}
    IN {p \in hits : \A o \in hits : Place[p] <= Place[o]}

Submit(x, u, e) ==
    /\ call[x].at = "idle" /\ Active(u)
    /\ \E p \in Applicable(e) :
        call' = [call EXCEPT ![x] = [IdleCall EXCEPT !.at = "exists", !.user = u, !.entity = e,
                                     !.policy = p, !.method = policy[p].method]]
    /\ UNCHANGED <<mailVars, policy, request>>

Pending(e) == {q \in Existing : request[q].entity = e /\ request[q].status = "PENDING"}

(* A SELECT that fails counts as no pending request.                        *)
CheckPending(x) ==
    /\ call[x].at = "exists"
    /\ \/ /\ IF Pending(call[x].entity) # {} THEN Return(x) ELSE Goto(x, "resolve")
          /\ UNCHANGED bounds
       \/ Fault /\ Goto(x, "resolve")
    /\ UNCHANGED <<settings, renewals, sending, tick, policy, request>>

(* resolveApprover: the manager, active or not; else an active holder of    *)
(* the role; else an active administrator, the requester only as the last.  *)
ManagerOf(u, method) == IF method = "MANAGER" THEN {Manager[u]} \ {NoUser} ELSE {}
RoleHolders == {a \in RoleMember : Active(a)}
Admins(u) ==
    LET admins == {a \in Admin : Active(a)} IN
    IF admins \ {u} # {} THEN admins \ {u} ELSE admins

FirstFound(managers, holders, admins) ==
    IF managers # {} THEN managers ELSE IF holders # {} THEN holders ELSE admins

Designate(x, found) ==
    \/ \E a \in found : call' = [call EXCEPT ![x].at = "insert", ![x].approver = a]
    \/ found = {} /\ Return(x)

(* A lookup that fails counts as one that found nobody.                     *)
ResolveApprover(x) ==
    LET managers == ManagerOf(call[x].user, call[x].method)
        admins == Admins(call[x].user)
    IN
    /\ call[x].at = "resolve"
    /\ \/ Designate(x, FirstFound(managers, RoleHolders, admins)) /\ UNCHANGED bounds
       \/ /\ Fault
          /\ \/ Designate(x, FirstFound({}, RoleHolders, admins))
             \/ Designate(x, FirstFound(managers, {}, admins))
             \/ Designate(x, FirstFound(managers, RoleHolders, {}))
    /\ UNCHANGED <<settings, renewals, sending, tick, policy, request>>

(* The transaction inserts the request, its step and its SUBMIT entry, and  *)
(* fails if the policy is gone; then the approver is told.                  *)
Insert(x) ==
    LET r == call[x] IN
    /\ r.at = "insert"
    /\ Return(x)
    /\ \/ /\ Exists(r.policy)
          /\ \E q \in Request \ Existing, d \in Delivery :
              /\ request' = [request EXCEPT ![q] =
                    [BlankRequest EXCEPT !.status = "PENDING", !.entity = r.entity,
                                         !.policy = r.policy, !.requester = r.user,
                                         !.approver = r.approver]]
              /\ Start(d, ApprovalRequested(q, r.user, r.approver))
       \/ ~Exists(r.policy) /\ UNCHANGED <<request, sending>>
    /\ UNCHANGED <<settings, renewals, tick, bounds, policy>>

-----------------------------------------------------------------------------
(* Decide                                                                   *)

(* Decide: the designated approver or an administrator, on a pending one.   *)
(* The version is the one read or the one the client sent; any but the      *)
(* row's matches no row in the end and is left out.                         *)
Decide(x, u, q, decision) ==
    /\ call[x].at = "idle" /\ Active(u)
    /\ request[q].status = "PENDING"
    /\ u = request[q].approver \/ u \in Admin
    /\ call' = [call EXCEPT ![x] = [IdleCall EXCEPT !.at = "decide", !.user = u, !.request = q,
                                    !.decision = decision, !.version = request[q].version]]
    /\ UNCHANGED <<mailVars, policy, request>>

Decided(q, r) ==
    [request EXCEPT ![q].status = r.decision, ![q].version = @ + 1, ![q].step = r.decision,
                    ![q].history = @ \cup {[actor |-> r.user, decision |-> r.decision]}]

(* Mutant: the UPDATE does not look at the row it read before.              *)
CommitDecisionBlindly(x) ==
    LET r == call[x] IN
    /\ r.at = "decide"
    /\ Return(x)
    /\ request' = Decided(r.request, r)
    /\ \E d \in Delivery :
         Start(d, ApprovalDecided(r.request, r.decision, r.user, request[r.request].requester))
    /\ UNCHANGED <<settings, renewals, tick, bounds, policy>>

(* Mutant: the requester is told although the UPDATE matched no row.        *)
CommitDecisionTellsAnyway(x) ==
    LET r == call[x]
        q == r.request
    IN
    /\ r.at = "decide"
    /\ Return(x)
    /\ request' = IF request[q].status = "PENDING" THEN Decided(q, r) ELSE request
    /\ \E d \in Delivery : Start(d, ApprovalDecided(q, r.decision, r.user, request[q].requester))
    /\ UNCHANGED <<settings, renewals, tick, bounds, policy>>

(* The transaction updates the row if it is pending at the version read,    *)
(* with its step and history; then the requester is told.                   *)
CommitDecision(x) ==
    LET r == call[x]
        q == r.request
        current == request[q].status = "PENDING" /\ request[q].version = r.version
    IN
    /\ r.at = "decide"
    /\ Return(x)
    /\ \/ /\ current
          /\ request' = Decided(q, r)
          /\ \E d \in Delivery :
               Start(d, ApprovalDecided(q, r.decision, r.user, request[q].requester))
       \/ ~current /\ UNCHANGED <<request, sending>>
    /\ UNCHANGED <<settings, renewals, tick, bounds, policy>>

-----------------------------------------------------------------------------
(* The process dies, or only one request is cut off.                        *)
Crash ==
    /\ MailCrash
    /\ call' = [x \in Caller |-> IdleCall]
    /\ UNCHANGED <<policy, request>>

Abort(x) ==
    /\ call[x].at # "idle"
    /\ Fault
    /\ Return(x)
    /\ UNCHANGED <<settings, renewals, sending, tick, policy, request>>

Continue(x) ==
    \/ RemovePolicy(x) \/ DeactivatePolicy(x)
    \/ CheckPending(x) \/ ResolveApprover(x) \/ Insert(x)
    \/ CommitDecision(x)

Begin(x) ==
    \/ \E p \in Policy : CountRequests(x, p)
    \/ \E u \in MayRequest, e \in Entity : Submit(x, u, e)
    \/ \E u \in MayApprove, q \in Existing, decision \in Decision : Decide(x, u, q, decision)

Next ==
    \/ MailNext /\ UNCHANGED <<policy, request, call>>
    \/ \E p \in Policy : SavePolicy(p)
    \/ \E x \in Caller : Begin(x) \/ Continue(x) \/ Abort(x)
    \/ Crash

Spec == Init /\ [][Next]_vars

(* A goroutine, a request and the maintenance pass keep running while the   *)
(* process lives; the pass is started every minute.                         *)
Fairness ==
    /\ \A d \in Slot : WF_vars(job[d].at # "idle" /\ Delivering(d) /\ UNCHANGED <<policy, request, call>>)
    /\ WF_vars(Renewing /\ UNCHANGED <<policy, request, call>>)
    /\ \A x \in Caller : WF_vars(call[x].at # "idle" /\ Continue(x))

FairSpec == Spec /\ Fairness

-----------------------------------------------------------------------------
(* However many approvers and administrators decide at once, a request is   *)
(* decided once, by someone entitled to, and its row, step and history      *)
(* agree.                                                                   *)
DecidedOnce ==
    \A q \in Existing :
        LET r == request[q] IN
        IF r.status = "PENDING"
        THEN r.version = 1 /\ r.step = "PENDING" /\ r.history = {}
        ELSE /\ r.version = 2 /\ r.step = r.status
             /\ \E u \in {r.approver} \cup Admin :
                   r.history = {[actor |-> u, decision |-> r.status]}

(* A mail that announces a decision announces the one that stands: a        *)
(* decision that lost the race is never mailed, however late mail leaves.   *)
NewsIsTrue ==
    \A u \in User, q \in Request, decision \in Decision :
        <<u, <<q, decision>>>> \in inbox => request[q].status = decision

(* deletePolicy: the policy of a request is never deleted, even when the    *)
(* request is submitted after its requests were counted.                    *)
PolicyOutlivesRequests == \A q \in Existing : Exists(request[q].policy)

(* The requester waits for the answer: if somebody else decided, mail is    *)
(* configured and nothing fails, the requester is told.                     *)
RequesterIsTold ==
    \A q \in Request :
        LET r == request[q]
            fine == faults = MaxFaults /\ config = "ready" /\ account[r.requester] = "reachable"
            decided == \E h \in r.history : h.actor # r.requester
        IN decided /\ fine ~> ~fine \/ <<r.requester, <<q, r.status>>>> \in inbox

(* Why the invariants hold: a decision in flight is for a request there is, *)
(* by someone entitled to decide it ...                                     *)
DecidersAreEntitled ==
    \A x \in Caller : call[x].at = "decide" =>
        /\ call[x].request \in Existing
        /\ call[x].user \in {request[call[x].request].approver} \cup Admin

(* ... and a message on its way announces a decision that stands.           *)
NotesAreTrue ==
    \A d \in Slot, q \in Request, decision \in Decision :
        job[d].at # "idle" /\ <<q, decision>> \in job[d].note.facts => request[q].status = decision

ApprovalInv ==
    /\ MailInv /\ RowTypes
    /\ DecidedOnce /\ DecidersAreEntitled /\ PolicyOutlivesRequests
    /\ NotesAreTrue /\ NewsIsTrue
=============================================================================
