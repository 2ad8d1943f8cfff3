--------------------------- MODULE Voices_proofs ---------------------------
(***************************************************************************)
(* Proofs about Voices and the Workspaces it extends: for every set of      *)
(* workspaces, types, customers, requests and slots, and all settings.      *)
(***************************************************************************)
EXTENDS Voices, SequenceTheorems, TLAPS

-----------------------------------------------------------------------------
(* Rows and requests                                                        *)

LEMMA RowIn == ASSUME NEW S, S # {} PROVE Row(S) \in S
BY DEF Row

LEMMA RowOf ==
    ASSUME NEW T, NEW S \in AtMostOne(T), Given(S)
    PROVE  Row(S) \in T /\ S = {Row(S)}
<1>1. PICK x \in T : S = {x}
    BY DEF AtMostOne, Given
<1>2. Row(S) \in S
    BY RowIn DEF Given
<1> QED
    BY <1>1, <1>2

LEMMA One == ASSUME NEW T PROVE {} \in AtMostOne(T) /\ \A x \in T : {x} \in AtMostOne(T)
BY DEF AtMostOne

(* The requests of a kind.                                                  *)
CategoryChange == [op : {"category"}, category : Category, workspace : Workspace \cup {NoWorkspace}]
CategoryEnd == [op : {"retire", "delete category"}, category : Category]
RowCheck == [op : {"check"}, workspace : Workspace, setting : Setting, rows : SUBSET Code]
RowRegister == [op : {"register"}, workspace : Workspace, setting : Setting, rows : SUBSET Code, code : Code]
Filer == [op : {"intake"}, category : Category, customer : Member, workspace : Workspace \cup {NoWorkspace},
          setting : AtMostOne(Setting)]
Filed == [op : {"file"}, row : FilingRow]
Edit == [op : {"update", "resolve", "start"}, voice : Voice, before : VoiceRow, gated : BOOLEAN]
Judge == [op : {"review"}, voice : Voice, finished : BOOLEAN]
Started == [op : {"started"}, voice : Voice]

LEMMA RequestsAre ==
    Request = {Idle} \cup CategoryChange \cup CategoryEnd \cup RowCheck \cup RowRegister \cup Filer \cup Filed
              \cup Edit \cup Judge \cup Started
BY DEF Request, CategoryChange, CategoryEnd, RowCheck, RowRegister, Filer, Filed, Edit, Judge, Started

(* The slot tells the kind.                                                 *)
LEMMA KindIs ==
    ASSUME NEW q \in Request
    PROVE  /\ q.op = "category" => q \in CategoryChange
           /\ q.op \in {"retire", "delete category"} => q \in CategoryEnd
           /\ q.op = "check" => q \in RowCheck
           /\ q.op = "register" => q \in RowRegister
           /\ q.op = "intake" => q \in Filer
           /\ q.op = "file" => q \in Filed
           /\ q.op \in {"update", "resolve", "start"} => q \in Edit
           /\ q.op = "review" => q \in Judge
           /\ q.op = "started" => q \in Started
<1>1. /\ Idle.op = "idle"
      /\ \A r \in CategoryChange : r.op = "category"
      /\ \A r \in CategoryEnd : r.op \in {"retire", "delete category"}
      /\ \A r \in RowCheck : r.op = "check"
      /\ \A r \in RowRegister : r.op = "register"
    BY DEF Idle, CategoryChange, CategoryEnd, RowCheck, RowRegister
<1>2. /\ \A r \in Filer : r.op = "intake"
      /\ \A r \in Filed : r.op = "file"
      /\ \A r \in Edit : r.op \in {"update", "resolve", "start"}
      /\ \A r \in Judge : r.op = "review"
      /\ \A r \in Started : r.op = "started"
    BY DEF Filer, Filed, Edit, Judge, Started
<1> QED
    BY <1>1, <1>2, RequestsAre

LEMMA IdleIsRequest == Idle \in Request
BY RequestsAre

(* A slot that is set to a request.                                         *)
LEMMA SlotTyped ==
    ASSUME TypeOK, NEW k \in Client, NEW q \in Request, client' = [client EXCEPT ![k] = q]
    PROVE  /\ client' \in [Client -> Request] /\ client'[k] = q
           /\ \A j \in Client : j # k => client'[j] = client[j]
BY DEF TypeOK

-----------------------------------------------------------------------------
(* The lifecycle                                                            *)

LEMMA TransitionsAre ==
    ASSUME NEW s \in Status, NEW t \in AllowedTransitions[s]
    PROVE  /\ t \in Status /\ t # s /\ t # "RECEIVED"
           /\ t = "CLOSED" => s = "RESOLVED"
           /\ t = "RESOLVED" => ~Finished(s)
<1>1. CASE s = "RECEIVED"
  <2>1. AllowedTransitions["RECEIVED"] = {"IN_REVIEW", "IN_PROGRESS", "REJECTED"}
    BY DEF AllowedTransitions
  <2> QED BY <1>1, <2>1 DEF Status
<1>2. CASE s = "IN_REVIEW"
  <2>1. AllowedTransitions["IN_REVIEW"] = {"IN_PROGRESS", "PENDING_CUSTOMER", "RESOLVED", "REJECTED"}
    BY DEF AllowedTransitions
  <2> QED BY <1>2, <2>1 DEF Status, Finished
<1>3. CASE s = "IN_PROGRESS"
  <2>1. AllowedTransitions["IN_PROGRESS"] = {"PENDING_CUSTOMER", "RESOLVED", "REJECTED"}
    BY DEF AllowedTransitions
  <2> QED BY <1>3, <2>1 DEF Status, Finished
<1>4. CASE s = "PENDING_CUSTOMER"
  <2>1. AllowedTransitions["PENDING_CUSTOMER"] = {"IN_PROGRESS", "RESOLVED", "REJECTED"}
    BY DEF AllowedTransitions
  <2> QED BY <1>4, <2>1 DEF Status, Finished
<1>5. CASE s = "RESOLVED"
  <2>1. AllowedTransitions["RESOLVED"] = {"CLOSED", "IN_PROGRESS"}
    BY DEF AllowedTransitions
  <2> QED BY <1>5, <2>1 DEF Status
<1>6. CASE s = "CLOSED"
  <2>1. AllowedTransitions["CLOSED"] = {"IN_PROGRESS"}
    BY DEF AllowedTransitions
  <2> QED BY <1>6, <2>1 DEF Status
<1>7. CASE s = "REJECTED"
  <2>1. AllowedTransitions["REJECTED"] = {"IN_PROGRESS"}
    BY DEF AllowedTransitions
  <2> QED BY <1>7, <2>1 DEF Status
<1> QED
    BY <1>1, <1>2, <1>3, <1>4, <1>5, <1>6, <1>7 DEF Status

(* What a save writes, field by field.                                      *)
LEMMA SavedIs ==
    ASSUME NEW row \in VoiceRow, row.version < MaxVersion, NEW before \in VoiceRow, NEW status \in Status,
           NEW resolution \in BOOLEAN, NEW evidence \in BOOLEAN
    PROVE  LET new == Saved(row, before, status, resolution, evidence)
               now == row.version + 1 IN
           /\ new \in VoiceRow
           /\ new.status = status /\ new.version = now
           /\ new.resolution = (row.resolution \/ resolution)
           /\ new.responded = IF row.responded = 0 /\ status # "RECEIVED" THEN now ELSE row.responded
           /\ new.resolved = IF ~Finished(status) THEN 0 ELSE IF row.resolved = 0 THEN now ELSE row.resolved
           /\ new.closed = IF status # "CLOSED" THEN 0 ELSE IF row.closed = 0 THEN now ELSE row.closed
<1> DEFINE new == Saved(row, before, status, resolution, evidence)
           now == row.version + 1
           ticked == Clocks(row, status)
<1>1. MaxVersion \in Nat
    BY WorkspacesAssumption
<1>2. now \in 1..MaxVersion /\ 0 \in Clock /\ now \in Clock
    BY <1>1 DEF VoiceRow, Clock
<1>3. /\ ticked \in VoiceRow /\ ticked.version = row.version /\ ticked.resolution = row.resolution
      /\ ticked.responded = IF row.responded = 0 /\ status # "RECEIVED" THEN now ELSE row.responded
      /\ ticked.resolved = IF ~Finished(status) THEN 0 ELSE IF row.resolved = 0 THEN now ELSE row.resolved
      /\ ticked.closed = IF status # "CLOSED" THEN 0 ELSE IF row.closed = 0 THEN now ELSE row.closed
    BY <1>2 DEF Clocks, VoiceRow
<1>4. "UNREVIEWED" \in Knowledge
    BY DEF Knowledge
<1>5. now = ticked.version + 1 /\ now \in 0..MaxVersion
    BY <1>2, <1>3
<1> HIDE DEF ticked, now
<1>6. /\ new \in VoiceRow /\ new.status = status /\ new.version = now
      /\ new.resolution = (ticked.resolution \/ resolution)
      /\ new.responded = ticked.responded /\ new.resolved = ticked.resolved /\ new.closed = ticked.closed
    BY <1>3, <1>4, <1>5 DEF Saved, VoiceRow, ticked
<1> QED
    BY <1>3, <1>6 DEF now, new

-----------------------------------------------------------------------------
(* A row and its history                                                    *)

Walked(row, h) ==
    /\ \E i \in Moves(h) : Newest(i, Moves(h)) /\ h[i].to = row.status
    /\ \A i, j \in Moves(h) :
         i < j /\ (\A m \in Moves(h) : m <= i \/ j <= m)
           => h[j].from = h[i].to /\ h[j].to \in AllowedTransitions[h[j].from]
    /\ Finished(row.status) => row.resolution

Entered(h, status, at) == \E i \in DOMAIN h : Newest(i, Entries(h, status)) /\ at = h[i].at

AnswerTold(row, h) ==
    IF Answers(h) = {} THEN row.responded = 0
    ELSE \E i \in DOMAIN h : Oldest(i, Answers(h)) /\ row.responded = h[i].at

EndTold(row, h) ==
    /\ IF Finished(row.status) THEN Entered(h, "RESOLVED", row.resolved) ELSE row.resolved = 0
    /\ IF row.status = "CLOSED" THEN Entered(h, "CLOSED", row.closed) ELSE row.closed = 0

(* Only the first move comes from no status, and time starts at 1.          *)
Dated(row, h) ==
    /\ row.version >= 1
    /\ \A i \in DOMAIN h :
         /\ h[i].at >= 1
         /\ h[i].type = "status" /\ h[i].from = "" => h[i].to = "RECEIVED"
         /\ h[i].type = "contact" => h[i].to = ""

Recorded(row, h) == Walked(row, h) /\ AnswerTold(row, h) /\ EndTold(row, h) /\ Dated(row, h)

LEMMA AppendedIs ==
    ASSUME NEW h \in Seq(Event), NEW e \in Event
    PROVE  LET g == Append(h, e)
               n == Len(h) + 1 IN
           /\ g \in Seq(Event) /\ n \in Nat \ {0} /\ DOMAIN h \subseteq Nat /\ DOMAIN g = DOMAIN h \cup {n}
           /\ g[n] = e /\ \A i \in DOMAIN h : i < n /\ g[i] = h[i] /\ h[i] \in Event
<1>1. /\ Len(h) \in Nat /\ DOMAIN h = 1..Len(h) /\ Append(h, e) \in Seq(Event)
      /\ DOMAIN Append(h, e) = 1..Len(h) + 1
    BY AppendProperties, LenProperties
<1>2. Append(h, e)[Len(h) + 1] = e /\ \A i \in 1..Len(h) : Append(h, e)[i] = h[i]
    BY AppendProperties
<1>3. \A i \in 1..Len(h) : h[i] \in Event
    BY ElementOfSeq
<1> QED
    BY <1>1, <1>2, <1>3

(* An event at the end of a history that belongs to a set of its places is  *)
(* its newest, and its oldest when there was none; other sets stay.         *)
LEMMA NewestAppended ==
    ASSUME NEW S \in SUBSET Nat, NEW n \in Nat, \A i \in S : i < n
    PROVE  /\ Newest(n, S \cup {n})
           /\ S = {} => Oldest(n, S \cup {n})
           /\ \A i \in S : Oldest(i, S) => Oldest(i, S \cup {n})
<1>1. \A i \in S \cup {n} : i \in Nat /\ i <= n
    OBVIOUS
<1>2. n \in S \cup {n}
    OBVIOUS
<1>3. Newest(n, S \cup {n})
    BY <1>1, <1>2 DEF Newest
<1>4. ASSUME S = {}
      PROVE  Oldest(n, S \cup {n})
    BY <1>4 DEF Oldest
<1>5. ASSUME NEW i \in S, Oldest(i, S)
      PROVE  Oldest(i, S \cup {n})
  <2>1. \A j \in S : i <= j
    BY <1>5 DEF Oldest
  <2>2. \A j \in S \cup {n} : i <= j
    BY <1>1, <2>1
  <2> QED
    BY <2>2 DEF Oldest
<1> QED
    BY <1>3, <1>4, <1>5

(* The places of a longer history.                                          *)
LEMMA PlacesAppended ==
    ASSUME NEW h \in Seq(Event), NEW e \in Event
    PROVE  LET g == Append(h, e)
               n == Len(h) + 1 IN
           /\ Moves(g) = IF e.type = "status" THEN Moves(h) \cup {n} ELSE Moves(h)
           /\ Answers(g) = IF e.type = "contact" \/ e.from # "" THEN Answers(h) \cup {n} ELSE Answers(h)
           /\ \A s : Entries(g, s) = IF e.to = s THEN Entries(h, s) \cup {n} ELSE Entries(h, s)
<1> DEFINE g == Append(h, e)
           n == Len(h) + 1
<1>1. /\ DOMAIN g = DOMAIN h \cup {n} /\ g[n] = e
      /\ \A i \in DOMAIN h : g[i] = h[i]
    BY AppendedIs
<1>2. n \notin DOMAIN h
    BY AppendedIs
<1> HIDE DEF g, n
<1>3. Moves(g) = IF e.type = "status" THEN Moves(h) \cup {n} ELSE Moves(h)
    BY <1>1 DEF Moves
<1>4. Answers(g) = IF e.type = "contact" \/ e.from # "" THEN Answers(h) \cup {n} ELSE Answers(h)
    BY <1>1 DEF Answers
<1>5. \A s : Entries(g, s) = IF e.to = s THEN Entries(h, s) \cup {n} ELSE Entries(h, s)
    BY <1>1 DEF Entries
<1> QED
    BY <1>3, <1>4, <1>5 DEF g, n

LEMMA PlacesAre ==
    ASSUME NEW h \in Seq(Event)
    PROVE  /\ Moves(h) \subseteq DOMAIN h /\ Answers(h) \subseteq DOMAIN h
           /\ \A s : Entries(h, s) \subseteq DOMAIN h
BY DEF Moves, Answers, Entries

(* The history a new request starts with.                                   *)
LEMMA StartRecorded ==
    LET first == [type |-> "status", from |-> "", to |-> "RECEIVED", at |-> 1] IN
    /\ Received \in VoiceRow /\ <<first>> \in Seq(Event)
    /\ Recorded(Received, <<first>>)
<1> DEFINE e == [type |-> "status", from |-> "", to |-> "RECEIVED", at |-> 1]
           h == <<e>>
<1>1. MaxVersion \in Nat /\ 1 <= MaxVersion
    BY WorkspacesAssumption
<1>2. /\ Received \in VoiceRow /\ e \in Event
    BY <1>1 DEF Received, VoiceRow, Event, Status, Knowledge, Clock
<1>4. e.type = "status" /\ e.from = "" /\ e.to = "RECEIVED" /\ e.at = 1
    OBVIOUS
<1>3. DOMAIN h = {1} /\ h[1] = e /\ h \in Seq(Event)
  <2> HIDE DEF e
  <2>1. h \in Seq(Event) /\ Len(h) = 1 /\ h[1] = e
    BY <1>2
  <2>2. DOMAIN h = 1..1
    BY <2>1, LenProperties
  <2> QED BY <2>1, <2>2
<1>5. /\ Received.status = "RECEIVED" /\ Received.version = 1 /\ Received.responded = 0
      /\ Received.resolved = 0 /\ Received.closed = 0
    BY DEF Received
<1> HIDE DEF e, h
<1>6. Moves(h) = {1} /\ Answers(h) = {}
    BY <1>3, <1>4 DEF Moves, Answers
<1>7. Walked(Received, h)
  <2>1. Newest(1, Moves(h))
    BY <1>6 DEF Newest
  <2>2. ~Finished(Received.status)
    BY <1>5 DEF Finished
  <2>3. \A i, j \in Moves(h) : ~(i < j)
    BY <1>6
  <2> QED
    BY <1>3, <1>4, <1>5, <1>6, <2>1, <2>2, <2>3 DEF Walked
<1>8. AnswerTold(Received, h) /\ EndTold(Received, h)
    BY <1>5, <1>6 DEF AnswerTold, EndTold, Finished
<1>9. Dated(Received, h)
  <2>1. h[1].at = 1 /\ h[1].to = "RECEIVED" /\ h[1].type # "contact"
    BY <1>3, <1>4
  <2>2. h[1].at >= 1 /\ Received.version >= 1
    BY <2>1, <1>5
  <2>3. \A i \in DOMAIN h : i = 1
    BY <1>3
  <2> QED
    BY <2>1, <2>2, <2>3 DEF Dated
<1> QED
    BY <1>2, <1>3, <1>7, <1>8, <1>9 DEF Recorded, h, e

(* A move out of the status of the row.                                     *)
LEMMA MoveRecorded ==
    ASSUME NEW row \in VoiceRow, NEW h \in Seq(Event), Recorded(row, h),
           NEW new \in VoiceRow, new.version = row.version + 1,
           new.status \in AllowedTransitions[row.status], Finished(new.status) => new.resolution,
           new.responded = IF row.responded = 0 /\ new.status # "RECEIVED" THEN new.version ELSE row.responded,
           new.resolved = IF ~Finished(new.status) THEN 0 ELSE IF row.resolved = 0 THEN new.version ELSE row.resolved,
           new.closed = IF new.status # "CLOSED" THEN 0 ELSE IF row.closed = 0 THEN new.version ELSE row.closed
    PROVE  LET e == [type |-> "status", from |-> row.status, to |-> new.status, at |-> new.version] IN
           e \in Event /\ Append(h, e) \in Seq(Event) /\ Recorded(new, Append(h, e))
<1> DEFINE e == [type |-> "status", from |-> row.status, to |-> new.status, at |-> new.version]
           g == Append(h, e)
           n == Len(h) + 1
<1>1. /\ row.status \in Status /\ new.status \in Status /\ new.version \in 0..MaxVersion /\ row.version >= 1
      /\ row.version \in 0..MaxVersion /\ row.responded \in Clock /\ row.resolved \in Clock /\ row.closed \in Clock
    BY DEF VoiceRow, Recorded, Dated
<1>2. /\ new.status # row.status /\ new.status # "RECEIVED"
      /\ new.status = "CLOSED" => row.status = "RESOLVED"
      /\ new.status = "RESOLVED" => ~Finished(row.status)
    BY <1>1, TransitionsAre
<1>3. e \in Event /\ "" \notin Status
    BY <1>1 DEF Event, Clock, Status
<1>4. /\ e.type = "status" /\ e.from = row.status /\ e.to = new.status /\ e.at = new.version /\ e.from # ""
    BY <1>1, <1>3
<1> HIDE DEF e
<1>5. /\ g \in Seq(Event) /\ n \in Nat \ {0} /\ DOMAIN h \subseteq Nat /\ DOMAIN g = DOMAIN h \cup {n}
      /\ g[n] = e /\ \A i \in DOMAIN h : i < n /\ g[i] = h[i] /\ h[i] \in Event
    BY <1>3, AppendedIs
<1>6. /\ Moves(g) = Moves(h) \cup {n}
      /\ Answers(g) = Answers(h) \cup {n}
      /\ \A s : Entries(g, s) = IF new.status = s THEN Entries(h, s) \cup {n} ELSE Entries(h, s)
    BY <1>3, <1>4, PlacesAppended
<1>7. /\ Moves(h) \subseteq DOMAIN h /\ Answers(h) \subseteq DOMAIN h /\ \A s : Entries(h, s) \subseteq DOMAIN h
    BY PlacesAre
<1>8. MaxVersion \in Nat
    BY WorkspacesAssumption
<1> HIDE DEF g, n
<1>13. /\ Moves(h) \in SUBSET Nat /\ \A i \in Moves(h) : i < n
       /\ Answers(h) \in SUBSET Nat /\ \A i \in Answers(h) : i < n
    BY <1>5, <1>7
<1>14. \A s : Entries(h, s) \in SUBSET Nat /\ \A i \in Entries(h, s) : i < n
    BY <1>5, <1>7
<1>9. Walked(new, g)
  <2>1. PICK p \in Moves(h) : Newest(p, Moves(h)) /\ h[p].to = row.status
    BY DEF Recorded, Walked
  <2>2. Newest(n, Moves(g)) /\ g[n].to = new.status
    BY <1>4, <1>5, <1>6, <1>13, NewestAppended
  <2>3. ASSUME NEW i \in Moves(g), NEW j \in Moves(g), i < j, \A m \in Moves(g) : m <= i \/ j <= m
        PROVE  g[j].from = g[i].to /\ g[j].to \in AllowedTransitions[g[j].from]
    <3>1. CASE j = n
      <4>1. i \in Moves(h) /\ i # n
        BY <2>3, <3>1, <1>5, <1>6, <1>7
      <4>2. i = p
        BY <2>1, <2>3, <3>1, <4>1, <1>5, <1>6, <1>7 DEF Newest
      <4> QED
        BY <4>1, <4>2, <2>1, <3>1, <1>4, <1>5, <1>7
    <3>2. CASE j # n
      <4>1. i \in Moves(h) /\ j \in Moves(h)
        BY <2>3, <3>2, <1>5, <1>6, <1>7
      <4>2. h[j].from = h[i].to /\ h[j].to \in AllowedTransitions[h[j].from]
        BY <4>1, <2>3, <1>6 DEF Recorded, Walked
      <4> QED
        BY <4>1, <4>2, <1>5, <1>7
    <3> QED BY <3>1, <3>2
  <2> QED
    BY <1>6, <2>2, <2>3 DEF Walked
<1>10. AnswerTold(new, g)
  <2>1. CASE Answers(h) = {}
    <3>1. Oldest(n, Answers(g)) /\ g[n].at = new.version
      BY <2>1, <1>4, <1>5, <1>6, <1>13, NewestAppended
    <3>2. new.responded = new.version
      BY <2>1, <1>2 DEF Recorded, AnswerTold
    <3> QED
      BY <3>1, <3>2, <1>5, <1>6 DEF AnswerTold
  <2>2. CASE Answers(h) # {}
    <3>1. PICK i \in DOMAIN h : Oldest(i, Answers(h)) /\ row.responded = h[i].at
      BY <2>2 DEF Recorded, AnswerTold
    <3>2. Oldest(i, Answers(g)) /\ g[i].at = h[i].at /\ i \in DOMAIN g
      <4>1. i \in Answers(h)
        BY <3>1 DEF Oldest
      <4>2. Oldest(i, Answers(h) \cup {n})
        BY <3>1, <4>1, <1>5, <1>13, NewestAppended
      <4> QED
        BY <4>2, <1>5, <1>6
    <3>3. h[i].at >= 1
      BY <3>1 DEF Recorded, Dated
    <3>4. new.responded = row.responded
      BY <3>1, <3>3
    <3> QED
      BY <3>1, <3>2, <3>4, <1>6 DEF AnswerTold
  <2> QED BY <2>1, <2>2
<1>11. EndTold(new, g)
  <2>1. CASE new.status = "RESOLVED"
    <3>1. row.resolved = 0 /\ new.resolved = new.version
      BY <2>1, <1>2 DEF Recorded, EndTold, Finished
    <3>2. Newest(n, Entries(g, "RESOLVED"))
      <4> DEFINE S == Entries(h, "RESOLVED")
      <4>1. S \in SUBSET Nat /\ (\A i \in S : i < n) /\ Entries(g, "RESOLVED") = S \cup {n}
        BY <2>1, <1>6, <1>14
      <4> HIDE DEF S
      <4> QED
        BY <4>1, <1>5, NewestAppended
    <3> QED
      BY <2>1, <3>1, <3>2, <1>4, <1>5 DEF EndTold, Entered, Finished
  <2>2. CASE new.status = "CLOSED"
    <3>1. row.status = "RESOLVED" /\ row.closed = 0 /\ new.closed = new.version
      BY <2>2, <1>2 DEF Recorded, EndTold
    <3>2. Newest(n, Entries(g, "CLOSED"))
      <4> DEFINE S == Entries(h, "CLOSED")
      <4>1. S \in SUBSET Nat /\ (\A i \in S : i < n) /\ Entries(g, "CLOSED") = S \cup {n}
        BY <2>2, <1>6, <1>14
      <4> HIDE DEF S
      <4> QED
        BY <4>1, <1>5, NewestAppended
    <3>3. PICK i \in DOMAIN h : Newest(i, Entries(h, "RESOLVED")) /\ row.resolved = h[i].at
      BY <3>1 DEF Recorded, EndTold, Entered, Finished
    <3>4. h[i].at >= 1
      BY <3>3 DEF Recorded, Dated
    <3>5. new.resolved = row.resolved
      BY <2>2, <3>3, <3>4 DEF Finished
    <3>6. Newest(i, Entries(g, "RESOLVED")) /\ g[i].at = row.resolved /\ i \in DOMAIN g
      BY <2>2, <3>3, <1>5, <1>6
    <3> QED
      BY <2>2, <3>1, <3>2, <3>5, <3>6, <1>4, <1>5 DEF EndTold, Entered, Finished
  <2>3. CASE ~Finished(new.status)
    BY <2>3 DEF EndTold, Finished
  <2> QED BY <2>1, <2>2, <2>3 DEF Finished
<1>12. Dated(new, g)
  <2>1. \A i \in DOMAIN h : /\ h[i].at >= 1
                            /\ h[i].type = "status" /\ h[i].from = "" => h[i].to = "RECEIVED"
                            /\ h[i].type = "contact" => h[i].to = ""
    BY DEF Recorded, Dated
  <2>2. new.version >= 1
    BY <1>1, <1>8
  <2>3. g[n].at >= 1 /\ g[n].type # "contact" /\ g[n].from # ""
    BY <2>2, <1>4, <1>5
  <2> QED
    BY <2>1, <2>2, <2>3, <1>5 DEF Dated
<1> QED
    BY <1>3, <1>5, <1>9, <1>10, <1>11, <1>12 DEF Recorded, g, e

(* A clock that runs is not at zero.                                        *)
LEMMA ClocksRun ==
    ASSUME NEW row \in VoiceRow, NEW h \in Seq(Event), Recorded(row, h)
    PROVE  /\ row.status # "RECEIVED" => row.responded # 0
           /\ Answers(h) # {} => row.responded # 0
           /\ Finished(row.status) => row.resolved # 0
           /\ row.status = "CLOSED" => row.closed # 0
<1>1. \A i \in DOMAIN h : h[i].at >= 1
    BY DEF Recorded, Dated
<1>2. \A i \in DOMAIN h : h[i].at # 0
    BY <1>1
<1>3. ASSUME Answers(h) # {}
      PROVE  row.responded # 0
    BY <1>2, <1>3 DEF Recorded, AnswerTold
<1>4. ASSUME row.status # "RECEIVED"
      PROVE  Answers(h) # {}
  <2>1. PICK p \in Moves(h) : h[p].to = row.status
    BY DEF Recorded, Walked
  <2>2. p \in DOMAIN h /\ h[p].type = "status"
    BY <2>1 DEF Moves
  <2>3. h[p].from # ""
    BY <2>1, <2>2, <1>4 DEF Recorded, Dated
  <2> QED
    BY <2>2, <2>3 DEF Answers
<1>5. /\ Finished(row.status) => row.resolved # 0
      /\ row.status = "CLOSED" => row.closed # 0
    BY <1>2 DEF Recorded, EndTold, Entered
<1> QED
    BY <1>3, <1>4, <1>5

(* An edit that keeps the status.                                           *)
LEMMA EditRecorded ==
    ASSUME NEW row \in VoiceRow, NEW h \in Seq(Event), Recorded(row, h),
           NEW new \in VoiceRow, new.version = row.version + 1,
           new.status = row.status, row.resolution => new.resolution,
           new.responded = IF row.responded = 0 /\ new.status # "RECEIVED" THEN new.version ELSE row.responded,
           new.resolved = IF ~Finished(new.status) THEN 0 ELSE IF row.resolved = 0 THEN new.version ELSE row.resolved,
           new.closed = IF new.status # "CLOSED" THEN 0 ELSE IF row.closed = 0 THEN new.version ELSE row.closed
    PROVE  Recorded(new, h)
<1>1. new.responded = row.responded
    BY ClocksRun
<1>2. new.resolved = row.resolved /\ new.closed = row.closed
    BY ClocksRun DEF Recorded, EndTold
<1>3. Walked(new, h)
    BY DEF Recorded, Walked
<1>4. AnswerTold(new, h) /\ EndTold(new, h)
    BY <1>1, <1>2 DEF Recorded, AnswerTold, EndTold
<1>5. Dated(new, h)
  <2>1. row.version \in 0..MaxVersion /\ row.version >= 1
    BY DEF VoiceRow, Recorded, Dated
  <2>2. new.version >= 1
    BY <2>1
  <2> QED
    BY <2>2 DEF Recorded, Dated
<1> QED
    BY <1>3, <1>4, <1>5 DEF Recorded

(* The history after a save.                                                *)
Continued(h, row, before, status) ==
    IF status = before.status THEN h
    ELSE Append(h, [type |-> "status", from |-> before.status, to |-> status, at |-> row.version + 1])

(* A save by a request that read the row as it is.                          *)
LEMMA SaveRecorded ==
    ASSUME NEW row \in VoiceRow, row.version < MaxVersion, NEW before \in VoiceRow,
           before.status = row.status, before.resolution = row.resolution,
           NEW gated, NEW status \in Status, NEW resolution \in BOOLEAN, NEW evidence \in BOOLEAN,
           Accepted(before, gated, status, resolution, evidence),
           NEW h \in Seq(Event), Recorded(row, h)
    PROVE  /\ Continued(h, row, before, status) \in Seq(Event)
           /\ Recorded(Saved(row, before, status, resolution, evidence), Continued(h, row, before, status))
<1> DEFINE new == Saved(row, before, status, resolution, evidence)
           e == [type |-> "status", from |-> before.status, to |-> status, at |-> row.version + 1]
<1>1. /\ new \in VoiceRow
      /\ new.status = status /\ new.version = row.version + 1
      /\ new.resolution = (row.resolution \/ resolution)
      /\ new.responded = IF row.responded = 0 /\ status # "RECEIVED" THEN row.version + 1 ELSE row.responded
      /\ new.resolved = IF ~Finished(status) THEN 0 ELSE IF row.resolved = 0 THEN row.version + 1 ELSE row.resolved
      /\ new.closed = IF status # "CLOSED" THEN 0 ELSE IF row.closed = 0 THEN row.version + 1 ELSE row.closed
    BY SavedIs
<1> HIDE DEF new
<1>2. row.status \in Status
    BY DEF VoiceRow
<1>3. CASE status = before.status
    BY <1>1, <1>3, EditRecorded DEF new, Continued
<1>4. CASE status # before.status
  <2>1. status \in AllowedTransitions[row.status]
    BY <1>4 DEF Accepted, CanTransition
  <2>2. status = "CLOSED" => row.status = "RESOLVED"
    BY <1>2, <2>1, TransitionsAre
  <2>3. Finished(row.status) => row.resolution
    BY DEF Recorded, Walked
  <2>4. status = "RESOLVED" => resolution \/ row.resolution
    BY DEF Accepted
  <2>5. Finished(new.status) => new.resolution
    BY <1>1, <2>2, <2>3, <2>4 DEF Finished
  <2>6. e = [type |-> "status", from |-> row.status, to |-> new.status, at |-> new.version]
    BY <1>1
  <2> HIDE DEF e
  <2>7. Append(h, e) \in Seq(Event) /\ Recorded(new, Append(h, e))
    BY <1>1, <2>1, <2>5, <2>6, MoveRecorded
  <2> QED
    BY <1>4, <2>7 DEF new, e, Continued
<1> QED
    BY <1>3, <1>4

(* A first contact.                                                         *)
LEMMA ContactRecorded ==
    ASSUME NEW row \in VoiceRow, NEW h \in Seq(Event), Recorded(row, h), row.responded = 0
    PROVE  LET e == [type |-> "contact", from |-> "", to |-> "", at |-> row.version]
               new == [row EXCEPT !.responded = row.version] IN
           /\ new \in VoiceRow /\ Append(h, e) \in Seq(Event) /\ Recorded(new, Append(h, e))
           /\ new.version = row.version /\ new.status = row.status /\ new.resolution = row.resolution
<1> DEFINE e == [type |-> "contact", from |-> "", to |-> "", at |-> row.version]
           new == [row EXCEPT !.responded = row.version]
           g == Append(h, e)
           n == Len(h) + 1
<1>1. /\ new \in VoiceRow /\ new.version = row.version /\ new.status = row.status
      /\ new.resolution = row.resolution /\ new.resolved = row.resolved /\ new.closed = row.closed
      /\ new.responded = row.version
    BY DEF VoiceRow, Clock
<1>2. e \in Event
    BY DEF Event, Clock, VoiceRow
<1>3. e.type = "contact" /\ e.from = "" /\ e.to = "" /\ e.at = row.version
    OBVIOUS
<1> HIDE DEF e, new
<1>4. /\ g \in Seq(Event) /\ n \in Nat \ {0} /\ DOMAIN h \subseteq Nat /\ DOMAIN g = DOMAIN h \cup {n}
      /\ g[n] = e /\ \A i \in DOMAIN h : i < n /\ g[i] = h[i] /\ h[i] \in Event
    BY <1>2, AppendedIs
<1>5. /\ Moves(g) = Moves(h)
      /\ Answers(g) = Answers(h) \cup {n}
      /\ \A s : Entries(g, s) = IF "" = s THEN Entries(h, s) \cup {n} ELSE Entries(h, s)
    BY <1>2, <1>3, PlacesAppended
<1>6. Entries(g, "RESOLVED") = Entries(h, "RESOLVED") /\ Entries(g, "CLOSED") = Entries(h, "CLOSED")
    BY <1>5
<1>7. Moves(h) \subseteq DOMAIN h
    BY PlacesAre
<1> HIDE DEF g, n
<1>8. Walked(new, g)
  <2>1. \A i \in Moves(h) : g[i] = h[i]
    BY <1>4, <1>7
  <2>2. PICK p \in Moves(h) : Newest(p, Moves(h)) /\ h[p].to = row.status
    BY DEF Recorded, Walked
  <2>3. Newest(p, Moves(g)) /\ g[p].to = new.status /\ p \in Moves(g)
    BY <2>1, <2>2, <1>1, <1>5
  <2>4. ASSUME NEW i \in Moves(g), NEW j \in Moves(g), i < j, \A m \in Moves(g) : m <= i \/ j <= m
        PROVE  g[j].from = g[i].to /\ g[j].to \in AllowedTransitions[g[j].from]
    <3>1. h[j].from = h[i].to /\ h[j].to \in AllowedTransitions[h[j].from]
      BY <2>4, <1>5 DEF Recorded, Walked
    <3> QED
      BY <3>1, <2>1, <1>5
  <2>5. Finished(new.status) => new.resolution
    BY <1>1 DEF Recorded, Walked
  <2> QED
    BY <2>3, <2>4, <2>5 DEF Walked
<1>9. AnswerTold(new, g)
  <2>1. Answers(h) = {}
    BY ClocksRun
  <2>2. Answers(g) = {n}
    BY <2>1, <1>5
  <2>3. n \in Nat
    BY <1>4
  <2>4. Oldest(n, Answers(g))
    BY <2>2, <2>3 DEF Oldest
  <2> QED
    BY <2>2, <2>4, <1>1, <1>3, <1>4 DEF AnswerTold
<1>10. EndTold(new, g)
  <2>1. \A i \in DOMAIN h : i \in DOMAIN g /\ g[i] = h[i]
    BY <1>4
  <2> QED
    BY <2>1, <1>1, <1>6 DEF Recorded, EndTold, Entered
<1>11. Dated(new, g)
  <2>1. g[n].at >= 1 /\ g[n].type # "status" /\ g[n].to = ""
    BY <1>3, <1>4 DEF Recorded, Dated
  <2> QED
    BY <2>1, <1>1, <1>4 DEF Recorded, Dated
<1> QED
    BY <1>1, <1>4, <1>8, <1>9, <1>10, <1>11 DEF Recorded, g, e, new

(* A judgement.                                                             *)
LEMMA JudgedRecorded ==
    ASSUME NEW row \in VoiceRow, NEW h, Recorded(row, h), NEW verdict \in Knowledge
    PROVE  LET new == [row EXCEPT !.knowledge = verdict] IN
           /\ new \in VoiceRow /\ Recorded(new, h)
           /\ new.version = row.version /\ new.status = row.status /\ new.resolution = row.resolution
<1> DEFINE new == [row EXCEPT !.knowledge = verdict]
<1>1. /\ new \in VoiceRow /\ new.version = row.version /\ new.status = row.status
      /\ new.resolution = row.resolution /\ new.resolved = row.resolved /\ new.closed = row.closed
      /\ new.responded = row.responded
    BY DEF VoiceRow
<1> HIDE DEF new
<1>2. Walked(new, h) /\ Dated(new, h)
    BY <1>1 DEF Recorded, Walked, Dated
<1>3. AnswerTold(new, h) /\ EndTold(new, h)
    BY <1>1 DEF Recorded, AnswerTold, EndTold
<1> QED
    BY <1>1, <1>2, <1>3 DEF Recorded, new

-----------------------------------------------------------------------------
(* Types                                                                    *)

LEMMA InitTyped == Init => TypeOK
<1> SUFFICES ASSUME Init PROVE TypeOK
    OBVIOUS
<1>1. Unfiled \in VoiceRow
  <2>1. 0 \in 0..MaxVersion
    BY WorkspacesAssumption
  <2>2. Received \in VoiceRow
    BY StartRecorded
  <2> QED
    BY <2>1, <2>2 DEF Unfiled, VoiceRow
<1>2. voice \in [Voice -> VoiceRow] /\ events \in [Voice -> Seq(Event)]
    BY <1>1 DEF Init
<1>3. begun \in 0..MaxRequests
    BY WorkspacesAssumption DEF Init, WorkspacesInit
<1>4. client \in [Client -> Request]
    BY IdleIsRequest DEF Init, WorkspacesInit
<1>5. /\ workspace \in [Workspace -> AtMostOne(Setting)]
      /\ category \in [Category -> AtMostOne(CategoryRow)]
      /\ member \in [Member -> AtMostOne(MemberRow)]
      /\ filing \in [Voice -> AtMostOne(FilingRow)]
    BY One DEF Init, WorkspacesInit
<1> QED
    BY <1>2, <1>3, <1>4, <1>5 DEF TypeOK

LEMMA CountTyped == ASSUME TypeOK, Count PROVE begun' \in 0..MaxRequests
BY WorkspacesAssumption DEF TypeOK, Count

LEMMA SettingsTyped ==
    /\ \A s \in Settings : s \in Setting /\ [s EXCEPT !.active = TRUE] \in Setting /\ s.org \in Org
BY WorkspacesAssumption DEF Setting

LEMMA CreateWorkspaceTyped ==
    ASSUME TypeOK, NEW w \in Workspace, CreateWorkspace(w), UNCHANGED <<voice, events>>
    PROVE  TypeOK'
<1>1. PICK s \in Settings : workspace' = [workspace EXCEPT ![w] = {[s EXCEPT !.active = TRUE]}]
    BY DEF CreateWorkspace
<1>2. {[s EXCEPT !.active = TRUE]} \in AtMostOne(Setting)
    BY SettingsTyped, One
<1>3. workspace' \in [Workspace -> AtMostOne(Setting)]
    BY <1>1, <1>2 DEF TypeOK
<1> QED
    BY <1>3, CountTyped DEF TypeOK, CreateWorkspace

LEMMA ApplyPresetTyped ==
    ASSUME TypeOK, NEW w \in Workspace, ApplyPreset(w), UNCHANGED <<voice, events>>
    PROVE  TypeOK'
<1>1. PICK s \in Settings :
        workspace' = [workspace EXCEPT ![w] = IF Given(@) THEN @ ELSE {[s EXCEPT !.active = TRUE]}]
    BY DEF ApplyPreset
<1>2. {[s EXCEPT !.active = TRUE]} \in AtMostOne(Setting)
    BY SettingsTyped, One
<1>3. workspace' \in [Workspace -> AtMostOne(Setting)]
    BY <1>1, <1>2 DEF TypeOK
<1>4. [workspace |-> w, active |-> TRUE] \in CategoryRow
    BY DEF CategoryRow
<1>5. {[workspace |-> w, active |-> TRUE]} \in AtMostOne(CategoryRow)
    BY <1>4, One
<1>6. category' \in [Category -> AtMostOne(CategoryRow)]
    BY <1>5 DEF TypeOK, ApplyPreset
<1> QED
    BY <1>3, <1>6, CountTyped DEF TypeOK, ApplyPreset

LEMMA UpdateWorkspaceTyped ==
    ASSUME TypeOK, NEW w \in Workspace, UpdateWorkspace(w), UNCHANGED <<voice, events>>
    PROVE  TypeOK'
<1>1. PICK s \in Settings :
         /\ workspace' = [workspace EXCEPT ![w] = {s}]
         /\ filing' = [v \in Voice |-> IF s.isolated /\ v \in FiledIn(w)
                                       THEN {[Row(filing[v]) EXCEPT !.org = s.org]} ELSE filing[v]]
         /\ member' = [c \in Member |-> IF s.isolated /\ c \in Members(w)
                          THEN {[Row(member[c]) EXCEPT !.org = s.org]} ELSE member[c]]
    BY DEF UpdateWorkspace
<1>2. s \in Setting /\ s.org \in Org /\ {s} \in AtMostOne(Setting)
    BY SettingsTyped, One
<1>3. workspace' \in [Workspace -> AtMostOne(Setting)]
    BY <1>1, <1>2 DEF TypeOK
<1>4. ASSUME NEW v \in Voice, Given(filing[v])
      PROVE  {[Row(filing[v]) EXCEPT !.org = s.org]} \in AtMostOne(FilingRow)
  <2>1. Row(filing[v]) \in FilingRow
    BY <1>4, RowOf DEF TypeOK
  <2>2. [Row(filing[v]) EXCEPT !.org = s.org] \in FilingRow
    BY <2>1, <1>2 DEF FilingRow
  <2> QED
    BY <2>2, One
<1>5. ASSUME NEW c \in Member, Given(member[c])
      PROVE  {[Row(member[c]) EXCEPT !.org = s.org]} \in AtMostOne(MemberRow)
  <2>1. Row(member[c]) \in MemberRow
    BY <1>5, RowOf DEF TypeOK
  <2>2. [Row(member[c]) EXCEPT !.org = s.org] \in MemberRow
    BY <2>1, <1>2 DEF MemberRow
  <2> QED
    BY <2>2, One
<1>6. filing' \in [Voice -> AtMostOne(FilingRow)]
    BY <1>1, <1>4 DEF TypeOK, FiledIn
<1>7. member' \in [Member -> AtMostOne(MemberRow)]
    BY <1>1, <1>5 DEF TypeOK, Members
<1> QED
    BY <1>3, <1>6, <1>7, CountTyped DEF TypeOK, UpdateWorkspace

LEMMA CreateCategoryTyped ==
    ASSUME TypeOK, NEW t \in Category, NEW w \in Workspace \cup {NoWorkspace}, CreateCategory(t, w),
           UNCHANGED <<voice, events>>
    PROVE  TypeOK'
<1>1. [workspace |-> w, active |-> TRUE] \in CategoryRow
    BY DEF CategoryRow
<1>2. {[workspace |-> w, active |-> TRUE]} \in AtMostOne(CategoryRow)
    BY <1>1, One
<1>3. category' \in [Category -> AtMostOne(CategoryRow)]
    BY <1>2 DEF TypeOK, CreateCategory
<1> QED
    BY <1>3, CountTyped DEF TypeOK, CreateCategory

LEMMA CreateCustomerTyped ==
    ASSUME TypeOK, NEW c \in Member, NEW org \in Org, NEW code \in Code, CreateCustomer(c, org, code),
           UNCHANGED <<voice, events>>
    PROVE  TypeOK'
<1> DEFINE new == [home |-> NoWorkspace, org |-> org, code |-> code, scope |-> Global]
<1>1. new \in MemberRow
    BY DEF MemberRow
<1>2. member' = [member EXCEPT ![c] = {new}]
    BY DEF CreateCustomer
<1> HIDE DEF new
<1>3. {new} \in AtMostOne(MemberRow)
    BY <1>1, One
<1>4. member' \in [Member -> AtMostOne(MemberRow)]
    BY <1>2, <1>3 DEF TypeOK
<1> QED
    BY <1>4, CountTyped DEF TypeOK, CreateCustomer, desk

(* A step that only sets a slot.                                            *)
LEMMA SlotOnlyTyped ==
    ASSUME TypeOK, NEW k \in Client, NEW q \in Request, client' = [client EXCEPT ![k] = q],
           begun' \in 0..MaxRequests, UNCHANGED <<desk, member, filing, voice, events>>
    PROVE  TypeOK'
BY SlotTyped DEF TypeOK, desk

(* The steps on types that a slot takes.                                    *)
LEMMA CategoryStepTyped ==
    ASSUME TypeOK, NEW k \in Client, UNCHANGED <<voice, events>>,
           UpdateCategory(k) \/ RetireCategory(k) \/ DeleteCategory(k)
    PROVE  TypeOK'
<1> DEFINE t == client[k].category
<1>1. client[k] \in Request /\ client' = [client EXCEPT ![k] = Idle] /\ begun' = begun
    BY DEF TypeOK, UpdateCategory, RetireCategory, DeleteCategory, Done, Await
<1>2. t \in Category
    BY <1>1, KindIs DEF UpdateCategory, RetireCategory, DeleteCategory, At, CategoryChange, CategoryEnd
<1>3. \E rows \in AtMostOne(CategoryRow) : category' = [category EXCEPT ![t] = rows]
  <2>1. CASE UpdateCategory(k)
    <3>1. PICK active \in BOOLEAN : category' = [category EXCEPT ![t] =
             IF Given(@) THEN {[workspace |-> client[k].workspace, active |-> active]} ELSE @]
      BY <2>1 DEF UpdateCategory
    <3>2. client[k].workspace \in Workspace \cup {NoWorkspace}
      BY <1>1, <2>1, KindIs DEF UpdateCategory, At, CategoryChange
    <3>3. [workspace |-> client[k].workspace, active |-> active] \in CategoryRow
      BY <3>2 DEF CategoryRow
    <3>4. {[workspace |-> client[k].workspace, active |-> active]} \in AtMostOne(CategoryRow)
      BY <3>3, One
    <3> QED
      BY <1>2, <3>1, <3>4 DEF TypeOK
  <2>2. CASE RetireCategory(k)
    <3>1. category[t] \in AtMostOne(CategoryRow)
      BY <1>2 DEF TypeOK
    <3>2. ASSUME Given(category[t])
          PROVE  {[Row(category[t]) EXCEPT !.active = FALSE]} \in AtMostOne(CategoryRow)
      <4>1. Row(category[t]) \in CategoryRow
        BY <3>1, <3>2, RowOf
      <4>2. [Row(category[t]) EXCEPT !.active = FALSE] \in CategoryRow
        BY <4>1 DEF CategoryRow
      <4> QED
        BY <4>2, One
    <3>3. category' = [category EXCEPT ![t] = IF Given(@) THEN {[Row(@) EXCEPT !.active = FALSE]} ELSE @]
      BY <2>2 DEF RetireCategory
    <3> QED
      BY <1>2, <3>1, <3>2, <3>3 DEF TypeOK
  <2>3. CASE DeleteCategory(k)
    <3>1. category[t] \in AtMostOne(CategoryRow) /\ {} \in AtMostOne(CategoryRow)
      BY <1>2, One DEF TypeOK
    <3>2. category' = [category EXCEPT ![t] = IF Used(t) THEN @ ELSE {}]
      BY <2>3 DEF DeleteCategory
    <3> QED
      BY <1>2, <3>1, <3>2 DEF TypeOK
  <2> QED
    BY <2>1, <2>2, <2>3
<1>4. category' \in [Category -> AtMostOne(CategoryRow)]
    BY <1>2, <1>3 DEF TypeOK
<1>5. client' \in [Client -> Request]
    BY <1>1, IdleIsRequest, SlotTyped
<1> QED
    BY <1>1, <1>4, <1>5 DEF TypeOK, UpdateCategory, RetireCategory, DeleteCategory

LEMMA ReadCategoryTyped ==
    ASSUME TypeOK, NEW k \in Client, NEW t \in Category, NEW w \in Workspace \cup {NoWorkspace},
           ReadCategory(k, t, w), UNCHANGED <<voice, events>>
    PROVE  TypeOK'
<1>1. [op |-> "category", category |-> t, workspace |-> w] \in CategoryChange
    BY DEF CategoryChange
<1>2. [op |-> "category", category |-> t, workspace |-> w] \in Request
    BY <1>1, RequestsAre
<1> QED
    BY <1>2, SlotOnlyTyped, CountTyped DEF ReadCategory, Begin

LEMMA ReadUnusedTyped ==
    ASSUME TypeOK, NEW k \in Client, NEW t \in Category, ReadUnused(k, t), UNCHANGED <<voice, events>>
    PROVE  TypeOK'
<1> DEFINE q == [op |-> IF Used(t) THEN "retire" ELSE "delete category", category |-> t]
<1>1. q \in CategoryEnd
    BY DEF CategoryEnd
<1>2. client' = [client EXCEPT ![k] = q]
    BY DEF ReadUnused, Begin
<1> HIDE DEF q
<1>3. q \in Request
    BY <1>1, RequestsAre
<1> QED
    BY <1>2, <1>3, SlotOnlyTyped, CountTyped DEF ReadUnused, Begin

(* Registration.                                                            *)
LEMMA RegisterTyped ==
    ASSUME TypeOK, NEW k \in Client, Register(k), UNCHANGED <<voice, events>>
    PROVE  TypeOK'
<1>1. ASSUME NEW w \in Workspace, ReadRoster(k, w)
      PROVE  TypeOK'
  <2>1. PICK rows \in SUBSET Code \ {{}} :
          Begin(k, [op |-> "check", workspace |-> w, setting |-> Row(workspace[w]), rows |-> rows])
    BY <1>1 DEF ReadRoster
  <2>2. Row(workspace[w]) \in Setting
    BY <1>1, RowOf DEF ReadRoster, Usable, TypeOK
  <2>3. [op |-> "check", workspace |-> w, setting |-> Row(workspace[w]), rows |-> rows] \in RowCheck
    BY <2>2 DEF RowCheck
  <2>4. [op |-> "check", workspace |-> w, setting |-> Row(workspace[w]), rows |-> rows] \in Request
    BY <2>3, RequestsAre
  <2> QED
    BY <1>1, <2>1, <2>4, SlotOnlyTyped, CountTyped DEF ReadRoster, Begin
<1>2. ASSUME NEW code \in Code, CheckRow(k, code)
      PROVE  TypeOK'
  <2> DEFINE q == client[k]
  <2>1. q \in RowCheck
    BY <1>2, KindIs DEF CheckRow, At, TypeOK
  <2>2. \E r \in Request : client' = [client EXCEPT ![k] = r]
    <3>1. CASE code \in CodesIn(q.workspace) /\ q.rows \ {code} = {}
      BY <1>2, <3>1, IdleIsRequest DEF CheckRow, NextRow, Done, Await
    <3>2. CASE code \in CodesIn(q.workspace) /\ q.rows \ {code} # {}
      <4>1. [q EXCEPT !.op = "check", !.rows = q.rows \ {code}] \in RowCheck
        BY <2>1 DEF RowCheck
      <4>2. client' = [client EXCEPT ![k] = [q EXCEPT !.op = "check", !.rows = q.rows \ {code}]]
        BY <1>2, <3>2 DEF CheckRow, NextRow, Await
      <4> QED
        BY <4>1, <4>2, RequestsAre
    <3>3. CASE code \notin CodesIn(q.workspace)
      <4> DEFINE r == [op |-> "register", workspace |-> q.workspace, setting |-> q.setting,
                       rows |-> q.rows, code |-> code]
      <4>1. r \in RowRegister
        BY <2>1 DEF RowCheck, RowRegister
      <4>2. client' = [client EXCEPT ![k] = r]
        BY <1>2, <3>3 DEF CheckRow, Await
      <4> HIDE DEF r
      <4> QED
        BY <4>1, <4>2, RequestsAre
    <3> QED
      BY <3>1, <3>2, <3>3
  <2>3. begun' = begun
    BY <1>2 DEF CheckRow, NextRow, Done, Await
  <2> QED
    BY <1>2, <2>2, <2>3, SlotOnlyTyped DEF CheckRow, TypeOK
<1>3. ASSUME NEW c \in Member, RegisterRow(k, c)
      PROVE  TypeOK'
  <2> DEFINE q == client[k]
             scope == MemberCodeScope(q.workspace, q.setting)
             new == [home |-> q.workspace, org |-> q.setting.org, code |-> q.code, scope |-> scope]
             r == [op |-> "check", workspace |-> q.workspace, setting |-> q.setting, rows |-> q.rows \ {q.code}]
  <2>1. q \in RowRegister
    BY <1>3, KindIs DEF RegisterRow, At, TypeOK
  <2>2. /\ q.workspace \in Workspace /\ q.setting \in Setting /\ q.code \in Code /\ q.rows \in SUBSET Code
    BY <2>1 DEF RowRegister
  <2>3. new \in MemberRow
    BY <2>2 DEF MemberRow, MemberCodeScope, Setting
  <2>4. r \in RowCheck
    BY <2>2 DEF RowCheck
  <2>5. member' = member \/ member' = [member EXCEPT ![c] = {new}]
    BY <1>3 DEF RegisterRow
  <2>6. begun' = begun /\ (client' = [client EXCEPT ![k] = Idle] \/ client' = [client EXCEPT ![k] = r])
    BY <1>3 DEF RegisterRow, Done, Await
  <2> HIDE DEF new, r, q
  <2>7. {new} \in AtMostOne(MemberRow)
    BY <2>3, One
  <2>8. member' \in [Member -> AtMostOne(MemberRow)]
    BY <2>5, <2>7 DEF TypeOK
  <2>9. client' \in [Client -> Request]
    BY <2>4, <2>6, RequestsAre, SlotTyped
  <2> QED
    BY <1>3, <2>6, <2>8, <2>9 DEF RegisterRow, TypeOK, desk
<1> QED
    BY <1>1, <1>2, <1>3 DEF Register

(* Filing.                                                                  *)
LEMMA IntakeTyped ==
    ASSUME TypeOK, NEW k \in Client, NEW t \in Category, NEW c \in Member, Intake(k, t, c),
           UNCHANGED <<voice, events>>
    PROVE  TypeOK'
<1> DEFINE w == Row(category[t]).workspace
           q == [op |-> "intake", category |-> t, customer |-> c, workspace |-> w,
                 setting |-> IF w = NoWorkspace THEN {} ELSE workspace[w]]
<1>1. Row(category[t]) \in CategoryRow
    BY RowOf DEF Intake, TypeOK
<1>2. w \in Workspace \cup {NoWorkspace}
    BY <1>1 DEF CategoryRow
<1>3. Begin(k, q)
    BY DEF Intake
<1> HIDE DEF w
<1>4. (IF w = NoWorkspace THEN {} ELSE workspace[w]) \in AtMostOne(Setting)
    BY <1>2, One DEF TypeOK
<1>5. q \in Filer
    BY <1>2, <1>4 DEF Filer
<1> HIDE DEF q
<1>6. q \in Request
    BY <1>5, RequestsAre
<1> QED
    BY <1>3, <1>6, SlotOnlyTyped, CountTyped DEF Intake, Begin

(* The request that ReadMember leaves.                                      *)
ToFile(q) ==
    [op |-> "file", row |->
        [customer |-> q.customer, category |-> q.category, workspace |-> q.workspace,
         org |-> IF Given(q.setting) /\ Row(q.setting).isolated
                 THEN Row(q.setting).org ELSE Row(member[q.customer]).org]]

LEMMA ReadMemberDoes ==
    ASSUME TypeOK, NEW k \in Client, ReadMember(k)
    PROVE  /\ client[k] \in Filer /\ begun' = begun /\ UNCHANGED <<desk, member, filing>>
           /\ \/ client' = [client EXCEPT ![k] = Idle]
              \/ /\ client' = [client EXCEPT ![k] = ToFile(client[k])] /\ ToFile(client[k]) \in Request
                 /\ Given(member[client[k].customer])
                 /\ AtHome(Row(member[client[k].customer]), client[k].workspace)
<1> DEFINE q == client[k]
<1>1. q \in Filer
    BY KindIs DEF ReadMember, At, TypeOK
<1>2. q.customer \in Member /\ q.category \in Category /\ q.workspace \in Workspace \cup {NoWorkspace}
      /\ q.setting \in AtMostOne(Setting)
    BY <1>1 DEF Filer
<1>3. CASE ~Given(member[q.customer]) \/ ~AtHome(Row(member[q.customer]), q.workspace)
    BY <1>1, <1>3 DEF ReadMember, Done, Await
<1>4. CASE Given(member[q.customer]) /\ AtHome(Row(member[q.customer]), q.workspace)
  <2>1. client' = [client EXCEPT ![k] = ToFile(q)] /\ begun' = begun
    BY <1>4 DEF ReadMember, Await, ToFile
  <2>2. Row(member[q.customer]) \in MemberRow
    BY <1>2, <1>4, RowOf DEF TypeOK
  <2>3. Given(q.setting) => Row(q.setting) \in Setting
    BY <1>2, RowOf
  <2> DEFINE org == IF Given(q.setting) /\ Row(q.setting).isolated
                    THEN Row(q.setting).org ELSE Row(member[q.customer]).org
  <2>4. org \in Org
    BY <2>2, <2>3 DEF Setting, MemberRow
  <2> HIDE DEF org
  <2>5. [customer |-> q.customer, category |-> q.category, workspace |-> q.workspace, org |-> org] \in FilingRow
    BY <1>2, <2>4 DEF FilingRow
  <2>6. ToFile(q) \in Filed
    BY <2>5 DEF ToFile, Filed, org
  <2>7. ToFile(q) \in Request
    BY <2>6, RequestsAre
  <2> QED
    BY <1>1, <1>4, <2>1, <2>7 DEF ReadMember
<1> QED
    BY <1>3, <1>4

LEMMA ReadMemberTyped ==
    ASSUME TypeOK, NEW k \in Client, ReadMember(k), UNCHANGED <<voice, events>>
    PROVE  TypeOK'
<1>1. begun' = begun /\ UNCHANGED <<desk, member, filing>> /\ \E q \in Request : client' = [client EXCEPT ![k] = q]
    BY ReadMemberDoes, IdleIsRequest
<1> QED
    BY <1>1, SlotOnlyTyped DEF TypeOK

LEMMA FileRefusedTyped ==
    ASSUME TypeOK, NEW k \in Client, FileRefused(k), UNCHANGED <<voice, events>>
    PROVE  TypeOK'
BY SlotOnlyTyped, IdleIsRequest DEF FileRefused, Done, Await, TypeOK

LEMMA CreateTyped ==
    ASSUME TypeOK, NEW k \in Client, NEW v \in Voice, Create(k, v)
    PROVE  /\ TypeOK' /\ client[k] \in Filed
           /\ client' = [client EXCEPT ![k] = Idle] /\ filing' = [filing EXCEPT ![v] = {client[k].row}]
<1>1. client[k] \in Filed
    BY KindIs DEF Create, File, At, TypeOK
<1>2. client[k].row \in FilingRow
    BY <1>1 DEF Filed
<1>3. {client[k].row} \in AtMostOne(FilingRow)
    BY <1>2, One
<1>4. filing' = [filing EXCEPT ![v] = {client[k].row}] /\ client' = [client EXCEPT ![k] = Idle] /\ begun' = begun
    BY DEF Create, File, Done, Await
<1>5. filing' \in [Voice -> AtMostOne(FilingRow)]
    BY <1>3, <1>4 DEF TypeOK
<1>6. client' \in [Client -> Request]
    BY <1>4, IdleIsRequest, SlotTyped
<1>7. voice' \in [Voice -> VoiceRow] /\ events' \in [Voice -> Seq(Event)]
    BY StartRecorded DEF TypeOK, Create
<1> QED
    BY <1>1, <1>4, <1>5, <1>6, <1>7 DEF TypeOK, Create, File, desk

-----------------------------------------------------------------------------
(* The inductive invariant                                                  *)

EditOps == {"update", "resolve", "start"}

(* What a request read is the row, or an earlier version of it.             *)
ReadingHolds(k) ==
    LET q == client[k] IN
    /\ Given(filing[q.voice])
    /\ q.before.version <= voice[q.voice].version
    /\ q.before.version = voice[q.voice].version
         => q.before.status = voice[q.voice].status /\ q.before.resolution = voice[q.voice].resolution

Readings == \A k \in Client : client[k].op \in EditOps => ReadingHolds(k)

Histories == \A v \in Voice : Given(filing[v]) => Recorded(voice[v], events[v])

LivesAt(c, w) == Given(member[c]) /\ \A m \in member[c] : m.home = w

FiledRows == \A v \in Voice : \A row \in filing[v] : LivesAt(row.customer, row.workspace)
ToBeFiled(k) == LivesAt(client[k].row.customer, client[k].row.workspace)
FiledSlots == \A k \in Client : client[k].op = "file" => ToBeFiled(k)

Inv == TypeOK /\ Readings /\ Histories /\ FiledRows /\ FiledSlots

LEMMA InitInv == Init => Inv
<1> SUFFICES ASSUME Init PROVE Inv
    OBVIOUS
<1>1. \A v \in Voice : filing[v] = {}
    BY DEF Init, WorkspacesInit
<1>2. \A k \in Client : client[k].op = "idle"
    BY DEF Init, WorkspacesInit, Idle
<1>3. Readings /\ FiledSlots
    BY <1>2 DEF Readings, FiledSlots, EditOps
<1>4. Histories /\ FiledRows
    BY <1>1 DEF Histories, FiledRows, Given
<1> QED
    BY <1>3, <1>4, InitTyped DEF Inv

(* What every step does, apart from what it writes itself.                  *)
RowsAdvance ==
    \A v \in Voice : Given(filing[v]) =>
        /\ Given(filing'[v])
        /\ \/ voice'[v].version > voice[v].version
           \/ /\ voice'[v].version = voice[v].version
              /\ voice'[v].status = voice[v].status /\ voice'[v].resolution = voice[v].resolution

RowsKept ==
    \A v \in Voice : Given(filing'[v]) =>
        \/ Given(filing[v]) /\ voice'[v] = voice[v] /\ events'[v] = events[v]
        \/ Recorded(voice'[v], events'[v])

MembersStay == \A c \in Member : \A w : LivesAt(c, w) => LivesAt(c, w)'

FilingsKept ==
    \A v \in Voice : \A row \in filing'[v] :
        \/ \E old \in filing[v] : row.customer = old.customer /\ row.workspace = old.workspace
        \/ LivesAt(row.customer, row.workspace)

SlotsKept ==
    \A k \in Client :
        \/ client'[k] = client[k]
        \/ /\ client'[k].op \in EditOps => ReadingHolds(k)'
           /\ client'[k].op = "file" => LivesAt(client'[k].row.customer, client'[k].row.workspace)

LEMMA ReadingsKept ==
    ASSUME Inv, TypeOK', RowsAdvance, SlotsKept
    PROVE  Readings'
<1> SUFFICES ASSUME NEW k \in Client, client'[k].op \in EditOps, client'[k] = client[k]
             PROVE  ReadingHolds(k)'
    BY DEF Readings, SlotsKept
<1> DEFINE q == client[k]
           v == q.voice
<1>1. ReadingHolds(k)
    BY DEF Inv, Readings
<1>2. q \in Edit
    BY KindIs DEF Inv, TypeOK, EditOps
<1>3. v \in Voice /\ q.before.version \in 0..MaxVersion
    BY <1>2 DEF Edit, VoiceRow
<1>4. voice[v].version \in 0..MaxVersion /\ voice'[v].version \in 0..MaxVersion
    BY <1>3 DEF Inv, TypeOK, VoiceRow
<1>5. MaxVersion \in Nat
    BY WorkspacesAssumption
<1>6. Given(filing[v]) /\ q.before.version <= voice[v].version
    BY <1>1 DEF ReadingHolds
<1>7. Given(filing'[v])
    BY <1>3, <1>6 DEF RowsAdvance
<1>8. CASE voice'[v].version > voice[v].version
  <2>1. q.before.version < voice'[v].version
    BY <1>3, <1>4, <1>5, <1>6, <1>8
  <2> QED
    BY <1>3, <1>4, <1>7, <2>1 DEF ReadingHolds
<1>9. CASE /\ voice'[v].version = voice[v].version
           /\ voice'[v].status = voice[v].status /\ voice'[v].resolution = voice[v].resolution
    BY <1>1, <1>7, <1>9 DEF ReadingHolds
<1> QED
    BY <1>3, <1>6, <1>8, <1>9 DEF RowsAdvance

LEMMA HistoriesKept ==
    ASSUME Inv, RowsKept
    PROVE  Histories'
BY DEF Inv, Histories, RowsKept

LEMMA FiledRowsKept ==
    ASSUME Inv, TypeOK', MembersStay, FilingsKept
    PROVE  FiledRows'
<1> SUFFICES ASSUME NEW v \in Voice, NEW row \in filing'[v]
             PROVE  LivesAt(row.customer, row.workspace)'
    BY DEF FiledRows
<1>1. row \in FilingRow
    BY DEF TypeOK, AtMostOne
<1>2. row.customer \in Member
    BY <1>1 DEF FilingRow
<1>3. LivesAt(row.customer, row.workspace)
    BY DEF FilingsKept, Inv, FiledRows
<1> QED
    BY <1>2, <1>3 DEF MembersStay

LEMMA FiledSlotsKept ==
    ASSUME Inv, TypeOK', MembersStay, SlotsKept
    PROVE  FiledSlots'
<1> SUFFICES ASSUME NEW k \in Client, client'[k].op = "file"
             PROVE  ToBeFiled(k)'
    BY DEF FiledSlots
<1>1. client'[k] \in Filed
    BY KindIs DEF TypeOK
<1>2. client'[k].row.customer \in Member
    BY <1>1 DEF Filed, FilingRow
<1> DEFINE c == client'[k].row.customer
           w == client'[k].row.workspace
<1>3. LivesAt(c, w)
    BY DEF SlotsKept, Inv, FiledSlots, ToBeFiled
<1>4. \A x \in Member : \A y : LivesAt(x, y) => Given(member'[x]) /\ \A m \in member'[x] : m.home = y
    BY DEF MembersStay, LivesAt
<1>5. Given(member'[c]) /\ \A m \in member'[c] : m.home = w
    BY <1>2, <1>3, <1>4
<1> QED
    BY <1>5 DEF ToBeFiled, LivesAt

LEMMA InvKept ==
    ASSUME Inv, TypeOK', RowsAdvance, RowsKept, MembersStay, FilingsKept, SlotsKept
    PROVE  Inv'
BY ReadingsKept, HistoriesKept, FiledRowsKept, FiledSlotsKept DEF Inv

-----------------------------------------------------------------------------
(* Effects that steps share                                                 *)

LEMMA RowsUnchanged ==
    ASSUME UNCHANGED <<voice, events>>, \A v \in Voice : Given(filing'[v]) <=> Given(filing[v])
    PROVE  RowsAdvance /\ RowsKept
BY DEF RowsAdvance, RowsKept

LEMMA MembersUnchanged == ASSUME UNCHANGED member PROVE MembersStay
BY DEF MembersStay, LivesAt

LEMMA FilingsUnchanged == ASSUME UNCHANGED filing PROVE FilingsKept
BY DEF FilingsKept

LEMMA SlotsUnchanged == ASSUME UNCHANGED client PROVE SlotsKept
BY DEF SlotsKept

(* A slot that ends up with neither a reading nor a request to file.        *)
LEMMA SlotQuiet ==
    ASSUME TypeOK, NEW k \in Client, NEW q, client' = [client EXCEPT ![k] = q],
           q.op \notin EditOps, q.op # "file"
    PROVE  SlotsKept
BY DEF SlotsKept, TypeOK

LEMMA IdleQuiet == Idle.op \notin EditOps /\ Idle.op # "file"
BY DEF Idle, EditOps

LEMMA SlotDone ==
    ASSUME TypeOK, NEW k \in Client, client' = [client EXCEPT ![k] = Idle]
    PROVE  SlotsKept
BY SlotQuiet, IdleQuiet

(* A step that touches no row, filing or customer.                          *)
LEMMA DeskStep ==
    ASSUME Inv, TypeOK', UNCHANGED <<member, filing, voice, events>>, SlotsKept
    PROVE  Inv'
BY RowsUnchanged, MembersUnchanged, FilingsUnchanged, InvKept

-----------------------------------------------------------------------------
(* Administrators                                                           *)

LEMMA CreateWorkspaceKeeps ==
    ASSUME Inv, NEW w \in Workspace, CreateWorkspace(w), UNCHANGED <<voice, events>>
    PROVE  Inv'
BY CreateWorkspaceTyped, DeskStep, SlotsUnchanged DEF Inv, CreateWorkspace

LEMMA ApplyPresetKeeps ==
    ASSUME Inv, NEW w \in Workspace, ApplyPreset(w), UNCHANGED <<voice, events>>
    PROVE  Inv'
BY ApplyPresetTyped, DeskStep, SlotsUnchanged DEF Inv, ApplyPreset

LEMMA CreateCategoryKeeps ==
    ASSUME Inv, NEW t \in Category, NEW w \in Workspace \cup {NoWorkspace}, CreateCategory(t, w),
           UNCHANGED <<voice, events>>
    PROVE  Inv'
BY CreateCategoryTyped, DeskStep, SlotsUnchanged DEF Inv, CreateCategory

LEMMA CreateCustomerKeeps ==
    ASSUME Inv, NEW c \in Member, NEW org \in Org, NEW code \in Code, CreateCustomer(c, org, code),
           UNCHANGED <<voice, events>>
    PROVE  Inv'
<1>1. TypeOK'
    BY CreateCustomerTyped DEF Inv
<1>2. MembersStay
  <2>1. ~Given(member[c]) /\ \A d \in Member : d # c => member'[d] = member[d]
    BY DEF CreateCustomer, Inv, TypeOK
  <2> QED
    BY <2>1 DEF MembersStay, LivesAt
<1> QED
    BY <1>1, <1>2, RowsUnchanged, FilingsUnchanged, SlotsUnchanged, InvKept DEF CreateCustomer

LEMMA UpdateWorkspaceKeeps ==
    ASSUME Inv, NEW w \in Workspace, UpdateWorkspace(w), UNCHANGED <<voice, events>>
    PROVE  Inv'
<1>1. TypeOK'
    BY UpdateWorkspaceTyped DEF Inv
<1>2. PICK s \in Settings :
         /\ filing' = [v \in Voice |-> IF s.isolated /\ v \in FiledIn(w)
                                       THEN {[Row(filing[v]) EXCEPT !.org = s.org]} ELSE filing[v]]
         /\ member' = [c \in Member |-> IF s.isolated /\ c \in Members(w)
                          THEN {[Row(member[c]) EXCEPT !.org = s.org]} ELSE member[c]]
    BY DEF UpdateWorkspace
<1>3. ASSUME NEW c \in Member, NEW x, LivesAt(c, x)
      PROVE  LivesAt(c, x)'
  <2>1. Given(member[c]) /\ Row(member[c]) \in MemberRow /\ Row(member[c]) \in member[c]
    BY <1>3, RowOf, RowIn DEF LivesAt, Inv, TypeOK, Given
  <2>2. Row(member[c]).home = x
    BY <1>3, <2>1 DEF LivesAt
  <2>3. [Row(member[c]) EXCEPT !.org = s.org].home = x
    BY <2>1, <2>2 DEF MemberRow
  <2>4. member'[c] = {[Row(member[c]) EXCEPT !.org = s.org]} \/ member'[c] = member[c]
    BY <1>2
  <2> QED
    BY <1>3, <2>3, <2>4 DEF LivesAt, Given
<1>4. ASSUME NEW v \in Voice
      PROVE  /\ Given(filing'[v]) <=> Given(filing[v])
             /\ \A row \in filing'[v] :
                  \E old \in filing[v] : row.customer = old.customer /\ row.workspace = old.workspace
  <2>1. CASE s.isolated /\ v \in FiledIn(w)
    <3>1. Given(filing[v]) /\ Row(filing[v]) \in FilingRow /\ Row(filing[v]) \in filing[v]
      BY <2>1, RowOf, RowIn DEF FiledIn, Inv, TypeOK, Given
    <3> DEFINE new == [Row(filing[v]) EXCEPT !.org = s.org]
    <3>2. new.customer = Row(filing[v]).customer /\ new.workspace = Row(filing[v]).workspace
      BY <3>1 DEF FilingRow
    <3>3. filing'[v] = {new}
      BY <1>2, <2>1
    <3> HIDE DEF new
    <3> QED
      BY <3>1, <3>2, <3>3 DEF Given
  <2>2. CASE ~(s.isolated /\ v \in FiledIn(w))
    <3>1. filing'[v] = filing[v]
      BY <1>2, <2>2
    <3> QED
      BY <3>1
  <2> QED
    BY <2>1, <2>2
<1>5. MembersStay
    BY <1>3 DEF MembersStay
<1>6. FilingsKept /\ RowsAdvance /\ RowsKept
    BY <1>4, RowsUnchanged DEF FilingsKept
<1>7. SlotsKept
    BY SlotsUnchanged DEF UpdateWorkspace
<1> QED
    BY <1>1, <1>5, <1>6, <1>7, InvKept

LEMMA CategoryStepKeeps ==
    ASSUME Inv, NEW k \in Client, UNCHANGED <<voice, events>>,
           UpdateCategory(k) \/ RetireCategory(k) \/ DeleteCategory(k)
    PROVE  Inv'
<1>1. TypeOK'
    BY CategoryStepTyped DEF Inv
<1>2. client' = [client EXCEPT ![k] = Idle] /\ UNCHANGED <<member, filing>>
    BY DEF UpdateCategory, RetireCategory, DeleteCategory, Done, Await
<1> QED
    BY <1>1, <1>2, DeskStep, SlotDone DEF Inv

LEMMA ReadCategoryKeeps ==
    ASSUME Inv, NEW k \in Client, NEW t \in Category, NEW w \in Workspace \cup {NoWorkspace},
           ReadCategory(k, t, w), UNCHANGED <<voice, events>>
    PROVE  Inv'
<1> DEFINE q == [op |-> "category", category |-> t, workspace |-> w]
<1>1. TypeOK'
    BY ReadCategoryTyped DEF Inv
<1>2. client' = [client EXCEPT ![k] = q] /\ UNCHANGED <<member, filing>>
    BY DEF ReadCategory, Begin
<1>3. q.op \notin EditOps /\ q.op # "file"
    BY DEF EditOps
<1> HIDE DEF q
<1> QED
    BY <1>1, <1>2, <1>3, DeskStep, SlotQuiet DEF Inv

LEMMA ReadUnusedKeeps ==
    ASSUME Inv, NEW k \in Client, NEW t \in Category, ReadUnused(k, t), UNCHANGED <<voice, events>>
    PROVE  Inv'
<1> DEFINE q == [op |-> IF Used(t) THEN "retire" ELSE "delete category", category |-> t]
<1>1. TypeOK'
    BY ReadUnusedTyped DEF Inv
<1>2. client' = [client EXCEPT ![k] = q] /\ UNCHANGED <<member, filing>>
    BY DEF ReadUnused, Begin
<1>3. q.op \notin EditOps /\ q.op # "file"
    BY DEF EditOps
<1> HIDE DEF q
<1> QED
    BY <1>1, <1>2, <1>3, DeskStep, SlotQuiet DEF Inv

LEMMA AdministerKeeps ==
    ASSUME Inv, Administer, UNCHANGED <<voice, events>>
    PROVE  Inv'
BY CreateWorkspaceKeeps, ApplyPresetKeeps, UpdateWorkspaceKeeps, CreateCategoryKeeps, CreateCustomerKeeps,
   ReadUnusedKeeps, ReadCategoryKeeps, CategoryStepKeeps DEF Administer

-----------------------------------------------------------------------------
(* Handlers                                                                 *)

LEMMA RegisterKeeps ==
    ASSUME Inv, NEW k \in Client, Register(k), UNCHANGED <<voice, events>>
    PROVE  Inv'
<1>1. TypeOK'
    BY RegisterTyped DEF Inv
<1>2. SlotsKept
  <2>1. \E q : client' = [client EXCEPT ![k] = q] /\ q.op \in {"check", "register", "idle"}
    <3>1. ASSUME NEW w \in Workspace, ReadRoster(k, w)
          PROVE  \E q : client' = [client EXCEPT ![k] = q] /\ q.op \in {"check", "register", "idle"}
      <4>1. PICK rows \in SUBSET Code \ {{}} :
              Begin(k, [op |-> "check", workspace |-> w, setting |-> Row(workspace[w]), rows |-> rows])
        BY <3>1 DEF ReadRoster
      <4> DEFINE q == [op |-> "check", workspace |-> w, setting |-> Row(workspace[w]), rows |-> rows]
      <4>2. client' = [client EXCEPT ![k] = q] /\ q.op = "check"
        BY <4>1 DEF Begin
      <4> HIDE DEF q
      <4> QED
        BY <4>2
    <3>2. ASSUME NEW code \in Code, CheckRow(k, code)
          PROVE  \E q : client' = [client EXCEPT ![k] = q] /\ q.op \in {"check", "register", "idle"}
      <4>1. client[k] \in RowCheck
        BY <3>2, KindIs DEF CheckRow, At, Inv, TypeOK
      <4>2. CASE client' = [client EXCEPT ![k] = Idle]
        <5>1. Idle.op = "idle"
          BY DEF Idle
        <5> QED
          BY <4>2, <5>1
      <4> DEFINE r == [client[k] EXCEPT !.op = "check", !.rows = client[k].rows \ {code}]
      <4>3. CASE client' = [client EXCEPT ![k] = r]
        <5>1. r.op = "check"
          BY <4>1 DEF RowCheck
        <5> HIDE DEF r
        <5> QED
          BY <4>3, <5>1
      <4> DEFINE g == [op |-> "register", workspace |-> client[k].workspace, setting |-> client[k].setting,
                       rows |-> client[k].rows, code |-> code]
      <4>4. CASE client' = [client EXCEPT ![k] = g]
        <5>1. g.op = "register"
          OBVIOUS
        <5> HIDE DEF g
        <5> QED
          BY <4>4, <5>1
      <4> QED
        BY <3>2, <4>2, <4>3, <4>4 DEF CheckRow, NextRow, Done, Await
    <3>3. ASSUME NEW c \in Member, RegisterRow(k, c)
          PROVE  \E q : client' = [client EXCEPT ![k] = q] /\ q.op \in {"check", "register", "idle"}
      <4> DEFINE r == [op |-> "check", workspace |-> client[k].workspace, setting |-> client[k].setting,
                       rows |-> client[k].rows \ {client[k].code}]
      <4>1. client' = [client EXCEPT ![k] = Idle] \/ client' = [client EXCEPT ![k] = r]
        BY <3>3 DEF RegisterRow, Done, Await
      <4>2. Idle.op = "idle" /\ r.op = "check"
        BY DEF Idle
      <4> HIDE DEF r
      <4> QED
        BY <4>1, <4>2
    <3> QED
      BY <3>1, <3>2, <3>3 DEF Register
  <2> QED
    BY <2>1, SlotQuiet DEF Inv, EditOps
<1>3. UNCHANGED filing
    BY DEF Register, ReadRoster, CheckRow, RegisterRow
<1>4. MembersStay
  <2>1. CASE \E c \in Member : RegisterRow(k, c)
    <3>1. PICK c \in Member : RegisterRow(k, c)
      BY <2>1
    <3>2. ~Given(member[c]) /\ \A d \in Member : d # c => member'[d] = member[d]
      BY <3>1 DEF RegisterRow, Inv, TypeOK
    <3> QED
      BY <3>2 DEF MembersStay, LivesAt
  <2>2. CASE UNCHANGED member
    BY <2>2, MembersUnchanged
  <2> QED
    BY <2>1, <2>2 DEF Register, ReadRoster, CheckRow
<1> QED
    BY <1>1, <1>2, <1>3, <1>4, RowsUnchanged, FilingsUnchanged, InvKept

LEMMA IntakeKeeps ==
    ASSUME Inv, NEW k \in Client, NEW t \in Category, NEW c \in Member, Intake(k, t, c),
           UNCHANGED <<voice, events>>
    PROVE  Inv'
<1>1. TypeOK'
    BY IntakeTyped DEF Inv
<1> DEFINE w == Row(category[t]).workspace
           q == [op |-> "intake", category |-> t, customer |-> c, workspace |-> w,
                 setting |-> IF w = NoWorkspace THEN {} ELSE workspace[w]]
<1>2. client' = [client EXCEPT ![k] = q] /\ q.op = "intake"
    BY DEF Intake, Begin
<1> HIDE DEF q
<1>3. SlotsKept
    BY <1>2, SlotQuiet DEF Inv, EditOps
<1> QED
    BY <1>1, <1>3, DeskStep DEF Intake

LEMMA ReadMemberKeeps ==
    ASSUME Inv, NEW k \in Client, ReadMember(k), UNCHANGED <<voice, events>>
    PROVE  Inv'
<1> DEFINE q == client[k]
<1>1. TypeOK' /\ UNCHANGED <<member, filing>>
    BY ReadMemberTyped, ReadMemberDoes DEF Inv
<1>2. CASE client' = [client EXCEPT ![k] = Idle]
    BY <1>1, <1>2, SlotDone, DeskStep DEF Inv
<1>3. CASE /\ client' = [client EXCEPT ![k] = ToFile(q)]
           /\ Given(member[q.customer]) /\ AtHome(Row(member[q.customer]), q.workspace)
  <2>1. q \in Filer
    BY ReadMemberDoes DEF Inv
  <2>2. q.customer \in Member
    BY <2>1 DEF Filer
  <2>3. member[q.customer] = {Row(member[q.customer])}
    BY <1>3, <2>2, RowOf DEF Inv, TypeOK
  <2>4. LivesAt(q.customer, q.workspace)
    BY <1>3, <2>3 DEF LivesAt, AtHome
  <2>5. ToFile(q).op = "file" /\ ToFile(q).row.customer = q.customer /\ ToFile(q).row.workspace = q.workspace
    BY DEF ToFile
  <2>6. client'[k] = ToFile(q) /\ \A j \in Client : j # k => client'[j] = client[j]
    BY <1>3 DEF Inv, TypeOK
  <2>7. SlotsKept
    BY <2>4, <2>5, <2>6 DEF SlotsKept, EditOps
  <2> QED
    BY <1>1, <2>7, DeskStep
<1> QED
    BY <1>2, <1>3, ReadMemberDoes DEF Inv

LEMMA FileRefusedKeeps ==
    ASSUME Inv, NEW k \in Client, FileRefused(k), UNCHANGED <<voice, events>>
    PROVE  Inv'
BY FileRefusedTyped, SlotDone, DeskStep DEF Inv, FileRefused, Done, Await

LEMMA CreateKeeps ==
    ASSUME Inv, NEW k \in Client, NEW v \in Voice, Create(k, v)
    PROVE  Inv'
<1> DEFINE row == client[k].row
<1>1. /\ TypeOK' /\ TypeOK /\ client[k].op = "file"
      /\ client' = [client EXCEPT ![k] = Idle] /\ filing' = [filing EXCEPT ![v] = {row}]
    BY CreateTyped DEF Inv, Create, File, At
<1>2. ~Given(filing[v]) /\ UNCHANGED member
    BY DEF Create, File
<1>3. LivesAt(row.customer, row.workspace)
    BY <1>1 DEF Inv, FiledSlots, ToBeFiled
<1>4. filing'[v] = {row} /\ \A x \in Voice : x # v => filing'[x] = filing[x]
    BY <1>1 DEF TypeOK
<1>5. Recorded(voice'[v], events'[v])
    BY <1>1, StartRecorded DEF Create, TypeOK
<1>6. \A x \in Voice : x # v => voice'[x] = voice[x] /\ events'[x] = events[x]
    BY <1>1 DEF Create, TypeOK
<1>7. RowsAdvance /\ RowsKept
    BY <1>2, <1>4, <1>5, <1>6 DEF RowsAdvance, RowsKept
<1>8. FilingsKept
    BY <1>3, <1>4 DEF FilingsKept
<1> QED
    BY <1>1, <1>2, <1>7, <1>8, MembersUnchanged, SlotDone, InvKept

(* A request that reads a row.                                              *)
LEMMA ReadingIs ==
    ASSUME Inv, NEW v \in Voice, Readable(v), NEW op \in EditOps
    PROVE  /\ Reading(op, v) \in Edit /\ Reading(op, v).voice = v
           /\ Reading(op, v).before.version = voice[v].version
           /\ Reading(op, v).before.status = voice[v].status
           /\ Reading(op, v).before.resolution = voice[v].resolution
<1> DEFINE row == voice[v]
           before == [row EXCEPT !.responded = 0, !.resolved = 0, !.closed = 0]
           gated == Home(v) # NoWorkspace /\ Row(workspace[Home(v)]).gate
<1>1. row \in VoiceRow /\ 0 \in Clock
    BY WorkspacesAssumption DEF Inv, TypeOK, Clock
<1> HIDE DEF row
<1>2. /\ before \in VoiceRow /\ before.version = row.version /\ before.status = row.status
      /\ before.resolution = row.resolution
    BY <1>1 DEF VoiceRow
<1>3. gated \in BOOLEAN
    OBVIOUS
<1>4. Reading(op, v) = [op |-> op, voice |-> v, before |-> before, gated |-> gated]
    BY DEF Reading, row
<1> HIDE DEF before, gated
<1> QED
    BY <1>2, <1>3, <1>4 DEF Edit, EditOps, row

LEMMA ReadingKeeps ==
    ASSUME Inv, NEW k \in Client, NEW v \in Voice, Readable(v), NEW op \in EditOps, Await(k, Reading(op, v)),
           UNCHANGED <<desk, member, filing, voice, events>>
    PROVE  Inv'
<1> DEFINE q == Reading(op, v)
<1>1. /\ q \in Edit /\ q.voice = v /\ q.before.version = voice[v].version
      /\ q.before.status = voice[v].status /\ q.before.resolution = voice[v].resolution
    BY ReadingIs
<1>2. client' = [client EXCEPT ![k] = q] /\ begun' = begun
    BY DEF Await
<1> HIDE DEF q
<1>3. q \in Request
    BY <1>1, RequestsAre
<1>4. TypeOK'
    BY <1>2, <1>3, SlotOnlyTyped DEF Inv, TypeOK
<1>5. client'[k] = q /\ \A j \in Client : j # k => client'[j] = client[j]
    BY <1>2 DEF Inv, TypeOK
<1>6. voice[v].version \in 0..MaxVersion
    BY DEF Inv, TypeOK, VoiceRow
<1>7. ReadingHolds(k)'
    BY <1>1, <1>5, <1>6 DEF ReadingHolds, Readable
<1>8. q.op \in EditOps
    BY <1>1 DEF Edit, EditOps
<1>9. SlotsKept
    BY <1>5, <1>7, <1>8 DEF SlotsKept, EditOps
<1> QED
    BY <1>4, <1>9, DeskStep

LEMMA ReadKeeps ==
    ASSUME Inv, NEW k \in Client, NEW v \in Voice, NEW op \in EditOps, Read(k, v, op)
    PROVE  Inv'
BY ReadingKeeps DEF Read

LEMMA ReadToResolveKeeps ==
    ASSUME Inv, NEW k \in Client, NEW v \in Voice, ReadToResolve(k, v)
    PROVE  Inv'
BY ReadKeeps DEF ReadToResolve, EditOps

LEMMA ReadStartedKeeps ==
    ASSUME Inv, NEW k \in Client, ReadStarted(k)
    PROVE  Inv'
<1> DEFINE v == client[k].voice
<1>5. client[k] \in Started
    BY KindIs DEF ReadStarted, At, Inv, TypeOK
<1>1. v \in Voice
    BY <1>5 DEF Started
<1>2. UNCHANGED <<desk, member, filing, voice, events>>
    BY DEF ReadStarted
<1>3. CASE Readable(v)
  <2>1. Await(k, Reading("resolve", v))
    BY <1>3 DEF ReadStarted
  <2> QED
    BY <1>1, <1>2, <1>3, <2>1, ReadingKeeps DEF EditOps
<1>4. CASE ~Readable(v)
  <2>1. client' = [client EXCEPT ![k] = Idle] /\ begun' = begun
    BY <1>4 DEF ReadStarted, Done, Await
  <2>2. TypeOK'
    BY <1>2, <2>1, IdleIsRequest, SlotOnlyTyped DEF Inv, TypeOK
  <2> QED
    BY <1>2, <2>1, <2>2, SlotDone, DeskStep DEF Inv
<1> QED
    BY <1>3, <1>4

LEMMA RefusedKeeps ==
    ASSUME Inv, NEW k \in Client, Refused(k)
    PROVE  Inv'
<1>1. client' = [client EXCEPT ![k] = Idle] /\ begun' = begun /\ UNCHANGED <<desk, member, filing, voice, events>>
    BY DEF Refused, Done, Await
<1>2. TypeOK'
    BY <1>1, IdleIsRequest, SlotOnlyTyped DEF Inv, TypeOK
<1> QED
    BY <1>1, <1>2, SlotDone, DeskStep DEF Inv

LEMMA ReadToReviewKeeps ==
    ASSUME Inv, NEW k \in Client, NEW v \in Voice, ReadToReview(k, v)
    PROVE  Inv'
<1> DEFINE q == [op |-> "review", voice |-> v, finished |-> Finished(voice[v].status)]
<1>1. q \in Judge /\ q.op = "review"
    BY DEF Judge, Finished
<1>2. client' = [client EXCEPT ![k] = q] /\ begun' = begun /\ UNCHANGED <<desk, member, filing, voice, events>>
    BY DEF ReadToReview, Await
<1> HIDE DEF q
<1>3. q \in Request
    BY <1>1, RequestsAre
<1>4. TypeOK'
    BY <1>2, <1>3, SlotOnlyTyped DEF Inv, TypeOK
<1>5. SlotsKept
    BY <1>1, <1>2, SlotQuiet DEF Inv, EditOps
<1> QED
    BY <1>2, <1>4, <1>5, DeskStep

(* The transaction of a save.                                               *)
LEMMA SaveDoes ==
    ASSUME Inv, NEW k \in Client, client[k].op \in EditOps,
           NEW status \in Status, NEW resolution \in BOOLEAN, NEW evidence \in BOOLEAN,
           Save(k, status, resolution, evidence)
    PROVE  /\ client[k] \in Edit /\ Given(filing[client[k].voice])
           /\ voice' \in [Voice -> VoiceRow] /\ events' \in [Voice -> Seq(Event)]
           /\ \A v \in Voice : v # client[k].voice => voice'[v] = voice[v] /\ events'[v] = events[v]
           /\ voice'[client[k].voice].version > voice[client[k].voice].version
           /\ Recorded(voice'[client[k].voice], events'[client[k].voice])
<1> DEFINE q == client[k]
           v == q.voice
           before == q.before
           row == voice[v]
           h == events[v]
           new == Saved(row, before, status, resolution, evidence)
           g == StatusEvent(q, status)
<1>1. q \in Edit
    BY KindIs DEF Inv, TypeOK, EditOps
<1>2. v \in Voice /\ before \in VoiceRow
    BY <1>1 DEF Edit
<1>3. row \in VoiceRow /\ h \in Seq(Event)
    BY <1>2 DEF Inv, TypeOK
<1>4. ReadingHolds(k)
    BY DEF Inv, Readings
<1>5. Given(filing[v]) /\ Recorded(row, h)
    BY <1>2, <1>4 DEF ReadingHolds, Inv, Histories
<1>6. row.version < MaxVersion /\ before.version = row.version
    BY DEF Save, Unchanged
<1>7. before.status = row.status /\ before.resolution = row.resolution
    BY <1>4, <1>6 DEF ReadingHolds
<1>8. Accepted(before, q.gated, status, resolution, evidence)
    BY DEF Save
<1>9. g = IF status = before.status THEN h
          ELSE Append(h, [type |-> "status", from |-> before.status, to |-> status, at |-> row.version + 1])
    BY DEF StatusEvent
<1>10. voice' = [voice EXCEPT ![v] = new] /\ events' = [events EXCEPT ![v] = g]
    BY DEF Save
<1> HIDE DEF q, v, before, row, h, g
<1>11. g \in Seq(Event) /\ Recorded(new, g)
  <2>1. PICK gated : Accepted(before, gated, status, resolution, evidence)
    BY <1>8
  <2> HIDE DEF new
  <2>2. Continued(h, row, before, status) \in Seq(Event) /\ Recorded(new, Continued(h, row, before, status))
    BY <1>2, <1>3, <1>5, <1>6, <1>7, <2>1, SaveRecorded DEF new
  <2> QED
    BY <1>9, <2>2 DEF Continued
<1>12. new \in VoiceRow /\ new.version = row.version + 1
    BY <1>2, <1>3, <1>6, SavedIs
<1> HIDE DEF new
<1>13. voice \in [Voice -> VoiceRow] /\ events \in [Voice -> Seq(Event)]
    BY DEF Inv, TypeOK
<1>14. /\ voice' \in [Voice -> VoiceRow] /\ events' \in [Voice -> Seq(Event)]
       /\ voice'[v] = new /\ events'[v] = g
       /\ \A x \in Voice : x # v => voice'[x] = voice[x] /\ events'[x] = events[x]
    BY <1>2, <1>10, <1>11, <1>12, <1>13
<1>15. row.version \in 0..MaxVersion
    BY <1>3 DEF VoiceRow
<1>16. voice'[v].version > voice[v].version
    BY <1>12, <1>14, <1>15 DEF row
<1> QED
    BY <1>1, <1>5, <1>11, <1>14, <1>16 DEF v, q

(* A save whose slot ends with no reading.                                  *)
LEMMA SaveKeeps ==
    ASSUME Inv, NEW k \in Client, client[k].op \in EditOps,
           NEW status \in Status, NEW resolution \in BOOLEAN, NEW evidence \in BOOLEAN,
           Save(k, status, resolution, evidence),
           NEW q \in Request, client' = [client EXCEPT ![k] = q], q.op \notin EditOps, q.op # "file",
           begun' = begun, UNCHANGED <<desk, member>>, filing' \in [Voice -> AtMostOne(FilingRow)], FilingsKept,
           \A v \in Voice : Given(filing'[v]) <=> Given(filing[v])
    PROVE  Inv'
<1>1. /\ client[k].voice \in Voice
      /\ voice' \in [Voice -> VoiceRow] /\ events' \in [Voice -> Seq(Event)]
      /\ \A v \in Voice : v # client[k].voice => voice'[v] = voice[v] /\ events'[v] = events[v]
      /\ voice'[client[k].voice].version > voice[client[k].voice].version
      /\ Recorded(voice'[client[k].voice], events'[client[k].voice])
    BY SaveDoes DEF Edit
<1>2. client' \in [Client -> Request]
    BY SlotTyped DEF Inv
<1>3. TypeOK'
    BY <1>1, <1>2 DEF Inv, TypeOK, desk
<1>4. RowsAdvance /\ RowsKept
    BY <1>1 DEF RowsAdvance, RowsKept
<1>5. SlotsKept
    BY SlotQuiet DEF Inv
<1>6. MembersStay
    BY MembersUnchanged
<1> QED
    BY <1>3, <1>4, <1>5, <1>6, InvKept

LEMMA SameFiling ==
    ASSUME Inv, UNCHANGED filing
    PROVE  /\ filing' \in [Voice -> AtMostOne(FilingRow)] /\ FilingsKept
           /\ \A v \in Voice : Given(filing'[v]) <=> Given(filing[v])
BY FilingsUnchanged DEF Inv, TypeOK

LEMMA UpdateKeeps ==
    ASSUME Inv, NEW k \in Client, Update(k)
    PROVE  Inv'
<1>1. PICK status \in Status, resolution \in BOOLEAN, evidence \in BOOLEAN :
        Save(k, status, resolution, evidence)
    BY DEF Update
<1>2. /\ client[k].op \in EditOps /\ client' = [client EXCEPT ![k] = Idle] /\ begun' = begun
      /\ UNCHANGED <<desk, member>> /\ UNCHANGED filing
    BY DEF Update, At, Done, Await, EditOps
<1> QED
    BY <1>1, <1>2, IdleIsRequest, IdleQuiet, SameFiling, SaveKeeps

LEMMA ResolveKeeps ==
    ASSUME Inv, NEW k \in Client, Resolve(k)
    PROVE  Inv'
<1>1. PICK evidence \in BOOLEAN : Save(k, "RESOLVED", TRUE, evidence)
    BY DEF Resolve
<1>2. /\ client[k].op \in EditOps /\ client' = [client EXCEPT ![k] = Idle] /\ begun' = begun
      /\ UNCHANGED <<desk, member>> /\ UNCHANGED filing
    BY DEF Resolve, At, Done, Await, EditOps
<1>3. "RESOLVED" \in Status /\ TRUE \in BOOLEAN
    BY DEF Status
<1> QED
    BY <1>1, <1>2, <1>3, IdleIsRequest, IdleQuiet, SameFiling, SaveKeeps

LEMMA StartResolvingKeeps ==
    ASSUME Inv, NEW k \in Client, StartResolving(k)
    PROVE  Inv'
<1> DEFINE q == [op |-> "started", voice |-> client[k].voice]
<1>1. /\ client[k].op \in EditOps /\ client' = [client EXCEPT ![k] = q] /\ begun' = begun
      /\ Save(k, "IN_PROGRESS", FALSE, FALSE) /\ UNCHANGED <<desk, member>> /\ UNCHANGED filing
    BY DEF StartResolving, At, Await, EditOps
<1>2. client[k] \in Edit
    BY <1>1, KindIs DEF Inv, TypeOK, EditOps
<1>3. q \in Started
    BY <1>2 DEF Edit, Started
<1>4. q.op = "started"
    OBVIOUS
<1> HIDE DEF q
<1>5. q \in Request
    BY <1>3, RequestsAre
<1>6. q.op \notin EditOps /\ q.op # "file"
    BY <1>4 DEF EditOps
<1>7. "IN_PROGRESS" \in Status /\ FALSE \in BOOLEAN
    BY DEF Status
<1> QED
    BY <1>1, <1>5, <1>6, <1>7, SameFiling, SaveKeeps

LEMMA ChangeCategoryKeeps ==
    ASSUME Inv, NEW k \in Client, NEW t \in Category, ChangeCategory(k, t)
    PROVE  Inv'
<1> DEFINE v == client[k].voice
           status == client[k].before.status
           old == Row(filing[v])
           new == [old EXCEPT !.category = t]
<1>1. /\ client[k].op \in EditOps /\ client' = [client EXCEPT ![k] = Idle] /\ begun' = begun
      /\ Save(k, status, FALSE, FALSE) /\ UNCHANGED <<desk, member>>
      /\ filing' = [filing EXCEPT ![v] = {new}]
    BY DEF ChangeCategory, At, Done, Await, EditOps
<1>2. client[k] \in Edit
    BY <1>1, KindIs DEF Inv, TypeOK, EditOps
<1>3. v \in Voice /\ status \in Status
    BY <1>2 DEF Edit, VoiceRow
<1>4. Given(filing[v])
    BY <1>1 DEF Inv, Readings, ReadingHolds
<1>5. filing[v] \in AtMostOne(FilingRow)
    BY <1>3 DEF Inv, TypeOK
<1>6. old \in FilingRow /\ old \in filing[v]
    BY <1>4, <1>5, RowOf, RowIn DEF Given
<1> HIDE DEF old
<1>7. new \in FilingRow /\ new.customer = old.customer /\ new.workspace = old.workspace
    BY <1>6 DEF FilingRow
<1> HIDE DEF new, v, status
<1>8. {new} \in AtMostOne(FilingRow)
    BY <1>7, One
<1>9. filing' \in [Voice -> AtMostOne(FilingRow)] /\ filing'[v] = {new}
      /\ \A x \in Voice : x # v => filing'[x] = filing[x]
    BY <1>1, <1>3, <1>8 DEF Inv, TypeOK
<1>10. FilingsKept
    BY <1>6, <1>7, <1>9 DEF FilingsKept
<1>11. \A x \in Voice : Given(filing'[x]) <=> Given(filing[x])
    BY <1>4, <1>9 DEF Given
<1>12. FALSE \in BOOLEAN
    OBVIOUS
<1> QED
    BY <1>1, <1>3, <1>9, <1>10, <1>11, <1>12, IdleIsRequest, IdleQuiet, SaveKeeps

LEMMA CommentKeeps ==
    ASSUME Inv, NEW v \in Voice, Comment(v)
    PROVE  Inv'
<1> DEFINE row == voice[v]
           h == events[v]
           new == [row EXCEPT !.responded = row.version]
           g == Append(h, [type |-> "contact", from |-> "", to |-> "", at |-> row.version])
<1>1. row \in VoiceRow /\ h \in Seq(Event) /\ Recorded(row, h) /\ row.responded = 0
    BY DEF Inv, TypeOK, Histories, Comment
<1>2. voice' = [voice EXCEPT ![v] = new] /\ events' = [events EXCEPT ![v] = g] /\ UNCHANGED wsVars
    BY DEF Comment
<1> HIDE DEF row, h
<1>3. /\ new \in VoiceRow /\ g \in Seq(Event) /\ Recorded(new, g)
      /\ new.version = row.version /\ new.status = row.status /\ new.resolution = row.resolution
    BY <1>1, ContactRecorded
<1> HIDE DEF new, g
<1>4. voice \in [Voice -> VoiceRow] /\ events \in [Voice -> Seq(Event)]
    BY DEF Inv, TypeOK
<1>5. /\ voice' \in [Voice -> VoiceRow] /\ events' \in [Voice -> Seq(Event)]
      /\ voice'[v] = new /\ events'[v] = g
      /\ \A x \in Voice : x # v => voice'[x] = voice[x] /\ events'[x] = events[x]
    BY <1>2, <1>3, <1>4
<1>6. UNCHANGED <<workspace, category, member, filing, client, begun>>
    BY <1>2 DEF wsVars, desk
<1>7. TypeOK'
    BY <1>5, <1>6 DEF Inv, TypeOK
<1>8. RowsAdvance /\ RowsKept
    BY <1>3, <1>5, <1>6 DEF RowsAdvance, RowsKept, row
<1>9. MembersStay /\ FilingsKept /\ SlotsKept
    BY <1>6, MembersUnchanged, FilingsUnchanged, SlotsUnchanged
<1> QED
    BY <1>7, <1>8, <1>9, InvKept

LEMMA ReviewKeeps ==
    ASSUME Inv, NEW k \in Client, Review(k)
    PROVE  Inv'
<1> DEFINE v == client[k].voice
           row == voice[v]
<1>1. PICK verdict \in Verdicts : voice' = [voice EXCEPT ![v].knowledge = verdict]
    BY DEF Review
<1> DEFINE new == [row EXCEPT !.knowledge = verdict]
<1>2. client[k] \in Judge
    BY KindIs DEF Review, At, Inv, TypeOK
<1>3. v \in Voice /\ verdict \in Knowledge
    BY <1>2, VoicesAssumption DEF Judge, Knowledge
<1>4. row \in VoiceRow /\ (Given(filing[v]) => Recorded(row, events[v]))
    BY <1>3 DEF Inv, TypeOK, Histories
<1>5. voice' = [voice EXCEPT ![v] = new]
    BY <1>1
<1> HIDE DEF v, row
<1>6. /\ new \in VoiceRow /\ new.version = row.version /\ new.status = row.status
      /\ new.resolution = row.resolution
    BY <1>3, <1>4 DEF VoiceRow
<1>7. Given(filing[v]) => Recorded(new, events[v])
    BY <1>3, <1>4, JudgedRecorded
<1> HIDE DEF new
<1>8. voice \in [Voice -> VoiceRow]
    BY DEF Inv, TypeOK
<1>9. /\ voice' \in [Voice -> VoiceRow] /\ voice'[v] = new
      /\ \A x \in Voice : x # v => voice'[x] = voice[x]
    BY <1>3, <1>5, <1>6, <1>8
<1>10. /\ client' = [client EXCEPT ![k] = Idle]
       /\ UNCHANGED <<workspace, category, member, filing, events, begun>>
    BY DEF Review, Done, Await, desk
<1>11. client' \in [Client -> Request]
    BY <1>10, IdleIsRequest, SlotTyped DEF Inv
<1>12. TypeOK'
    BY <1>9, <1>10, <1>11 DEF Inv, TypeOK
<1>13. RowsAdvance /\ RowsKept
    BY <1>6, <1>7, <1>9, <1>10 DEF RowsAdvance, RowsKept, row
<1>14. MembersStay /\ FilingsKept /\ SlotsKept
    BY <1>10, MembersUnchanged, FilingsUnchanged, SlotDone DEF Inv
<1> QED
    BY <1>12, <1>13, <1>14, InvKept

LEMMA HandleKeeps ==
    ASSUME Inv, NEW k \in Client, Handle(k)
    PROVE  Inv'
<1>1. CASE \E t \in Category, c \in Member : Intake(k, t, c) /\ UNCHANGED <<voice, events>>
    BY <1>1, IntakeKeeps
<1>2. CASE (ReadMember(k) \/ FileRefused(k)) /\ UNCHANGED <<voice, events>>
    BY <1>2, ReadMemberKeeps, FileRefusedKeeps
<1>3. CASE \E v \in Voice : Create(k, v) \/ Read(k, v, "update") \/ ReadToResolve(k, v)
    BY <1>3, CreateKeeps, ReadKeeps, ReadToResolveKeeps DEF EditOps
<1>4. CASE Update(k) \/ Refused(k) \/ StartResolving(k) \/ ReadStarted(k) \/ Resolve(k)
    BY <1>4, UpdateKeeps, RefusedKeeps, StartResolvingKeeps, ReadStartedKeeps, ResolveKeeps
<1>5. CASE \E t \in Category : ChangeCategory(k, t)
    BY <1>5, ChangeCategoryKeeps
<1> QED
    BY <1>1, <1>2, <1>3, <1>4, <1>5 DEF Handle

LEMMA StutterKeeps == ASSUME Inv, UNCHANGED vars PROVE Inv'
<1>1. UNCHANGED <<workspace, category, member, filing, client, begun, voice, events>>
    BY DEF vars, wsVars, desk
<1>2. TypeOK'
    BY <1>1 DEF Inv, TypeOK
<1> QED
    BY <1>1, <1>2, DeskStep, SlotsUnchanged

LEMMA NextKeeps == Inv /\ [Next]_vars => Inv'
<1> SUFFICES ASSUME Inv, [Next]_vars PROVE Inv'
    OBVIOUS
<1>1. CASE Administer /\ UNCHANGED <<voice, events>>
    BY <1>1, AdministerKeeps
<1>2. CASE (\E k \in Client : Register(k)) /\ UNCHANGED <<voice, events>>
    BY <1>2, RegisterKeeps
<1>3. CASE \E v \in Voice : Comment(v)
    BY <1>3, CommentKeeps
<1>4. CASE \E k \in Client : Handle(k) \/ Review(k) \/ \E v \in Voice : ReadToReview(k, v)
    BY <1>4, HandleKeeps, ReviewKeeps, ReadToReviewKeeps
<1>5. CASE UNCHANGED vars
    BY <1>5, StutterKeeps
<1> QED
    BY <1>1, <1>2, <1>3, <1>4, <1>5 DEF Next

LEMMA InvHolds == Spec => []Inv
<1> QED
    BY InitInv, NextKeeps, PTL DEF Spec

-----------------------------------------------------------------------------
(* Results                                                                  *)

(* Every row, event and request in progress stays of its type.              *)
THEOREM TypesKept == Spec => []TypeOK
<1>1. Inv => TypeOK
    BY DEF Inv
<1> QED
    BY <1>1, InvHolds, PTL

(* The history of every request is an unbroken walk along the allowed       *)
(* transitions to its status, and a finished request has a resolution:      *)
(* Update and Resolve decide on an older reading, but write only the        *)
(* version they read.                                                       *)
THEOREM HistoryIsHonest == Spec => []LifecycleHonest
<1>1. Inv => LifecycleHonest
  <2>1. \A row, h : Recorded(row, h) => Walked(row, h)
    BY DEF Recorded
  <2> QED
    BY <2>1 DEF Inv, Histories, Walked, LifecycleHonest
<1> QED
    BY <1>1, InvHolds, PTL

(* The first response, the resolution and the closing time of every request *)
(* are the times its history gives them, however often it is reopened and   *)
(* edited (the CASE expressions of Update, and Comment).                    *)
THEOREM ClocksFollowHistory == Spec => []ClocksTold
<1>1. Inv => ClocksTold
  <2>1. \A row, h : Recorded(row, h) => AnswerTold(row, h) /\ EndTold(row, h)
    BY DEF Recorded
  <2> QED
    BY <2>1 DEF Inv, Histories, AnswerTold, EndTold, Entered, ClocksTold
<1> QED
    BY <1>1, InvHolds, PTL

(* A filed request stays in the workspace its customer is at home in,       *)
(* although Create checks the customer before it inserts and administrators *)
(* change workspaces and types in between.                                  *)
THEOREM RequestsStayHome == Spec => []FiledAtHome
<1>1. Inv => FiledAtHome
    BY DEF Inv, FiledRows, LivesAt, FiledAtHome
<1> QED
    BY <1>1, InvHolds, PTL
=============================================================================
