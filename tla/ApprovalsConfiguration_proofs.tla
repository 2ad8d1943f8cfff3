------------------- MODULE ApprovalsConfiguration_proofs -------------------
(***************************************************************************)
(* Proofs about the two modules in which approval policies are kept and     *)
(* used.  The first part is about Configuration, for any items, bundles,    *)
(* administrators and size of the pool.  The second is about Mail and about *)
(* Approvals, which extends it, for any accounts, contracts, slots,         *)
(* policies, entities, requests, concurrent calls, failures and changes:    *)
(* what is shown of Mail on its own is carried over to the composition.     *)
(***************************************************************************)
EXTENDS Configuration, Approvals, TLAPS

-----------------------------------------------------------------------------
(* Configuration: bundles beside the forms of administrators                *)

(* A key of which there is one row, with a version.                         *)
Single(x) == In(x, "settings") \/ In(x, "dealHealthRules")

RowsOK ==
    /\ rows \in [Item -> SUBSET Row] /\ serial \in Nat
    /\ \A x \in Item : \A row \in rows[x] :
         /\ row.id <= serial
         /\ row.class = "kept" => SectionOf[x] \in {"settings", "roles", "customFields"}
    /\ \A x, y \in Item : \A row \in rows[x], other \in rows[y] : row.id = other.id => x = y /\ row = other
    /\ \A x \in Item : Single(x) => \A row, other \in rows[x] : row = other

(* What a form shows, or Put has read for it, is its row, or an older       *)
(* version of it, or a row that is gone; Put read the version shown.        *)
Shown(f) == f.seen \cup f.read

FormOK(e) ==
    LET f == form[e] IN
    f.op # "idle" =>
        /\ f.op \in {"put", "upsert", "save"} /\ f.item \in Item /\ Single(f.item)
        /\ f.op # "save" => In(f.item, "settings")
        /\ Shown(f) \subseteq Row
        /\ \A old, other \in f.seen : old = other
        /\ \A old, other \in f.read : old = other
        /\ \A old \in f.seen, now \in f.read : old.version = now.version
        /\ \A old \in Shown(f) :
             /\ old.id <= serial
             /\ \A row \in rows[f.item] :
                  old.id = row.id => old.version <= row.version /\ (old.version = row.version => old = row)

(* A pending write of a row there is, which stays as it is until then ...   *)
Based(w, base) ==
    /\ base.id = w.row.id /\ base.class = w.row.class
    /\ Single(w.item) => w.row = base \/ base.version < w.row.version

(* ... or of a row nobody else knows.                                       *)
Unknown(w) ==
    /\ w.row.class = "open"
    /\ \A x \in Item : \A row \in rows[x] : row.id # w.row.id
    /\ \A e \in Editor : form[e].op # "idle" => \A old \in Shown(form[e]) : old.id # w.row.id
    /\ Single(w.item) => rows[w.item] = {}

Demotes(w, base) == base.id = w.row.id /\ base.value = Default /\ w.row.value = Plain

(* The shape of a request; what has no type here is only passed on.         *)
ReadRecord(q) == q \in [op : {"read"}, task : Task, next : {q.next}, twice : {q.twice}]
TxRecord(q) ==
    /\ q \in [op : {"find", "write"}, bundle : Bundles, todo : SUBSET Item, found : {q.found},
              writes : SUBSET [item : Item, row : Row], gone : {q.gone}, met : {q.met}]
    /\ q.todo \subseteq DOMAIN q.bundle /\ (q.op = "write" => q.todo # {})

(* The writes of a transaction, alone ...                                   *)
WritesOK(q) ==
    /\ \A w \in q.writes :
         /\ w.row.id <= serial
         /\ w.row.class = "kept" => In(w.item, "settings") /\ w.item \in q.met
         /\ Unknown(w) \/ \E base \in rows[w.item] : Based(w, base)
         /\ w.item \in DOMAIN q.bundle \/ \E base \in rows[w.item] : Demotes(w, base)
    /\ \A v, w \in q.writes :
         v.row.id = w.row.id \/ (v.item = w.item /\ ~In(w.item, "pipelines")) => v = w

(* ... and beside the bundle.                                               *)
BundleOK(q) ==
    /\ \A w \in q.writes : ~In(w.item, "pipelines") => w.item \in DOMAIN q.bundle \ q.todo
    /\ \A x \in DOMAIN q.bundle \ (q.todo \cup q.gone) :
         \E w \in q.writes :
             w.item = x /\ w.row.value = q.bundle[x] /\ (In(x, "customFields") => w.row.class = "open")

(* Find saw no system role, and no other statement makes one; the setting   *)
(* it saw was no secret, and stays as it is while it is locked.             *)
TargetOK(k) ==
    At(k, "write") =>
        /\ In(Item0(k), "roles") => \A row \in rows[Item0(k)] : row.class = "open"
        /\ In(Item0(k), "settings") /\ transfer[k].found # {} =>
             \E row \in rows[Item0(k)] : row.id \in transfer[k].found /\ row.class = "open"

TransferOK(k) ==
    LET q == transfer[k] IN
    \/ q = Idle
    \/ q.op = "read" /\ ReadRecord(q)
    \/ q.op \in {"find", "write"} /\ TxRecord(q) /\ WritesOK(q) /\ BundleOK(q) /\ TargetOK(k)

Ids(k) == {w.row.id : w \in transfer[k].writes}

(* Two transactions never write one row, nor insert twice under one key.    *)
Apart(j, k) ==
    j # k /\ j \in InTx /\ k \in InTx =>
        \A v \in transfer[j].writes, w \in transfer[k].writes :
            /\ v.row.id # w.row.id
            /\ v.item = w.item /\ Single(w.item) => ~(Unknown(v) /\ Unknown(w))

ConfigInv ==
    /\ RowsOK
    /\ form = [e \in Editor |-> form[e]] /\ \A e \in Editor : FormOK(e)
    /\ transfer = [k \in Client |-> transfer[k]] /\ \A k \in Client : TransferOK(k)
    /\ \A j, k \in Client : Apart(j, k)

(* What EditsSeen says of one step, and ImportsWholeAndKeeps.               *)
Informed ==
    \A e \in Editor :
        form[e].op \in {"upsert", "save"} /\ form'[e] = Idle /\ rows' # rows =>
            LET base == Base(form[e]) IN
            \A row \in rows[form[e].item] :
                row \in base \/ (base # {} /\ \A old \in base : old.id # row.id)
Whole ==
    \A k \in Client :
        (k \in InTx /\ transfer'[k] = Idle) =>
            \/ rows' = rows
            \/ LET b == transfer[k].bundle IN
               /\ \A x \in DOMAIN b \ transfer[k].gone : \E row \in rows'[x] :
                    row.value = b[x] /\ (In(x, "customFields") => row.class = "open")
               /\ \A x \in Item : \A row \in rows[x] :
                    \/ row \in rows'[x]
                    \/ \E new \in rows'[x] :
                         /\ new.id = row.id /\ new.class = row.class
                         /\ row.class = "kept" => x \in transfer[k].met
                         /\ x \in DOMAIN b \/ (In(x, "pipelines") /\ row.value = Default /\ new.value = Plain)

-----------------------------------------------------------------------------
(* There is a next item while some are left.                                *)
LEMMA Ranked ==
    ASSUME NEW x \in Item
    PROVE  RankOf(x) \in 1..6
<1>1. DOMAIN Sections = 1..6
    BY DEF Sections
<1>2. \E i \in 1..6 : Sections[i] = SectionOf[x]
    BY <1>1, ConfigurationAssumption
<1> QED
    BY <1>1, <1>2 DEF RankOf

LEMMA NextItem ==
    ASSUME NEW k, transfer[k].todo \subseteq Item, transfer[k].todo # {}
    PROVE  Item0(k) \in transfer[k].todo
<1> DEFINE T == transfer[k].todo
           Low(i) == \E x \in T : RankOf(x) = i
<1>1. \A x \in T : RankOf(x) \in 1..6
    BY Ranked
<1>2. \E x \in T : \A y \in T : RankOf(x) <= RankOf(y)
    <2>1. CASE Low(1)
        BY <1>1, <2>1
    <2>2. CASE ~Low(1) /\ Low(2)
        BY <1>1, <2>2
    <2>3. CASE ~Low(1) /\ ~Low(2) /\ Low(3)
        BY <1>1, <2>3
    <2>4. CASE ~Low(1) /\ ~Low(2) /\ ~Low(3) /\ Low(4)
        BY <1>1, <2>4
    <2>5. CASE ~Low(1) /\ ~Low(2) /\ ~Low(3) /\ ~Low(4) /\ Low(5)
        BY <1>1, <2>5
    <2>6. CASE ~Low(1) /\ ~Low(2) /\ ~Low(3) /\ ~Low(4) /\ ~Low(5)
        <3>1. \A x \in T : RankOf(x) = 6
            BY <1>1, <2>6
        <3> QED
            BY <3>1
    <2> QED
        BY <2>1, <2>2, <2>3, <2>4, <2>5, <2>6
<1> QED
    BY <1>2 DEF Item0

(* The next item of a request is that of its own state.                     *)
LEMMA SameItem ==
    ASSUME NEW k, transfer'[k] = transfer[k]
    PROVE  Item0(k)' = Item0(k)
BY DEF Item0, RankOf

(* What a transaction's statement sees: its own rows and the committed ones *)
(* it has not written, each id once.                                        *)
LEMMA SeenRows ==
    ASSUME ConfigInv, NEW k \in InTx, NEW x \in Item, NEW row \in Seen(k, x)
    PROVE  /\ row \in Row /\ row.id <= serial
           /\ \/ row \in rows[x] /\ row.id \notin Ids(k)
              \/ \E w \in transfer[k].writes : w.item = x /\ w.row = row
<1>1. k \in Client /\ transfer[k].op \in {"find", "write"}
    BY DEF InTx
<1>2. TxRecord(transfer[k]) /\ WritesOK(transfer[k])
    BY <1>1 DEF ConfigInv, TransferOK, Idle
<1>3. CASE \E w \in transfer[k].writes : w.item = x /\ w.row = row
    BY <1>2, <1>3 DEF TxRecord, WritesOK
<1>4. CASE row \in rows[x] /\ \A w \in transfer[k].writes : w.item = x => w.row.id # row.id
    <2>1. row \in Row /\ row.id <= serial
        BY <1>4 DEF ConfigInv, RowsOK
    <2>2. ASSUME NEW w \in transfer[k].writes, w.row.id = row.id
          PROVE  FALSE
        <3>1. w.item \in Item
            BY <1>2 DEF TxRecord
        <3>2. ~Unknown(w)
            BY <1>4, <2>2 DEF Unknown
        <3>3. PICK base \in rows[w.item] : Based(w, base)
            BY <1>2, <3>2 DEF WritesOK
        <3>4. w.item = x
            BY <1>4, <2>2, <3>1, <3>3 DEF Based, ConfigInv, RowsOK
        <3> QED
            BY <1>4, <2>2, <3>4
    <2> QED
        BY <1>4, <2>1, <2>2 DEF Ids
<1> QED
    BY <1>3, <1>4 DEF Seen

LEMMA SeenOnce ==
    ASSUME ConfigInv, NEW k \in InTx, NEW x \in Item, NEW y \in Item,
           NEW row \in Seen(k, x), NEW other \in Seen(k, y), row.id = other.id
    PROVE  x = y /\ row = other
<1>1. TxRecord(transfer[k]) /\ WritesOK(transfer[k])
    BY DEF ConfigInv, TransferOK, Idle, InTx
<1>2. /\ \/ row \in rows[x] /\ row.id \notin Ids(k)
         \/ \E w \in transfer[k].writes : w.item = x /\ w.row = row
      /\ \/ other \in rows[y] /\ other.id \notin Ids(k)
         \/ \E w \in transfer[k].writes : w.item = y /\ w.row = other
    BY SeenRows
<1>3. CASE row \in rows[x] /\ other \in rows[y]
    BY <1>3 DEF ConfigInv, RowsOK
<1>4. CASE ~(row \in rows[x] /\ row.id \notin Ids(k)) /\ ~(other \in rows[y] /\ other.id \notin Ids(k))
    BY <1>1, <1>2, <1>4 DEF WritesOK
<1>5. \A w \in transfer[k].writes : w.row.id \in Ids(k)
    BY DEF Ids
<1> QED
    BY <1>2, <1>3, <1>4, <1>5

-----------------------------------------------------------------------------
(* A step of somebody else that leaves the rows a transaction has written   *)
(* as they are, and inserts nothing under its new keys.                     *)
Untouched(k) ==
    /\ \A x \in Item : \A row \in rows[x] : row.id \in Ids(k) => row \in rows'[x]
    /\ \A x \in Item : \A row \in rows'[x] : row.id \in Ids(k) => row \in rows[x]
    /\ \A w \in transfer[k].writes : Single(w.item) /\ rows[w.item] = {} => rows'[w.item] = {}
    /\ \A x \in Item : In(x, "roles") /\ (\A row \in rows[x] : row.class = "open")
                       => \A row \in rows'[x] : row.class = "open"
    /\ \A x \in Item : In(x, "settings") => \A row \in rows[x] : row.id \in Locks(k)
                       => \E new \in rows'[x] : new.id = row.id /\ new.class = row.class
    /\ serial <= serial'
    /\ \A e \in Editor : form'[e].op # "idle" => \A old \in Shown(form'[e]) :
           \/ form[e].op # "idle" /\ old \in Shown(form[e])
           \/ \E x \in Item : old \in rows[x]

LEMMA Undisturbed ==
    ASSUME ConfigInv, serial' \in Nat, NEW k \in Client, transfer'[k] = transfer[k], k \in InTx => Untouched(k)
    PROVE  /\ TransferOK(k)'
           /\ k \in InTx => \A w \in transfer[k].writes : Unknown(w)' <=> Unknown(w)
<1> DEFINE q == transfer[k]
<1>1. CASE k \notin InTx
    <2>1. q = Idle \/ (q.op = "read" /\ ReadRecord(q))
        BY <1>1 DEF InTx, ConfigInv, TransferOK
    <2> QED
        BY <1>1, <2>1 DEF TransferOK, ReadRecord
<1>2. CASE k \in InTx
    <2>1. q.op \in {"find", "write"} /\ TxRecord(q) /\ WritesOK(q) /\ BundleOK(q) /\ TargetOK(k)
        BY <1>2 DEF InTx, ConfigInv, TransferOK, Idle
    <2>2. \A w \in q.writes : w.item \in Item /\ w.row \in Row /\ w.row.id \in Ids(k)
        BY <2>1 DEF TxRecord, Ids
    <2>3. ASSUME NEW w \in q.writes, NEW base \in rows[w.item], base.id = w.row.id
          PROVE  base \in rows'[w.item]
        BY <1>2, <2>2, <2>3 DEF Untouched
    <2>4. ASSUME NEW w \in q.writes
          PROVE  Unknown(w)' <=> Unknown(w)
        <3>1. (\A x \in Item : \A row \in rows[x] : row.id # w.row.id)
              <=> (\A x \in Item : \A row \in rows'[x] : row.id # w.row.id)
            BY <1>2, <2>2 DEF Untouched
        <3>2. ASSUME Unknown(w)
              PROVE  Unknown(w)'
            <4>1. \A e \in Editor : form'[e].op # "idle" => \A old \in Shown(form'[e]) : old.id # w.row.id
                BY <1>2, <3>2 DEF Unknown, Untouched
            <4>2. Single(w.item) => rows'[w.item] = {}
                BY <1>2, <3>2 DEF Unknown, Untouched
            <4> QED
                BY <3>1, <3>2, <4>1, <4>2 DEF Unknown, Shown, Single, In
        <3>3. ASSUME Unknown(w)'
              PROVE  Unknown(w)
            <4>1. ~\E base \in rows[w.item] : Based(w, base)
                BY <2>2, <3>1, <3>3 DEF Unknown, Based
            <4> QED
                BY <2>1, <4>1 DEF WritesOK
        <3> QED
            BY <3>2, <3>3
    <2>5. WritesOK(q)'
        <3>1. serial \in Nat /\ \A w \in q.writes : w.row.id \in Nat
            BY <2>2 DEF ConfigInv, RowsOK, Row
        <3>2. \A w \in q.writes : w.row.id <= serial'
            BY <1>2, <2>1, <3>1 DEF WritesOK, Untouched
        <3> QED
            BY <2>1, <2>3, <2>4, <3>2 DEF WritesOK, Based, Demotes
    <2>6. TargetOK(k)'
        <3>1. At(k, "write") => Item0(k) \in Item
            BY <2>1, NextItem, ConfigurationAssumption DEF TxRecord, At
        <3>2. At(k, "write") /\ In(Item0(k), "settings") => transfer[k].found \subseteq Locks(k)
            BY DEF At, In, Locks, ForUpdate
        <3> QED
            BY <1>2, <2>1, <3>1, <3>2, SameItem DEF TargetOK, At, Untouched
    <2>7. TxRecord(q)' /\ BundleOK(q)'
        BY <2>1 DEF TxRecord, BundleOK
    <2> QED
        BY <2>1, <2>4, <2>5, <2>6, <2>7 DEF TransferOK
<1> QED
    BY <1>1, <1>2

(* A step of one request that changes no row and writes nothing more.       *)
LEMMA TransferStep ==
    ASSUME ConfigInv, UNCHANGED <<rows, form, serial>>, NEW k \in Client, NEW q,
           transfer' = [transfer EXCEPT ![k] = q], TransferOK(k)',
           q.op \in {"find", "write"} => q.writes = {} \/ (k \in InTx /\ q.writes = transfer[k].writes)
    PROVE  ConfigInv' /\ Informed /\ Whole
<1>1. transfer'[k] = q /\ transfer' = [j \in Client |-> transfer'[j]] /\ \A j \in Client \ {k} : transfer'[j] = transfer[j]
    BY DEF ConfigInv
<1>2. \A j \in Client \ {k} : TransferOK(j)'
    <2> SUFFICES ASSUME NEW j \in Client \ {k}
                 PROVE  TransferOK(j)'
        OBVIOUS
    <2>1. Untouched(j)
        BY DEF Untouched, ConfigInv, RowsOK
    <2> QED
        BY <1>1, <2>1, Undisturbed DEF ConfigInv, RowsOK
<1>3. ASSUME NEW i \in Client, NEW j \in Client
      PROVE  Apart(i, j)'
    <2>1. \A w : Unknown(w)' <=> Unknown(w)
        BY DEF Unknown
    <2>2. Apart(i, j)
        BY DEF ConfigInv
    <2>3. \A l \in Client : l \in InTx' => transfer'[l].writes = {} \/ (l \in InTx /\ transfer'[l].writes = transfer[l].writes)
        BY <1>1 DEF InTx
    <2> QED
        BY <2>1, <2>2, <2>3 DEF Apart
<1>4. RowsOK' /\ (form = [e \in Editor |-> form[e]])' /\ \A e \in Editor : FormOK(e)'
    BY DEF ConfigInv, RowsOK, FormOK
<1> QED
    BY <1>1, <1>2, <1>3, <1>4 DEF ConfigInv, Informed, Whole

LEMMA StillStep ==
    ASSUME ConfigInv, UNCHANGED <<rows, transfer, form, serial>>
    PROVE  ConfigInv' /\ Informed /\ Whole
<1>1. \A k \in Client : Untouched(k)
    BY DEF Untouched, ConfigInv, RowsOK
<1>2. \A k \in Client : TransferOK(k)'
    BY <1>1, Undisturbed DEF ConfigInv, RowsOK
<1>3. ASSUME NEW j \in Client, NEW k \in Client
      PROVE  Apart(j, k)'
    <2>1. Apart(j, k) /\ \A w : Unknown(w)' <=> Unknown(w)
        BY DEF ConfigInv, Unknown
    <2> QED
        BY <2>1 DEF Apart, InTx
<1>4. RowsOK' /\ \A e \in Editor : FormOK(e)'
    BY DEF ConfigInv, RowsOK, FormOK
<1> QED
    BY <1>2, <1>3, <1>4 DEF ConfigInv, Informed, Whole

-----------------------------------------------------------------------------
(* Requests that only read, and those that end without a commit.            *)
LEMMA EndStep ==
    ASSUME ConfigInv, UNCHANGED <<rows, form, serial>>, NEW k \in Client, Await(k, Idle)
    PROVE  ConfigInv' /\ Informed /\ Whole
<1>1. transfer' = [transfer EXCEPT ![k] = Idle] /\ transfer'[k] = Idle /\ Idle.op = "idle"
    BY DEF Await, ConfigInv, Idle
<1>2. TransferOK(k)'
    BY <1>1 DEF TransferOK
<1> QED
    BY <1>1, <1>2, TransferStep

LEMMA ReadStep ==
    ASSUME ConfigInv, UNCHANGED <<rows, form, serial>>, NEW k \in Client,
           NEW q, q.op = "read", ReadRecord(q), Await(k, q)
    PROVE  ConfigInv' /\ Informed /\ Whole
<1>1. transfer' = [transfer EXCEPT ![k] = q] /\ transfer'[k] = q
    BY DEF Await, ConfigInv
<1>2. TransferOK(k)'
    BY <1>1 DEF TransferOK, ReadRecord
<1> QED
    BY <1>1, <1>2, TransferStep

LEMMA ReadingStep ==
    ASSUME ConfigInv, NEW k \in Client, ReadSections(k) \/ OpenRows(k) \/ ReadInner(k)
    PROVE  ConfigInv' /\ Informed /\ Whole
<1>1. CASE OpenRows(k)
    BY <1>1, StillStep DEF OpenRows
<1>2. CASE ReadSections(k) \/ ReadInner(k)
    <2>1. UNCHANGED <<rows, form, serial>> /\ At(k, "read") /\ Await(k, Reading(k))
        BY <1>2 DEF ReadSections, ReadInner
    <2>2. ReadRecord(transfer[k])
        BY <2>1 DEF ConfigInv, TransferOK, At, Idle
    <2>3. Reading(k).op = "read" /\ ReadRecord(Reading(k))
        <3> DEFINE q == transfer[k]
                   next == q.next + 1
                   twice == q.twice \/ Twice(Steps[q.next])
        <3>1. Reading(k) = [q EXCEPT !.next = next, !.twice = twice]
            BY DEF Reading
        <3> HIDE DEF next, twice
        <3> QED
            BY <2>2, <3>1 DEF ReadRecord
    <2> QED
        BY <2>1, <2>3, ReadStep
<1> QED
    BY <1>1, <1>2

LEMMA CompareStep ==
    ASSUME ConfigInv, NEW k \in Client, Compare(k)
    PROVE  ConfigInv' /\ Informed /\ Whole
<1>1. UNCHANGED <<rows, form, serial>> /\ transfer[k].op = "read" /\ ReadRecord(transfer[k])
    BY DEF Compare, At, ConfigInv, TransferOK, Idle
<1>2. CASE transfer[k].task.kind = "export" \/ transfer[k].twice
    BY <1>1, <1>2, EndStep DEF Compare, Answered
<1>3. CASE ~(transfer[k].task.kind = "export" \/ transfer[k].twice)
    <2> DEFINE b == transfer[k].task.bundle
               q == [op |-> "find", bundle |-> b, todo |-> DOMAIN b, found |-> {}, writes |-> {}, gone |-> {}, met |-> {}]
    <2>1. b \in Bundles
        BY <1>1, <1>3 DEF ReadRecord, Task
    <2>2. transfer' = [transfer EXCEPT ![k] = q] /\ transfer'[k] = q
        BY <1>3 DEF Compare, Await, ConfigInv
    <2>3. TxRecord(q) /\ q.op = "find" /\ q.writes = {}
        BY <2>1, ConfigurationAssumption DEF TxRecord
    <2> HIDE DEF q
    <2>4. (WritesOK(transfer[k]) /\ BundleOK(transfer[k]) /\ TargetOK(k))'
        <3>1. q.writes = {} /\ DOMAIN q.bundle = q.todo /\ q.op # "write"
            BY DEF q
        <3> QED
            BY <2>2, <3>1 DEF WritesOK, BundleOK, TargetOK, At
    <2>5. TransferOK(k)'
        BY <2>2, <2>3, <2>4 DEF TransferOK, TxRecord
    <2> QED
        BY <1>1, <2>2, <2>3, <2>5, TransferStep
<1> QED
    BY <1>2, <1>3

LEMMA FindStep ==
    ASSUME ConfigInv, NEW k \in Client, Find(k)
    PROVE  ConfigInv' /\ Informed /\ Whole
<1> DEFINE q == transfer[k]
           x == Item0(k)
<1>1. UNCHANGED <<rows, form, serial>> /\ q.op = "find" /\ q.todo # {} /\ k \in InTx
    BY DEF Find, At, InTx
<1>2. TxRecord(q) /\ WritesOK(q) /\ BundleOK(q)
    BY <1>1 DEF ConfigInv, TransferOK, Idle
<1>3. x \in q.todo /\ x \in Item
    BY <1>1, <1>2, NextItem, ConfigurationAssumption DEF TxRecord
<1>4. CASE Await(k, Idle)
    BY <1>1, <1>4, EndStep
<1>5. ASSUME NEW found, Await(k, [q EXCEPT !.op = "write", !.found = found]),
             SectionOf[x] \in {"settings", "roles"} => \A row \in Seen(k, x) : row.class = "open",
             In(x, "settings") => found = {row.id : row \in Seen(k, x)}
      PROVE  ConfigInv' /\ Informed /\ Whole
    <2> DEFINE r == [q EXCEPT !.op = "write", !.found = found]
    <2>1. transfer' = [transfer EXCEPT ![k] = r] /\ transfer'[k] = r
        BY <1>5 DEF Await, ConfigInv
    <2>2. /\ TxRecord(r) /\ r.op = "write" /\ r.bundle = q.bundle /\ r.todo = q.todo
          /\ r.writes = q.writes /\ r.gone = q.gone /\ r.met = q.met /\ r.found = found
        BY <1>1, <1>2 DEF TxRecord
    <2> HIDE DEF r
    <2>4. (WritesOK(transfer[k]) /\ BundleOK(transfer[k]))'
        <3>1. \A w : Unknown(w)' <=> Unknown(w)
            BY <1>1 DEF Unknown
        <3>2. /\ transfer'[k].writes = q.writes /\ transfer'[k].bundle = q.bundle /\ transfer'[k].todo = q.todo
              /\ transfer'[k].gone = q.gone /\ transfer'[k].met = q.met
            BY <2>1, <2>2
        <3>3. WritesOK(transfer[k])'
            BY <1>1, <1>2, <3>1, <3>2 DEF WritesOK, Based, Demotes
        <3>4. BundleOK(transfer[k])'
            BY <1>1, <1>2, <3>2 DEF BundleOK
        <3> QED
            BY <3>3, <3>4
    <2>5. Item0(k)' = x
        <3>1. transfer'[k].todo = transfer[k].todo
            BY <2>1, <2>2
        <3> QED
            BY <3>1 DEF Item0, RankOf
    <2>6. /\ In(x, "roles") => \A row \in rows[x] : row.class = "open"
          /\ In(x, "settings") /\ found # {} => \E row \in rows[x] : row.id \in found /\ row.class = "open"
        <3>1. In(x, "roles") \/ In(x, "settings") => \A w \in q.writes : w.item # x
            BY <1>2, <1>3 DEF BundleOK, In
        <3>2. In(x, "roles") \/ In(x, "settings") => Seen(k, x) = rows[x]
            BY <3>1 DEF Seen
        <3> QED
            BY <1>5, <3>2 DEF In
    <2>7. TargetOK(k)'
        BY <1>1, <2>1, <2>2, <2>5, <2>6 DEF TargetOK
    <2>8. TransferOK(k)'
        BY <2>1, <2>2, <2>4, <2>7 DEF TransferOK, TxRecord
    <2> QED
        BY <1>1, <2>1, <2>2, <2>8, TransferStep
<1>6. CASE ~Await(k, Idle)
    <2>1. PICK found : /\ Await(k, [q EXCEPT !.op = "write", !.found = found])
                       /\ SectionOf[x] \in {"settings", "roles"} =>
                            /\ \A row \in Seen(k, x) : row.class # "kept"
                            /\ found = {row.id : row \in Seen(k, x)}
        BY <1>6 DEF Find, Answered, In
    <2>2. \A row \in Seen(k, x) : row.class # "kept" => row.class = "open"
        BY <1>1, <1>3, SeenRows DEF Row
    <2> QED
        BY <1>5, <2>1, <2>2 DEF In
<1> QED
    BY <1>4, <1>6

-----------------------------------------------------------------------------
(* The statements of an import that write.                                  *)
LEMMA Written ==
    ASSUME ConfigInv, UNCHANGED <<rows, form>>, serial' \in Nat, serial <= serial',
           NEW k \in InTx, NEW q, transfer' = [transfer EXCEPT ![k] = q], q.op = "find", TxRecord(q),
           (WritesOK(transfer[k]) /\ BundleOK(transfer[k]))',
           \A j \in InTx \ {k} : \A v \in q.writes, w \in transfer[j].writes :
               /\ v.row.id # w.row.id
               /\ v.item = w.item /\ Single(w.item) => ~(Unknown(v) /\ Unknown(w))
    PROVE  ConfigInv' /\ Informed /\ Whole
<1>0. k \in Client
    BY DEF InTx
<1>1. transfer'[k] = q /\ transfer' = [j \in Client |-> transfer'[j]] /\ \A j \in Client \ {k} : transfer'[j] = transfer[j]
    BY <1>0 DEF ConfigInv
<1>2. TransferOK(k)'
    BY <1>1 DEF TransferOK, TargetOK, At, TxRecord
<1>3. \A j \in Client \ {k} : TransferOK(j)'
    <2> SUFFICES ASSUME NEW j \in Client \ {k}
                 PROVE  TransferOK(j)'
        OBVIOUS
    <2>1. Untouched(j)
        BY DEF Untouched, ConfigInv, RowsOK
    <2> QED
        BY <1>1, <2>1, Undisturbed
<1>4. \A w : Unknown(w)' <=> Unknown(w)
    BY DEF Unknown
<1>5. \A j \in Client \ {k} : j \in InTx' <=> j \in InTx
    BY <1>1 DEF InTx
<1>6. ASSUME NEW i \in Client, NEW j \in Client
      PROVE  Apart(i, j)'
    <2>1. CASE i # k /\ j # k
        <3>1. Apart(i, j)
            BY DEF ConfigInv
        <3> QED
            BY <1>1, <1>4, <1>5, <2>1, <3>1 DEF Apart
    <2>2. CASE i = k \/ j = k
        BY <1>1, <1>4, <1>5, <2>2 DEF Apart
    <2> QED
        BY <2>1, <2>2
<1>7. RowsOK'
    <2>1. \A x \in Item : \A row \in rows[x] : row.id \in Nat /\ row.id <= serial
        BY DEF ConfigInv, RowsOK, Row
    <2>2. \A x \in Item : \A row \in rows[x] : row.id <= serial'
        BY <2>1 DEF ConfigInv, RowsOK
    <2> QED
        BY <2>2 DEF ConfigInv, RowsOK
<1>8. (form = [e \in Editor |-> form[e]])' /\ \A e \in Editor : FormOK(e)'
    <2> SUFFICES ASSUME NEW e \in Editor, form[e].op # "idle"
                 PROVE  \A old \in Shown(form[e]) : old.id <= serial'
        BY DEF ConfigInv, FormOK
    <2>1. \A old \in Shown(form[e]) : old.id \in Nat /\ old.id <= serial
        BY DEF ConfigInv, FormOK, Row
    <2> QED
        BY <2>1 DEF ConfigInv, RowsOK
<1> QED
    BY <1>1, <1>2, <1>3, <1>6, <1>7, <1>8 DEF ConfigInv, Informed, Whole

(* What a write is made from, if there is a row it lands on.                *)
From(w, row) ==
    /\ row.id = w.row.id /\ row.class = w.row.class
    /\ Single(w.item) => w.row = row \/ row.version < w.row.version

LEMMA Updating ==
    ASSUME NEW row \in Row, NEW value \in Value
    PROVE  /\ Updated(row, value) \in Row /\ Updated(row, value).value = value
           /\ Updated(row, value).id = row.id /\ Updated(row, value).class = row.class
           /\ Updated(row, value) = row \/ row.version < Updated(row, value).version
<1>1. CASE row.value = value
    BY <1>1 DEF Updated
<1>2. CASE row.value # value
    <2> DEFINE next == [row EXCEPT !.value = value, !.version = @ + 1]
    <2>1. row.version + 1 \in Nat /\ row.version < row.version + 1
        BY DEF Row
    <2>2. next \in Row /\ next.value = value /\ next.id = row.id /\ next.class = row.class
          /\ next.version = row.version + 1
        BY <2>1 DEF Row
    <2>3. Updated(row, value) = next
        BY <1>2 DEF Updated
    <2> HIDE DEF next
    <2> QED
        BY <2>1, <2>2, <2>3
<1> QED
    BY <1>1, <1>2

LEMMA Demoting ==
    ASSUME ConfigInv, NEW k \in InTx, NEW x, NEW value, NEW w \in Demotions(k, x, value)
    PROVE  /\ In(x, "pipelines") /\ value = Default
           /\ w.item \in Item /\ In(w.item, "pipelines") /\ w \in [item : Item, row : Row]
           /\ w.row.value = Plain
           /\ \E row \in Seen(k, w.item) :
                  /\ From(w, row) /\ row.value = Default /\ row \notin Target(k, x)
                  /\ w = [item |-> w.item, row |-> [row EXCEPT !.value = Plain]]
<1>1. In(x, "pipelines") /\ value = Default
    BY DEF Demotions
<1>y. PICK y \in Item :
          /\ In(y, "pipelines")
          /\ \E row \in Seen(k, y) :
               /\ row.value = Default /\ row \notin Target(k, x)
               /\ w = [item |-> y, row |-> [row EXCEPT !.value = Plain]]
    BY <1>1 DEF Demotions
<1>2. PICK row \in Seen(k, y) :
          /\ In(y, "pipelines") /\ row.value = Default /\ row \notin Target(k, x)
          /\ w = [item |-> y, row |-> [row EXCEPT !.value = Plain]]
    BY <1>y
<1>3. row \in Row /\ Plain \in Value
    BY <1>2, SeenRows, ConfigurationAssumption
<1>4. /\ [row EXCEPT !.value = Plain] \in Row /\ [row EXCEPT !.value = Plain].value = Plain
      /\ [row EXCEPT !.value = Plain].id = row.id /\ [row EXCEPT !.value = Plain].class = row.class
    BY <1>3 DEF Row
<1>5. ~Single(y)
    BY <1>2 DEF Single, In
<1>6. w.item = y /\ w.row = [row EXCEPT !.value = Plain]
    BY <1>2
<1> QED
    BY <1>1, <1>2, <1>4, <1>5, <1>6 DEF From

(* What a statement writes: the item's row, new or changed, and demotions.  *)
Main(k) ==
    LET x == Item0(k)
        target == Target(k, x)
    IN [item |-> x, row |-> IF target = {} THEN Fresh(transfer[k].bundle[x])
                            ELSE Updated(CHOOSE row \in target : TRUE, transfer[k].bundle[x])]
More(k) == Demotions(k, Item0(k), transfer[k].bundle[Item0(k)])

LEMMA InWrite ==
    ASSUME ConfigInv, NEW k \in Client, At(k, "write")
    PROVE  /\ k \in InTx /\ TxRecord(transfer[k]) /\ WritesOK(transfer[k]) /\ BundleOK(transfer[k]) /\ TargetOK(k)
           /\ Item0(k) \in transfer[k].todo /\ Item0(k) \in DOMAIN transfer[k].bundle /\ Item0(k) \in Item
           /\ transfer[k].bundle[Item0(k)] \in Value
<1>1. TxRecord(transfer[k]) /\ WritesOK(transfer[k]) /\ BundleOK(transfer[k]) /\ TargetOK(k) /\ k \in InTx
    BY DEF ConfigInv, TransferOK, Idle, At, InTx
<1>2. transfer[k].todo # {} /\ transfer[k].todo \subseteq DOMAIN transfer[k].bundle /\ transfer[k].bundle \in Bundles
    BY <1>1 DEF TxRecord, At
<1>3. Item0(k) \in transfer[k].todo
    BY <1>2, NextItem, ConfigurationAssumption
<1> QED
    BY <1>1, <1>2, <1>3, ConfigurationAssumption

LEMMA MainRow ==
    ASSUME ConfigInv, NEW k \in Client, At(k, "write")
    PROVE  LET x == Item0(k)
               w == Main(k)
           IN /\ w.item = x /\ w \in [item : Item, row : Row] /\ w.row.value = transfer[k].bundle[x]
              /\ In(x, "customFields") => w.row.class = "open"
              /\ \/ /\ Target(k, x) = {} /\ w.row.id = serial + 1 /\ w.row.class = "open"
                 \/ /\ Target(k, x) # {}
                    /\ \E row \in Target(k, x) : row \in Seen(k, x) /\ From(w, row)
<1> DEFINE x == Item0(k)
           value == transfer[k].bundle[x]
           w == Main(k)
<1>1. k \in InTx /\ x \in Item /\ value \in Value
    BY InWrite
<1>2. w.item = x
    BY DEF Main
<1>3. CASE Target(k, x) = {}
    <2>1. w.row = Fresh(value)
        BY <1>3 DEF Main
    <2>2. Fresh(value) \in Row /\ Fresh(value).id = serial + 1 /\ Fresh(value).class = "open"
          /\ Fresh(value).value = value
        BY <1>1 DEF Fresh, Row, ConfigInv, RowsOK
    <2>3. w = [item |-> x, row |-> w.row]
        BY DEF Main
    <2> QED
        BY <1>1, <1>2, <1>3, <2>1, <2>2, <2>3
<1>4. CASE Target(k, x) # {}
    <2> DEFINE row == CHOOSE r \in Target(k, x) : TRUE
    <2>1. row \in Target(k, x)
        BY <1>4
    <2>2. row \in Seen(k, x) /\ (In(x, "customFields") => row.class = "open")
        BY <2>1 DEF Target, In
    <2>3. row \in Row
        BY <1>1, <2>2, SeenRows
    <2>4. w.row = Updated(row, value)
        BY <1>4 DEF Main
    <2>5. w = [item |-> x, row |-> w.row]
        BY DEF Main
    <2> HIDE DEF row
    <2>6. From(w, row) /\ w.row \in Row /\ w.row.value = value /\ w.row.class = row.class
        BY <1>1, <2>3, <2>4, Updating DEF From
    <2> QED
        BY <1>1, <1>2, <1>4, <2>1, <2>2, <2>5, <2>6
<1> QED
    BY <1>3, <1>4

LEMMA MoreRows ==
    ASSUME ConfigInv, NEW k \in Client, At(k, "write"), NEW w \in More(k)
    PROVE  /\ In(Item0(k), "pipelines") /\ transfer[k].bundle[Item0(k)] = Default
           /\ w \in [item : Item, row : Row] /\ In(w.item, "pipelines") /\ w.row.value = Plain
           /\ \E row \in Seen(k, w.item) :
                  /\ From(w, row) /\ row.value = Default /\ row \notin Target(k, Item0(k))
                  /\ w = [item |-> w.item, row |-> [row EXCEPT !.value = Plain]]
BY InWrite, Demoting DEF More

(* The rows of one statement, each id once, and none that the transaction   *)
(* wrote before for an item the bundle is done with.                        *)
All(k) == {Main(k)} \cup More(k)

LEMMA AllOnce ==
    ASSUME ConfigInv, NEW k \in Client, At(k, "write"), NEW v \in All(k), NEW w \in All(k), v.row.id = w.row.id
    PROVE  v = w
<1> DEFINE x == Item0(k)
<1>1. k \in InTx /\ x \in Item
    BY InWrite
<1>2. ASSUME NEW u \in More(k), Main(k).row.id = u.row.id
      PROVE  FALSE
    <2>1. PICK row \in Seen(k, u.item) : From(u, row) /\ row \notin Target(k, x)
        BY MoreRows
    <2>2. u.item \in Item /\ row.id <= serial /\ row.id \in Nat /\ serial \in Nat
        BY <1>1, MoreRows, SeenRows DEF Row, ConfigInv, RowsOK
    <2>3. CASE Target(k, x) = {}
        <3>1. Main(k).row.id = serial + 1
            BY <2>3, MainRow
        <3> QED
            BY <1>2, <2>1, <2>2, <3>1 DEF From
    <2>4. CASE Target(k, x) # {}
        <3>1. PICK other \in Target(k, x) : other \in Seen(k, x) /\ From(Main(k), other)
            BY <2>4, MainRow
        <3>2. other.id = row.id
            BY <1>2, <2>1, <3>1 DEF From
        <3> QED
            BY <1>1, <2>1, <2>2, <3>1, <3>2, SeenOnce
    <2> QED
        BY <2>3, <2>4
<1>3. CASE v \in More(k) /\ w \in More(k)
    <2>1. PICK row \in Seen(k, v.item) : From(v, row) /\ v = [item |-> v.item, row |-> [row EXCEPT !.value = Plain]]
        BY <1>3, MoreRows
    <2>2. PICK other \in Seen(k, w.item) : From(w, other) /\ w = [item |-> w.item, row |-> [other EXCEPT !.value = Plain]]
        BY <1>3, MoreRows
    <2>3. v.item = w.item /\ row = other
        <3>1. row.id = other.id
            BY <2>1, <2>2 DEF From
        <3>2. v.item \in Item /\ w.item \in Item
            BY <1>3, MoreRows
        <3> QED
            BY <1>1, <3>1, <3>2, SeenOnce
    <2> QED
        BY <2>1, <2>2, <2>3
<1> QED
    BY <1>2, <1>3 DEF All

(* Each write is of a row nobody knows, or of one as it is; a row of a      *)
(* setting or a rule is nobody's insertion.                                 *)
LEMMA AllBased ==
    ASSUME ConfigInv, NEW k \in Client, At(k, "write"), NEW w \in All(k)
    PROVE  /\ w \in [item : Item, row : Row]
           /\ w.row.id = serial + 1 \/ (w.row.id \in Nat /\ w.row.id <= serial)
           /\ w.row.class = "kept" => In(w.item, "settings") /\ w.item \in Met(k)
           /\ Unknown(w) \/ \E base \in rows[w.item] : Based(w, base)
           /\ w.item \in DOMAIN transfer[k].bundle \/ \E base \in rows[w.item] : Demotes(w, base)
           /\ \/ w = Main(k) /\ Target(k, Item0(k)) = {} /\ w.row.id = serial + 1
              \/ \E row \in Seen(k, w.item) :
                   From(w, row) /\ (row \in Target(k, Item0(k)) \/ (w \in More(k) /\ row.value = Default))
<1> DEFINE x == Item0(k)
           q == transfer[k]
<1>1. /\ k \in InTx /\ TxRecord(q) /\ WritesOK(q) /\ BundleOK(q) /\ TargetOK(k)
      /\ x \in q.todo /\ x \in DOMAIN q.bundle /\ x \in Item
    BY InWrite
<1>2. ~In(x, "pipelines") => \A v \in q.writes : v.item # x
    BY <1>1 DEF BundleOK
<1>3. CASE w = Main(k) /\ Target(k, x) = {}
    <2>1. w.item = x /\ w \in [item : Item, row : Row] /\ w.row.id = serial + 1 /\ w.row.class = "open"
        BY <1>3, MainRow
    <2>2. serial \in Nat /\ \A y \in Item : \A row \in rows[y] : row.id \in Nat /\ row.id <= serial
        BY DEF ConfigInv, RowsOK, Row
    <2>3. \A e \in Editor : form[e].op # "idle" => \A old \in Shown(form[e]) : old.id \in Nat /\ old.id <= serial
        BY DEF ConfigInv, FormOK, Row
    <2>4. Single(x) => rows[x] = {}
        BY <1>2, <1>3 DEF Single, In, Target, Seen
    <2>5. Unknown(w)
        <3>1. \A id \in Nat : id <= serial => id # serial + 1
            BY <2>2
        <3> QED
            BY <2>1, <2>2, <2>3, <2>4, <3>1 DEF Unknown
    <2> QED
        BY <1>1, <1>3, <2>1, <2>5
<1>4. ASSUME NEW row \in Seen(k, w.item), From(w, row), w \in [item : Item, row : Row],
             row \in Target(k, x) \/ (w \in More(k) /\ row.value = Default),
             ~In(w.item, "pipelines") => w.item = x /\ row \in Target(k, x),
             w.item \in DOMAIN q.bundle \/ (row.value = Default /\ w.row.value = Plain)
      PROVE  /\ w.row.id \in Nat /\ w.row.id <= serial
             /\ w.row.class = "kept" => In(w.item, "settings") /\ w.item \in Met(k)
             /\ Unknown(w) \/ \E base \in rows[w.item] : Based(w, base)
             /\ w.item \in DOMAIN q.bundle \/ \E base \in rows[w.item] : Demotes(w, base)
    <2>1. /\ row \in Row /\ row.id <= serial
          /\ row \in rows[w.item] \/ \E v \in q.writes : v.item = w.item /\ v.row = row
        BY <1>1, <1>4, SeenRows
    <2>2. w.row.id \in Nat /\ w.row.id <= serial
        BY <1>4, <2>1 DEF From, Row
    <2>3. CASE row \in rows[w.item]
        <3>1. row.class = "kept" => SectionOf[w.item] \in {"settings", "roles", "customFields"}
            BY <1>4, <2>3 DEF ConfigInv, RowsOK
        <3>2. In(w.item, "customFields") => row.class = "open"
            BY <1>4 DEF In, Target
        <3>3. In(w.item, "roles") => row.class = "open"
            BY <1>1, <1>4, <2>3 DEF TargetOK, In
        <3>4. row.class = "open" => row.class # "kept"
            OBVIOUS
        <3>5. In(w.item, "settings") /\ row.class = "kept" => w.item \in Met(k)
            <4> SUFFICES ASSUME In(w.item, "settings"), row.class = "kept"
                         PROVE  w.item \in Met(k)
                OBVIOUS
            <4>1. w.item = x /\ row \in Target(k, x)
                BY <1>4 DEF In
            <4>2. q.found = {}
                BY <1>1, <1>4, <2>3, <3>4, <4>1 DEF TargetOK, ConfigInv, RowsOK, Single, At
            <4> QED
                BY <4>1, <4>2 DEF Met
        <3>7. w.row.class = "kept" => In(w.item, "settings") /\ w.item \in Met(k)
            BY <1>4, <3>1, <3>2, <3>3, <3>4, <3>5 DEF From, In
        <3>6. Based(w, row)
            BY <1>4 DEF From, Based
        <3> QED
            BY <1>4, <2>2, <2>3, <3>6, <3>7 DEF From, Demotes
    <2>4. ASSUME NEW v \in q.writes, v.item = w.item, v.row = row
          PROVE  /\ w.row.class = "kept" => In(w.item, "settings") /\ w.item \in Met(k)
                 /\ Unknown(w) \/ \E base \in rows[w.item] : Based(w, base)
                 /\ w.item \in DOMAIN q.bundle \/ \E base \in rows[w.item] : Demotes(w, base)
        <3>1. In(w.item, "pipelines") /\ ~Single(w.item)
            BY <1>2, <1>4, <2>4 DEF Single, In
        <3>2. w.row.id = v.row.id /\ w.row.class = v.row.class
            BY <1>4, <2>4 DEF From
        <3>3. Unknown(v) => Unknown(w)
            BY <3>1, <3>2 DEF Unknown
        <3>4. \A base : Based(v, base) => Based(w, base)
            BY <3>1, <3>2, <2>4 DEF Based
        <3>5. ASSUME w.item \notin DOMAIN q.bundle
              PROVE  \E base \in rows[w.item] : Demotes(w, base)
            <4>1. PICK base \in rows[w.item] : Demotes(v, base)
                BY <1>1, <2>4, <3>5 DEF WritesOK
            <4> QED
                BY <1>4, <3>2, <3>5, <4>1 DEF Demotes
        <3> QED
            BY <1>1, <2>4, <3>1, <3>2, <3>3, <3>4, <3>5 DEF WritesOK, In
    <2> QED
        BY <2>1, <2>2, <2>3, <2>4
<1>5. CASE w = Main(k) /\ Target(k, x) # {}
    <2>1. w.item = x /\ w \in [item : Item, row : Row]
        BY <1>5, MainRow
    <2>2. PICK row \in Target(k, x) : row \in Seen(k, x) /\ From(w, row)
        BY <1>5, MainRow
    <2> QED
        BY <1>1, <1>4, <2>1, <2>2
<1>6. CASE w \in More(k)
    <2>1. w \in [item : Item, row : Row] /\ In(w.item, "pipelines") /\ w.row.value = Plain
        BY <1>6, MoreRows
    <2>2. PICK row \in Seen(k, w.item) : From(w, row) /\ row.value = Default
        BY <1>6, MoreRows
    <2> QED
        BY <1>4, <1>6, <2>1, <2>2
<1> QED
    BY <1>3, <1>5, <1>6 DEF All

(* After a statement the writes are still sound ...                         *)
LEMMA WritesStay ==
    ASSUME ConfigInv, NEW k \in Client, At(k, "write"), UNCHANGED <<rows, form>>,
           serial' \in Nat, serial <= serial', \A w \in All(k) : w.row.id <= serial',
           transfer'[k].bundle = transfer[k].bundle, transfer'[k].writes = Recorded(transfer[k].writes, All(k)),
           transfer'[k].met = transfer[k].met \cup Met(k)
    PROVE  /\ WritesOK(transfer[k])'
           /\ transfer'[k].writes \subseteq [item : Item, row : Row]
<1> DEFINE x == Item0(k)
           q == transfer[k]
           W == transfer'[k].writes
<1>1. /\ k \in InTx /\ TxRecord(q) /\ WritesOK(q) /\ BundleOK(q) /\ x \in q.todo
    BY InWrite
<1>2. W = {w \in q.writes : \A m \in All(k) : m.row.id # w.row.id} \cup All(k)
    BY DEF Recorded
<1>3. q.writes \subseteq [item : Item, row : Row] /\ All(k) \subseteq [item : Item, row : Row]
    BY <1>1, AllBased DEF TxRecord
<1>4. \A w : Unknown(w)' <=> Unknown(w)
    BY DEF Unknown
<1>5. ASSUME NEW w \in W
      PROVE  /\ w.row.id <= serial'
             /\ w.row.class = "kept" => In(w.item, "settings") /\ w.item \in q.met \cup Met(k)
             /\ Unknown(w) \/ \E base \in rows[w.item] : Based(w, base)
             /\ w.item \in DOMAIN q.bundle \/ \E base \in rows[w.item] : Demotes(w, base)
    <2>1. CASE w \in All(k)
        BY <2>1, AllBased
    <2>2. CASE w \in q.writes
        <3>1. w.row.id \in Nat /\ w.row.id <= serial /\ serial \in Nat
            BY <1>1, <1>3, <2>2 DEF WritesOK, Row, ConfigInv, RowsOK
        <3> QED
            BY <1>1, <2>2, <3>1 DEF WritesOK
    <2> QED
        BY <1>2, <2>1, <2>2
<1>6. ASSUME NEW v \in W, NEW w \in W,
             v.row.id = w.row.id \/ (v.item = w.item /\ ~In(w.item, "pipelines"))
      PROVE  v = w
    <2>1. \A u \in All(k) : ~In(u.item, "pipelines") => u = Main(k) /\ u.item = x
        BY MainRow, MoreRows DEF All
    <2>2. \A u \in q.writes : ~In(u.item, "pipelines") => u.item # x
        BY <1>1 DEF BundleOK
    <2>3. CASE v \in q.writes /\ w \in q.writes
        BY <1>1, <1>6, <2>3 DEF WritesOK
    <2>4. CASE v \in All(k) /\ w \in All(k)
        BY <1>6, <2>1, <2>4, AllOnce
    <2>5. CASE v \in All(k) /\ w \in q.writes /\ \A m \in All(k) : m.row.id # w.row.id
        BY <1>6, <2>1, <2>2, <2>5
    <2>6. CASE w \in All(k) /\ v \in q.writes /\ \A m \in All(k) : m.row.id # v.row.id
        BY <1>6, <2>1, <2>2, <2>6
    <2> QED
        BY <1>2, <2>3, <2>4, <2>5, <2>6
<1>7. WritesOK(transfer[k])'
    BY <1>4, <1>5, <1>6 DEF WritesOK, Based, Demotes
<1> QED
    BY <1>2, <1>3, <1>7

(* ... and what the bundle is done with is still written as it says.        *)
LEMMA BundleStays ==
    ASSUME ConfigInv, NEW k \in Client, At(k, "write"),
           transfer'[k].bundle = transfer[k].bundle, transfer'[k].writes = Recorded(transfer[k].writes, All(k)),
           transfer'[k].todo = transfer[k].todo \ {Item0(k)}, transfer'[k].gone = transfer[k].gone
    PROVE  BundleOK(transfer[k])'
<1> DEFINE x == Item0(k)
           q == transfer[k]
           W == transfer'[k].writes
<1>1. /\ k \in InTx /\ TxRecord(q) /\ WritesOK(q) /\ BundleOK(q)
      /\ x \in q.todo /\ x \in DOMAIN q.bundle /\ q.bundle \in Bundles
    BY InWrite DEF TxRecord
<1>2. W = {w \in q.writes : \A m \in All(k) : m.row.id # w.row.id} \cup All(k)
    BY DEF Recorded
<1>3. ASSUME NEW w \in W, ~In(w.item, "pipelines")
      PROVE  w.item \in DOMAIN q.bundle \ (q.todo \ {x})
    <2>1. CASE w \in q.writes
        BY <1>1, <1>3, <2>1 DEF BundleOK
    <2>2. CASE w \in All(k)
        BY <1>1, <1>3, <2>2, MainRow, MoreRows DEF All
    <2> QED
        BY <1>2, <2>1, <2>2
<1>4. ASSUME NEW y \in DOMAIN q.bundle \ ((q.todo \ {x}) \cup q.gone)
      PROVE  \E w \in W : /\ w.item = y /\ w.row.value = q.bundle[y]
                          /\ In(y, "customFields") => w.row.class = "open"
    <2>1. CASE y = x
        <3>1. Main(k) \in W
            BY <1>2 DEF All
        <3> QED
            BY <2>1, <3>1, MainRow
    <2>2. CASE y # x
        <3>1. PICK w \in q.writes : /\ w.item = y /\ w.row.value = q.bundle[y]
                                    /\ In(y, "customFields") => w.row.class = "open"
            BY <1>1, <1>4, <2>2 DEF BundleOK
        <3>2. ASSUME NEW m \in All(k), m.row.id = w.row.id
              PROVE  FALSE
            <4>1. w.row.id <= serial /\ w.row.id \in Nat /\ serial \in Nat /\ w.row \in Row /\ w.item \in Item
                BY <1>1 DEF WritesOK, TxRecord, Row, ConfigInv, RowsOK
            <4>2. w.row.id # serial + 1
                BY <4>1
            <4>3. PICK row \in Seen(k, m.item) :
                      From(m, row) /\ (row \in Target(k, x) \/ (m \in More(k) /\ row.value = Default))
                BY <3>2, <4>2, AllBased
            <4>4. w.row \in Seen(k, y)
                BY <3>1 DEF Seen
            <4>5. m.item \in Item /\ m.item = y /\ row = w.row
                <5>1. m.item \in Item /\ row.id = w.row.id
                    BY <3>2, <4>3, AllBased DEF From
                <5> QED
                    BY <1>1, <3>1, <4>1, <4>3, <4>4, <5>1, SeenOnce
            <4>6. m \in More(k)
                BY <2>2, <4>5, MainRow DEF All
            <4>7. In(x, "pipelines") /\ q.bundle[x] = Default /\ In(y, "pipelines")
                BY <4>5, <4>6, MoreRows
            <4>8. q.bundle[y] # Default
                BY <1>1, <1>4, <2>2, <4>7, ConfigurationAssumption
            <4>9. PICK other \in Seen(k, m.item) : From(m, other) /\ other.value = Default
                BY <4>6, MoreRows
            <4>10. other = row
                <5>1. other.id = row.id
                    BY <4>3, <4>9 DEF From
                <5> QED
                    BY <1>1, <4>3, <4>5, <4>9, <5>1, SeenOnce
            <4> QED
                BY <3>1, <4>5, <4>8, <4>9, <4>10
        <3> QED
            BY <1>2, <3>1, <3>2
    <2> QED
        BY <2>1, <2>2
<1> QED
    BY <1>3, <1>4 DEF BundleOK

(* The rows a statement may write are no other transaction's.               *)
LEMMA Alone ==
    ASSUME ConfigInv, NEW k \in Client, Write(k), NEW j \in InTx \ {k}, NEW v \in All(k), NEW w \in transfer[j].writes
    PROVE  /\ v.row.id # w.row.id
           /\ v.item = w.item /\ Single(w.item) => ~(Unknown(v) /\ Unknown(w))
<1> DEFINE x == Item0(k)
<1>0. At(k, "write") /\ k \in InTx
    BY InWrite DEF Write
<1>1. /\ \A row \in Target(k, x) \cup {m.row : m \in More(k)} : ~LockedFor(k, row.id)
      /\ SectionOf[x] \notin {"pipelines", "approvalPolicies"} => ~Inserting(k, x)
    BY DEF Write, More
<1>2. TxRecord(transfer[j]) /\ WritesOK(transfer[j])
    BY DEF InTx, ConfigInv, TransferOK, Idle
<1>3. w.row.id \in Nat /\ w.row.id <= serial /\ w.item \in Item
    BY <1>2 DEF TxRecord, WritesOK, Row
<1>4. v.row.id # w.row.id
    <2>1. CASE v.row.id = serial + 1
        BY <1>3, <2>1 DEF ConfigInv, RowsOK
    <2>2. CASE v.row.id # serial + 1
        <3>1. \A row \in Target(k, x) \cup {m.row : m \in More(k)} : row.id # w.row.id
            BY <1>1 DEF LockedFor, Locks
        <3>2. v \in More(k) \/ \E row \in Target(k, x) : row.id = v.row.id
            BY <1>0, <2>2, AllBased DEF From
        <3> QED
            BY <3>1, <3>2
    <2> QED
        BY <2>1, <2>2
<1>5. ASSUME v.item = w.item, Single(w.item), Unknown(w)
      PROVE  FALSE
    <2>1. w.item = x
        BY <1>0, <1>5, MainRow, MoreRows DEF All, Single, In
    <2>2. ~Inserting(k, x)
        BY <1>1, <1>5, <2>1 DEF Single, In
    <2>3. w.item = x /\ w.row \notin rows[x] /\ \A row \in rows[x] : row.id # w.row.id
        BY <1>3, <1>5, <2>1 DEF Unknown
    <2> QED
        BY <2>2, <2>3 DEF Inserting
<1> QED
    BY <1>4, <1>5

LEMMA WriteStep ==
    ASSUME ConfigInv, NEW k \in Client, Write(k)
    PROVE  ConfigInv' /\ Informed /\ Whole
<1> DEFINE x == Item0(k)
           q == transfer[k]
           target == Target(k, x)
<1>1. /\ At(k, "write") /\ UNCHANGED <<rows, form>>
      /\ k \in InTx /\ TxRecord(q) /\ WritesOK(q) /\ BundleOK(q) /\ x \in q.todo /\ serial \in Nat
    BY InWrite DEF Write, ConfigInv, RowsOK
<1>2. CASE Await(k, Idle) /\ UNCHANGED serial
    BY <1>1, <1>2, EndStep
<1>3. ASSUME Await(k, [q EXCEPT !.op = "find", !.todo = @ \ {x}, !.found = {},
                               !.writes = Recorded(@, {}), !.gone = @ \cup {x}, !.met = @ \cup Met(k)]),
             UNCHANGED serial
      PROVE  ConfigInv' /\ Informed /\ Whole
    <2> DEFINE r == [q EXCEPT !.op = "find", !.todo = @ \ {x}, !.found = {},
                              !.writes = Recorded(@, {}), !.gone = @ \cup {x}, !.met = @ \cup Met(k)]
    <2>1. transfer' = [transfer EXCEPT ![k] = r] /\ transfer'[k] = r
        BY <1>3 DEF Await, ConfigInv
    <2>2. Recorded(q.writes, {}) = q.writes
        BY DEF Recorded
    <2>3. /\ TxRecord(r) /\ r.op = "find" /\ r.bundle = q.bundle /\ r.todo = q.todo \ {x}
          /\ r.writes = q.writes /\ r.gone = q.gone \cup {x} /\ r.met = q.met \cup Met(k)
        BY <1>1, <2>2 DEF TxRecord
    <2> HIDE DEF r
    <2>4. WritesOK(transfer[k])'
        <3>1. \A w : Unknown(w)' <=> Unknown(w)
            BY <1>1 DEF Unknown
        <3> QED
            BY <1>1, <1>3, <2>1, <2>3, <3>1 DEF WritesOK, Based, Demotes
    <2>5. BundleOK(transfer[k])'
        BY <1>1, <2>1, <2>3 DEF BundleOK
    <2>6. ASSUME NEW j \in InTx \ {k}, NEW v \in r.writes, NEW w \in transfer[j].writes
          PROVE  /\ v.row.id # w.row.id
                 /\ v.item = w.item /\ Single(w.item) => ~(Unknown(v) /\ Unknown(w))
        <3>1. Apart(k, j)
            BY <1>1 DEF ConfigInv, InTx
        <3> QED
            BY <1>1, <2>3, <3>1 DEF Apart
    <2>7. serial' \in Nat /\ serial <= serial'
        BY <1>1, <1>3
    <2> QED
        BY <1>1, <2>1, <2>3, <2>4, <2>5, <2>6, <2>7, Written
<1>4. ASSUME Await(k, [q EXCEPT !.op = "find", !.todo = @ \ {x}, !.found = {},
                               !.writes = Recorded(@, All(k)), !.gone = @ \cup {}, !.met = @ \cup Met(k)]),
             serial' = IF target = {} THEN serial + 1 ELSE serial
      PROVE  ConfigInv' /\ Informed /\ Whole
    <2> DEFINE r == [q EXCEPT !.op = "find", !.todo = @ \ {x}, !.found = {},
                              !.writes = Recorded(@, All(k)), !.gone = @ \cup {}, !.met = @ \cup Met(k)]
    <2>1. transfer' = [transfer EXCEPT ![k] = r] /\ transfer'[k] = r
        BY <1>4 DEF Await, ConfigInv
    <2>2. /\ r.op = "find" /\ r.bundle = q.bundle /\ r.todo = q.todo \ {x}
          /\ r.writes = Recorded(q.writes, All(k)) /\ r.gone = q.gone /\ r.met = q.met \cup Met(k)
        BY <1>1 DEF TxRecord
    <2>3. serial' \in Nat /\ serial <= serial' /\ \A w \in All(k) : w.row.id <= serial'
        <3>1. \A w \in All(k) : \/ w.row.id \in Nat /\ w.row.id <= serial
                                \/ w.row.id = serial + 1 /\ target = {}
            <4> SUFFICES ASSUME NEW w \in All(k)
                         PROVE  \/ w.row.id \in Nat /\ w.row.id <= serial
                                \/ w.row.id = serial + 1 /\ target = {}
                OBVIOUS
            <4>1. \/ w = Main(k) /\ target = {} /\ w.row.id = serial + 1
                  \/ \E row \in Seen(k, w.item) : From(w, row)
                BY <1>1, AllBased
            <4>2. ASSUME NEW row \in Seen(k, w.item), From(w, row)
                  PROVE  w.row.id \in Nat /\ w.row.id <= serial
                <5>1. w.item \in Item
                    BY <1>1, AllBased
                <5> QED
                    BY <1>1, <4>2, <5>1, SeenRows DEF From, Row
            <4> QED
                BY <4>1, <4>2
        <3> QED
            BY <1>1, <1>4, <3>1
    <2>4. WritesOK(transfer[k])' /\ r.writes \subseteq [item : Item, row : Row]
        BY <1>1, <2>1, <2>2, <2>3, WritesStay
    <2>5. BundleOK(transfer[k])'
        BY <1>1, <2>1, <2>2, BundleStays
    <2>6. TxRecord(r)
        BY <1>1, <2>4 DEF TxRecord
    <2>7. ASSUME NEW j \in InTx \ {k}, NEW v \in r.writes, NEW w \in transfer[j].writes
          PROVE  /\ v.row.id # w.row.id
                 /\ v.item = w.item /\ Single(w.item) => ~(Unknown(v) /\ Unknown(w))
        <3>1. v \in q.writes \/ v \in All(k)
            BY <2>2 DEF Recorded
        <3>2. Apart(k, j)
            BY <1>1 DEF ConfigInv, InTx
        <3> QED
            BY <1>1, <3>1, <3>2, Alone DEF Apart
    <2> HIDE DEF r
    <2> QED
        BY <1>1, <2>1, <2>2, <2>3, <2>4, <2>5, <2>6, <2>7, Written
<1> QED
    BY <1>2, <1>3, <1>4 DEF Write, Answered, Main, More, All

(* A commit puts what the transaction saw in the place of what there was.   *)
LEMMA CommittedRows ==
    ASSUME ConfigInv, NEW k \in InTx, rows' = After(transfer[k].writes), UNCHANGED serial
    PROVE  RowsOK' /\ \A x \in Item : rows'[x] = Seen(k, x)
<1>1. k \in Client /\ TxRecord(transfer[k]) /\ WritesOK(transfer[k])
    BY DEF InTx, ConfigInv, TransferOK, Idle
<1>2. \A x \in Item : rows'[x] = Seen(k, x)
    BY DEF After, Seen
<1>3. ASSUME NEW x \in Item, NEW row \in rows'[x]
      PROVE  /\ row \in Row /\ row.id <= serial
             /\ \/ row \in rows[x] /\ row.id \notin Ids(k)
                \/ \E w \in transfer[k].writes : w.item = x /\ w.row = row
    BY <1>2, <1>3, SeenRows
<1>4. rows' \in [Item -> SUBSET Row]
    BY <1>3 DEF After
<1>5. ASSUME NEW x \in Item, NEW row \in rows'[x], row.class = "kept"
      PROVE  SectionOf[x] \in {"settings", "roles", "customFields"}
    BY <1>1, <1>3, <1>5 DEF WritesOK, In, ConfigInv, RowsOK
<1>6. \A x, y \in Item : \A row \in rows'[x], other \in rows'[y] : row.id = other.id => x = y /\ row = other
    BY <1>2, SeenOnce
<1>7. ASSUME NEW x \in Item, Single(x), NEW row \in rows'[x], NEW other \in rows'[x]
      PROVE  row = other
    <2>1. ASSUME NEW old \in rows[x], old.id \notin Ids(k), NEW w \in transfer[k].writes, w.item = x
          PROVE  FALSE
        <3>1. ~Unknown(w)
            BY <1>7, <2>1 DEF Unknown
        <3>2. PICK base \in rows[x] : Based(w, base)
            BY <1>1, <2>1, <3>1 DEF WritesOK
        <3>3. base = old
            BY <1>7, <2>1 DEF ConfigInv, RowsOK
        <3> QED
            BY <2>1, <3>2, <3>3 DEF Based, Ids
    <2>2. \A v, w \in transfer[k].writes : v.item = x /\ w.item = x => v = w
        BY <1>1, <1>7 DEF WritesOK, Single, In
    <2>3. \A old, young \in rows[x] : old = young
        BY <1>7 DEF ConfigInv, RowsOK
    <2> QED
        BY <1>3, <2>1, <2>2, <2>3
<1> QED
    BY <1>2, <1>3, <1>4, <1>5, <1>6, <1>7 DEF RowsOK, ConfigInv

(* The other transactions do not notice.                                    *)
LEMMA CommitAside ==
    ASSUME ConfigInv, NEW k \in InTx, rows' = After(transfer[k].writes), UNCHANGED <<form, serial>>, NEW j \in InTx \ {k}
    PROVE  Untouched(j)
<1>1. /\ k \in Client /\ TxRecord(transfer[k]) /\ WritesOK(transfer[k])
      /\ j \in Client /\ TxRecord(transfer[j]) /\ WritesOK(transfer[j])
    BY DEF InTx, ConfigInv, TransferOK, Idle
<1>2. ASSUME NEW x \in Item, NEW row \in rows'[x]
      PROVE  row \in rows[x] \/ \E w \in transfer[k].writes : w.item = x /\ w.row = row
    BY <1>2, CommittedRows, SeenRows
<1>3. Apart(k, j)
    BY <1>1 DEF ConfigInv
<1>4. Ids(k) \cap Ids(j) = {}
    BY <1>3 DEF Apart, Ids
<1>5. ASSUME NEW x \in Item, NEW row \in rows[x], row.id \in Ids(j)
      PROVE  row \in rows'[x]
    <2>1. \A w \in transfer[k].writes : w.row.id # row.id
        BY <1>4, <1>5 DEF Ids
    <2> QED
        BY <2>1, CommittedRows DEF Seen
<1>6. ASSUME NEW x \in Item, NEW row \in rows'[x], row.id \in Ids(j)
      PROVE  row \in rows[x]
    BY <1>2, <1>4, <1>6 DEF Ids
<1>7. ASSUME NEW w \in transfer[j].writes, Single(w.item), rows[w.item] = {}
      PROVE  rows'[w.item] = {}
    <2>1. w.item \in Item /\ Unknown(w)
        BY <1>1, <1>7 DEF TxRecord, WritesOK
    <2>2. ASSUME NEW v \in transfer[k].writes, v.item = w.item
          PROVE  FALSE
        <3>1. Unknown(v)
            BY <1>1, <1>7, <2>2 DEF WritesOK
        <3> QED
            BY <1>1, <1>3, <1>7, <2>1, <2>2, <3>1 DEF Apart
    <2> QED
        BY <1>2, <1>7, <2>1, <2>2
<1>8. ASSUME NEW x \in Item, In(x, "roles"), \A row \in rows[x] : row.class = "open", NEW row \in rows'[x]
      PROVE  row.class = "open"
    <2>1. CASE row \in rows[x]
        BY <1>8, <2>1
    <2>2. CASE \E w \in transfer[k].writes : w.item = x /\ w.row = row
        <3>1. row.class # "kept"
            BY <1>1, <1>8, <2>2 DEF WritesOK, In
        <3>2. row \in Row
            BY CommittedRows, SeenRows
        <3> QED
            BY <3>1, <3>2 DEF Row
    <2> QED
        BY <1>2, <2>1, <2>2
<1>9. ASSUME NEW x \in Item, NEW row \in rows[x]
      PROVE  \E new \in rows'[x] : new.id = row.id /\ new.class = row.class
    <2>1. CASE \A w \in transfer[k].writes : w.row.id # row.id
        BY <2>1, CommittedRows DEF Seen
    <2>2. ASSUME NEW w \in transfer[k].writes, w.row.id = row.id
          PROVE  w.row \in rows'[x] /\ w.row.class = row.class
        <3>1. ~Unknown(w) /\ w.item \in Item
            BY <1>1, <1>9, <2>2 DEF Unknown, TxRecord
        <3>2. PICK base \in rows[w.item] : Based(w, base)
            BY <1>1, <3>1 DEF WritesOK
        <3>3. w.item = x /\ base = row
            BY <1>9, <2>2, <3>1, <3>2 DEF Based, ConfigInv, RowsOK
        <3> QED
            BY <3>2, <3>3, CommittedRows DEF Based, Seen
    <2> QED
        BY <2>1, <2>2
<1> QED
    BY <1>5, <1>6, <1>7, <1>8, <1>9 DEF Untouched, ConfigInv, RowsOK

LEMMA CommitStep ==
    ASSUME ConfigInv, NEW k \in Client, Commit(k)
    PROVE  ConfigInv' /\ Informed /\ Whole
<1> DEFINE q == transfer[k]
           W == transfer[k].writes
<1>1. /\ k \in InTx /\ TxRecord(q) /\ WritesOK(q) /\ BundleOK(q) /\ q.todo = {}
      /\ rows' = After(W) /\ UNCHANGED <<form, serial>>
    BY DEF Commit, At, InTx, ConfigInv, TransferOK, Idle
<1>2. transfer'[k] = Idle /\ transfer' = [j \in Client |-> transfer'[j]] /\ \A j \in Client \ {k} : transfer'[j] = transfer[j]
    BY DEF Commit, Answered, Await, ConfigInv
<1>3. RowsOK' /\ \A x \in Item : rows'[x] = Seen(k, x)
    BY <1>1, CommittedRows
<1>4. ASSUME NEW x \in Item, NEW row \in rows[x], NEW w \in W, w.row.id = row.id
      PROVE  w.item = x /\ Based(w, row)
    <2>1. ~Unknown(w)
        BY <1>4 DEF Unknown
    <2>2. PICK base \in rows[w.item] : Based(w, base)
        BY <1>1, <2>1 DEF WritesOK
    <2>3. w.item \in Item /\ base.id = row.id
        BY <1>1, <1>4, <2>2 DEF TxRecord, Based
    <2> QED
        BY <1>4, <2>2, <2>3 DEF ConfigInv, RowsOK
<1>5. ASSUME NEW e \in Editor
      PROVE  FormOK(e)'
    <2> DEFINE f == form[e]
    <2> SUFFICES ASSUME f.op # "idle", NEW old \in Shown(f), NEW row \in rows'[f.item], old.id = row.id
                 PROVE  old.version <= row.version /\ (old.version = row.version => old = row)
        BY <1>1 DEF ConfigInv, FormOK
    <2>1. /\ f.item \in Item /\ Single(f.item) /\ old \in Row
          /\ \A base \in rows[f.item] :
               old.id = base.id => old.version <= base.version /\ (old.version = base.version => old = base)
        BY DEF ConfigInv, FormOK
    <2>2. CASE row \in rows[f.item]
        BY <2>1, <2>2
    <2>3. ASSUME NEW w \in W, w.item = f.item, w.row = row
          PROVE  old.version <= row.version /\ (old.version = row.version => old = row)
        <3>1. ~Unknown(w)
            BY <2>3 DEF Unknown
        <3>2. PICK base \in rows[f.item] : Based(w, base)
            BY <1>1, <2>3, <3>1 DEF WritesOK
        <3>3. /\ old.version <= base.version /\ (old.version = base.version => old = base)
              /\ row = base \/ base.version < row.version
            BY <2>1, <2>3, <3>2 DEF Based
        <3>4. old.version \in Nat /\ base.version \in Nat /\ row.version \in Nat
            BY <1>1, <2>1, <2>3, <3>2 DEF Row, TxRecord, ConfigInv, RowsOK
        <3> QED
            BY <3>3, <3>4
    <2>4. row \in rows[f.item] \/ \E w \in W : w.item = f.item /\ w.row = row
        BY <1>1, <1>3, <2>1, SeenRows
    <2> QED
        BY <2>2, <2>3, <2>4
<1>6. ASSUME NEW j \in Client \ {k}
      PROVE  TransferOK(j)' /\ (j \in InTx => \A w \in transfer[j].writes : Unknown(w)' <=> Unknown(w))
    <2>1. j \in InTx => Untouched(j)
        BY <1>1, CommitAside
    <2> QED
        BY <1>1, <1>2, <2>1, Undisturbed DEF ConfigInv, RowsOK
<1>7. TransferOK(k)'
    BY <1>2 DEF TransferOK
<1>8. ASSUME NEW i \in Client, NEW j \in Client
      PROVE  Apart(i, j)'
    <2>1. \A l \in Client : l \in InTx' => l # k /\ l \in InTx /\ transfer'[l] = transfer[l]
        BY <1>2 DEF InTx, Idle
    <2>2. Apart(i, j)
        BY DEF ConfigInv
    <2> QED
        BY <1>6, <2>1, <2>2 DEF Apart
<1>9. ASSUME NEW l \in InTx, transfer'[l] = Idle
      PROVE  l = k
    BY <1>2, <1>9 DEF InTx, Idle
<1>10. ASSUME NEW x \in DOMAIN q.bundle \ q.gone
       PROVE  \E row \in rows'[x] : row.value = q.bundle[x] /\ (In(x, "customFields") => row.class = "open")
    <2>1. PICK w \in W : w.item = x /\ w.row.value = q.bundle[x] /\ (In(x, "customFields") => w.row.class = "open")
        BY <1>1 DEF BundleOK
    <2>2. x \in Item /\ w.row \in Seen(k, x)
        BY <1>1, <2>1 DEF TxRecord, Seen
    <2> QED
        BY <1>3, <2>1, <2>2
<1>11. ASSUME NEW x \in Item, NEW row \in rows[x]
       PROVE  \/ row \in rows'[x]
              \/ \E new \in rows'[x] :
                   /\ new.id = row.id /\ new.class = row.class
                   /\ row.class = "kept" => x \in q.met
                   /\ x \in DOMAIN q.bundle \/ (In(x, "pipelines") /\ row.value = Default /\ new.value = Plain)
    <2>1. CASE \A w \in W : w.row.id # row.id
        BY <1>3, <2>1 DEF Seen
    <2>2. ASSUME NEW w \in W, w.row.id = row.id
          PROVE  \E new \in rows'[x] :
                   /\ new.id = row.id /\ new.class = row.class
                   /\ row.class = "kept" => x \in q.met
                   /\ x \in DOMAIN q.bundle \/ (In(x, "pipelines") /\ row.value = Default /\ new.value = Plain)
        <3>1. w.item = x /\ row.class = w.row.class /\ w.row \in rows'[x]
            BY <1>3, <1>4, <2>2 DEF Based, Seen
        <3>2. row.class = "kept" => x \in q.met
            BY <1>1, <3>1 DEF WritesOK
        <3>3. x \notin DOMAIN q.bundle => In(x, "pipelines") /\ row.value = Default /\ w.row.value = Plain
            <4> SUFFICES ASSUME x \notin DOMAIN q.bundle
                         PROVE  In(x, "pipelines") /\ row.value = Default /\ w.row.value = Plain
                OBVIOUS
            <4>1. In(x, "pipelines")
                BY <1>1, <3>1 DEF BundleOK
            <4>2. PICK base \in rows[x] : Demotes(w, base)
                BY <1>1, <3>1 DEF WritesOK
            <4>3. base = row
                BY <2>2, <4>2 DEF Demotes, ConfigInv, RowsOK
            <4> QED
                BY <4>1, <4>2, <4>3 DEF Demotes
        <3> QED
            BY <2>2, <3>1, <3>2, <3>3
    <2> QED
        BY <2>1, <2>2
<1>12. Whole
    BY <1>9, <1>10, <1>11 DEF Whole
<1>13. Informed
    BY <1>1 DEF Informed, Idle
<1>14. (form = [e \in Editor |-> form[e]])'
    BY <1>1 DEF ConfigInv
<1> QED
    BY <1>2, <1>3, <1>5, <1>6, <1>7, <1>8, <1>12, <1>13, <1>14 DEF ConfigInv

-----------------------------------------------------------------------------
(* A step of an administrator.                                              *)
LEMMA EditStep ==
    ASSUME ConfigInv, UNCHANGED transfer, RowsOK',
           (form = [e \in Editor |-> form[e]])', \A e \in Editor : FormOK(e)',
           \A k \in InTx : Untouched(k)
    PROVE  ConfigInv' /\ Whole
<1>1. \A k \in Client : TransferOK(k)' /\ (k \in InTx => \A w \in transfer[k].writes : Unknown(w)' <=> Unknown(w))
    BY Undisturbed DEF RowsOK
<1>2. ASSUME NEW j \in Client, NEW k \in Client
      PROVE  Apart(j, k)'
    <2>1. Apart(j, k)
        BY DEF ConfigInv
    <2> QED
        BY <1>1, <2>1 DEF Apart, InTx
<1>3. Whole
    BY DEF Whole, InTx, Idle
<1> QED
    BY <1>1, <1>2, <1>3 DEF ConfigInv

(* One that only fills in, reads or leaves a form.                          *)
LEMMA FormStep ==
    ASSUME ConfigInv, UNCHANGED <<rows, transfer, serial>>,
           (form = [e \in Editor |-> form[e]])', \A e \in Editor : FormOK(e)',
           \A e \in Editor : form'[e].op # "idle" => \A old \in Shown(form'[e]) :
               (form[e].op # "idle" /\ old \in Shown(form[e])) \/ \E x \in Item : old \in rows[x]
    PROVE  ConfigInv' /\ Informed /\ Whole
<1>1. \A k \in InTx : Untouched(k)
    BY DEF Untouched, ConfigInv, RowsOK
<1>2. RowsOK'
    BY DEF ConfigInv, RowsOK
<1> QED
    BY <1>1, <1>2, EditStep DEF Informed

(* One that puts rows in the place of others that nobody has locked.        *)
LEMMA ReplaceRows ==
    ASSUME ConfigInv, UNCHANGED transfer,
           NEW x \in Item, NEW old, old \subseteq rows[x], \A row \in old : Unlocked(row.id),
           NEW new, new \subseteq Row, \A row, other \in new : row = other,
           Replace(x, old, new), serial' \in {serial, serial + 1}, ~In(x, "roles"),
           \A row \in new : row.class = "kept" => SectionOf[x] \in {"settings", "customFields"},
           \A row \in new :
             \/ \E base \in old : base.id = row.id /\ (Single(x) => base.version < row.version)
             \/ /\ row.id = serial + 1 /\ serial' = serial + 1
                /\ Single(x) => rows[x] = {} /\ \A k \in InTx : \A w \in transfer[k].writes : w.item # x,
           (form = [e \in Editor |-> form[e]])',
           \A e \in Editor : form'[e] = form[e] \/ form'[e] = Idle
    PROVE  ConfigInv' /\ Whole
<1>1. /\ rows'[x] = (rows[x] \ old) \cup new /\ \A y \in Item \ {x} : rows'[y] = rows[y]
      /\ rows \in [Item -> SUBSET Row] /\ serial \in Nat
    BY DEF Replace, ConfigInv, RowsOK
<1>2. \A y \in Item : \A row \in rows[y] : row.id \in Nat /\ row.id <= serial
    BY DEF ConfigInv, RowsOK, Row
<1>3. \A row \in new : row.id \in Nat /\ row.id <= serial'
    BY <1>1, <1>2 DEF Row
<1>4. RowsOK'
    <2>1. rows' \in [Item -> SUBSET Row]
        BY <1>1 DEF Replace
    <2>2. \A y \in Item : \A row \in rows'[y] : row.id <= serial'
        BY <1>1, <1>2, <1>3
    <2>3. \A y \in Item : \A row \in rows'[y] :
              row.class = "kept" => SectionOf[y] \in {"settings", "roles", "customFields"}
        BY <1>1 DEF ConfigInv, RowsOK
    <2>4. ASSUME NEW y \in Item, NEW other \in rows[y], NEW row \in new, row.id = other.id
          PROVE  y = x /\ other \in old
        <3>1. row.id # serial + 1
            BY <1>1, <1>2, <2>4
        <3>2. PICK base \in old : base.id = row.id
            BY <2>4, <3>1
        <3> QED
            BY <2>4, <3>2 DEF ConfigInv, RowsOK
    <2>5. \A y, z \in Item : \A row \in rows'[y], other \in rows'[z] : row.id = other.id => y = z /\ row = other
        <3>1. ASSUME NEW y \in Item, NEW z \in Item, NEW row \in rows'[y], NEW other \in rows'[z], row.id = other.id
              PROVE  y = z /\ row = other
            <4>1. CASE y = x /\ row \in new /\ z = x /\ other \in new
                BY <4>1
            <4>2. CASE y = x /\ row \in new /\ other \in rows[z] /\ ~(z = x /\ other \in old)
                BY <2>4, <3>1, <4>2
            <4>3. CASE z = x /\ other \in new /\ row \in rows[y] /\ ~(y = x /\ row \in old)
                BY <2>4, <3>1, <4>3
            <4>4. CASE row \in rows[y] /\ other \in rows[z]
                BY <3>1, <4>4 DEF ConfigInv, RowsOK
            <4> QED
                BY <1>1, <4>1, <4>2, <4>3, <4>4
        <3> QED
            BY <3>1
    <2>6. ASSUME NEW y \in Item, Single(y), NEW row \in rows'[y], NEW other \in rows'[y]
          PROVE  row = other
        <3>1. \A base, more \in rows[y] : base = more
            BY <2>6 DEF ConfigInv, RowsOK
        <3>2. y = x /\ new # {} => rows[x] \ old = {}
            BY <2>6, <3>1
        <3> QED
            BY <1>1, <3>1, <3>2
    <2> QED
        BY <1>1, <2>1, <2>2, <2>3, <2>5, <2>6 DEF RowsOK, Single, In
<1>5. ASSUME NEW e \in Editor
      PROVE  FormOK(e)'
    <2>1. CASE form'[e] = Idle
        BY <2>1 DEF FormOK, Idle
    <2>2. CASE form'[e] = form[e] /\ form[e].op # "idle"
        <3> DEFINE f == form[e]
        <3>1. /\ f.op \in {"put", "upsert", "save"} /\ f.item \in Item /\ Single(f.item)
              /\ f.op # "save" => In(f.item, "settings")
              /\ Shown(f) \subseteq Row
              /\ \A seen, other \in f.seen : seen = other
              /\ \A seen, other \in f.read : seen = other
              /\ \A seen \in f.seen, now \in f.read : seen.version = now.version
            BY <2>2 DEF ConfigInv, FormOK
        <3>2. ASSUME NEW seen \in Shown(f)
              PROVE  /\ seen.id <= serial' /\ seen.id \in Nat /\ seen.id <= serial
                     /\ \A row \in rows[f.item] : seen.id = row.id =>
                          seen.version <= row.version /\ (seen.version = row.version => seen = row)
            BY <1>1, <2>2, <3>1 DEF ConfigInv, FormOK, Row
        <3>3. ASSUME NEW seen \in Shown(f), NEW row \in rows'[f.item], seen.id = row.id
              PROVE  seen.version <= row.version /\ (seen.version = row.version => seen = row)
            <4>1. CASE row \in rows[f.item]
                BY <3>2, <3>3, <4>1
            <4>2. CASE f.item = x /\ row \in new
                <5>1. row.id # serial + 1
                    BY <1>1, <3>2, <3>3
                <5>2. PICK base \in old : base.id = row.id /\ base.version < row.version
                    BY <3>1, <4>2, <5>1
                <5>3. seen.version <= base.version
                    BY <3>2, <3>3, <4>2, <5>2
                <5>4. seen.version \in Nat /\ base.version \in Nat /\ row.version \in Nat
                    BY <1>1, <3>1, <3>3, <4>2, <5>2 DEF Row
                <5> QED
                    BY <5>2, <5>3, <5>4
            <4> QED
                BY <1>1, <3>1, <3>3, <4>1, <4>2
        <3> QED
            BY <2>2, <3>1, <3>2, <3>3 DEF FormOK, Single, In
    <2>3. CASE form'[e] = form[e] /\ form[e].op = "idle"
        BY <2>3 DEF FormOK
    <2> QED
        BY <2>1, <2>2, <2>3
<1>6. ASSUME NEW k \in InTx
      PROVE  Untouched(k)
    <2>1. TxRecord(transfer[k]) /\ WritesOK(transfer[k])
        BY DEF InTx, ConfigInv, TransferOK, Idle
    <2>2. \A id \in Ids(k) : id \in Locks(k) /\ id \in Nat /\ id <= serial
        BY <2>1 DEF Ids, Locks, TxRecord, WritesOK, Row
    <2>3. \A row \in old : row.id \notin Ids(k)
        BY <2>2 DEF Unlocked
    <2>4. \A row \in new : row.id \notin Ids(k)
        BY <1>1, <2>2, <2>3
    <2>5. ASSUME NEW w \in transfer[k].writes, Single(w.item), rows[w.item] = {}
          PROVE  rows'[w.item] = {}
        <3>1. w.item \in Item
            BY <2>1 DEF TxRecord
        <3>2. w.item = x => new = {}
            BY <2>5
        <3> QED
            BY <1>1, <2>5, <3>1, <3>2
    <2>6. \A e \in Editor : form'[e].op # "idle" => form[e].op # "idle" /\ Shown(form'[e]) = Shown(form[e])
        BY DEF Idle
    <2>7. \A y \in Item : \A row \in rows[y] : row.id \in Locks(k) => row \in rows'[y]
        BY <1>1 DEF Unlocked
    <2> QED
        BY <1>1, <2>3, <2>4, <2>5, <2>6, <2>7 DEF Untouched
<1> QED
    BY <1>4, <1>5, <1>6, EditStep

(* While no form is closed, none is wrong.                                  *)
LEMMA FormsStay ==
    ASSUME UNCHANGED form
    PROVE  Informed
BY DEF Informed, Idle

LEMMA OpenFormStep ==
    ASSUME ConfigInv, NEW e \in Editor, NEW x \in Item, OpenForm(e, x)
    PROVE  ConfigInv' /\ Informed /\ Whole
<1> DEFINE f == [op |-> IF In(x, "settings") THEN "put" ELSE "save", item |-> x, seen |-> rows[x], read |-> {}]
<1>1. /\ UNCHANGED <<rows, transfer, serial>> /\ Single(x) /\ form' = [form EXCEPT ![e] = f]
      /\ f.op # "save" => In(x, "settings")
    BY DEF OpenForm, counted, Single
<1>2. (form = [i \in Editor |-> form[i]])' /\ form'[e] = f /\ \A i \in Editor \ {e} : form'[i] = form[i]
    BY <1>1 DEF ConfigInv
<1>3. f.op \in {"put", "upsert", "save"} /\ f.item = x /\ f.seen = rows[x] /\ f.read = {} /\ Shown(f) = rows[x]
    BY DEF Shown
<1> HIDE DEF f
<1>4. FormOK(e)'
    <2>1. /\ rows[x] \subseteq Row /\ \A old, other \in rows[x] : old = other
          /\ \A row \in rows[x] : row.id <= serial /\ row.version \in Nat
        BY <1>1 DEF ConfigInv, RowsOK, Row
    <2>2. \A row, other \in rows[x] : row.version <= other.version
        <3>1. \A row, other \in rows[x] : row = other /\ row.version \in Nat
            BY <2>1
        <3> QED
            BY <3>1
    <2> QED
        BY <1>1, <1>2, <1>3, <2>1, <2>2 DEF FormOK, Single, In
<1>5. \A i \in Editor \ {e} : FormOK(i)'
    BY <1>1, <1>2 DEF ConfigInv, FormOK, Single, In
<1> QED
    BY <1>1, <1>2, <1>3, <1>4, <1>5, FormStep

LEMMA ReadSettingStep ==
    ASSUME ConfigInv, NEW e \in Editor, NEW secret \in BOOLEAN, ReadSetting(e, secret)
    PROVE  ConfigInv' /\ Informed /\ Whole
<1>0. PICK x \in Item : x = form[e].item /\ Single(x) /\ In(x, "settings")
    BY DEF ReadSetting, ConfigInv, FormOK
<1> DEFINE g == form[e]
           f == [op |-> "upsert", item |-> x, seen |-> g.seen, read |-> rows[x], secret |-> secret]
<1>1. /\ UNCHANGED <<rows, transfer, serial>> /\ Single(x) /\ In(x, "settings") /\ g.op = "put"
      /\ \/ form' = [form EXCEPT ![e] = Idle]
         \/ form' = [form EXCEPT ![e] = f] /\ \A row \in rows[x], old \in g.seen : old.version = row.version
    BY <1>0 DEF ReadSetting, Outdated, counted
<1>2. /\ (form = [i \in Editor |-> form[i]])' /\ \A i \in Editor \ {e} : form'[i] = form[i]
      /\ \/ form'[e] = Idle
         \/ form'[e] = f /\ \A row \in rows[x], old \in g.seen : old.version = row.version
    BY <1>1 DEF ConfigInv
<1>3. /\ f.op \in {"put", "upsert", "save"} /\ f.item = x /\ f.seen = g.seen /\ f.read = rows[x]
      /\ \A old \in Shown(f) : old \in Shown(g) \/ old \in rows[x]
      /\ Idle.op = "idle"
    BY DEF Idle, Shown
<1>4. FormOK(e)'
    <2>1. /\ rows[x] \subseteq Row /\ \A old, other \in rows[x] : old = other
          /\ \A row \in rows[x] : row.id <= serial /\ row.version \in Nat
        BY <1>1 DEF ConfigInv, RowsOK, Row
    <2>2. \A row, other \in rows[x] : row.version <= other.version
        <3>1. \A row, other \in rows[x] : row = other /\ row.version \in Nat
            BY <2>1
        <3> QED
            BY <3>1
    <2>3. CASE form'[e] = f /\ \A row \in rows[x], old \in g.seen : old.version = row.version
        <3>1. /\ Shown(g) \subseteq Row /\ \A old, other \in g.seen : old = other
              /\ \A old \in Shown(g) :
                   /\ old.id <= serial
                   /\ \A row \in rows[x] :
                        old.id = row.id => old.version <= row.version /\ (old.version = row.version => old = row)
            BY <1>0, <1>1 DEF ConfigInv, FormOK
        <3>2. /\ Shown(f) \subseteq Row
              /\ \A old \in Shown(f) :
                   /\ old.id <= serial
                   /\ \A row \in rows[x] :
                        old.id = row.id => old.version <= row.version /\ (old.version = row.version => old = row)
            BY <1>3, <2>1, <2>2, <3>1
        <3> HIDE DEF f
        <3> QED
            BY <1>1, <1>3, <2>1, <2>3, <3>1, <3>2 DEF FormOK, Single, In
    <2>4. CASE form'[e] = Idle
        BY <1>3, <2>4 DEF FormOK
    <2> QED
        BY <1>2, <2>3, <2>4
<1>5. \A i \in Editor \ {e} : FormOK(i)'
    BY <1>1, <1>2 DEF ConfigInv, FormOK, Single, In
<1>6. \A i \in Editor : form'[i].op # "idle" => \A old \in Shown(form'[i]) :
          (form[i].op # "idle" /\ old \in Shown(form[i])) \/ \E y \in Item : old \in rows[y]
    <2> HIDE DEF f
    <2> QED
        BY <1>1, <1>2, <1>3
<1> QED
    BY <1>1, <1>2, <1>4, <1>5, <1>6, FormStep

LEMMA InsertRow ==
    ASSUME ConfigInv, UNCHANGED transfer, NEW x \in Item, ~In(x, "roles"),
           NEW row \in Row, row.id = serial + 1, serial' = serial + 1, Replace(x, {}, {row}),
           row.class = "kept" => SectionOf[x] \in {"settings", "customFields"},
           Single(x) => rows[x] = {} /\ \A k \in InTx : \A w \in transfer[k].writes : w.item # x,
           (form = [e \in Editor |-> form[e]])',
           \A e \in Editor : form'[e] = form[e] \/ form'[e] = Idle
    PROVE  ConfigInv' /\ Whole
<1> DEFINE old == {}
           new == {row}
<1>1. old \subseteq rows[x] /\ \A base \in old : Unlocked(base.id)
    OBVIOUS
<1>2. new \subseteq Row /\ \A r, other \in new : r = other
    OBVIOUS
<1>3. Replace(x, old, new)
    OBVIOUS
<1>4. \A r \in new : r.class = "kept" => SectionOf[x] \in {"settings", "customFields"}
    OBVIOUS
<1>5. \A r \in new :
         \/ \E base \in old : base.id = r.id /\ (Single(x) => base.version < r.version)
         \/ /\ r.id = serial + 1 /\ serial' = serial + 1
            /\ Single(x) => rows[x] = {} /\ \A k \in InTx : \A w \in transfer[k].writes : w.item # x
    OBVIOUS
<1>6. serial' \in {serial, serial + 1}
    OBVIOUS
<1> HIDE DEF old, new
<1> QED
    BY <1>1, <1>2, <1>3, <1>4, <1>5, <1>6, ReplaceRows

LEMMA ChangeRow ==
    ASSUME ConfigInv, UNCHANGED <<transfer, serial>>, NEW x \in Item, ~In(x, "roles"),
           NEW base \in rows[x], Unlocked(base.id),
           NEW row \in Row, Replace(x, {base}, {row}),
           row.id = base.id, Single(x) => base.version < row.version,
           row.class = "kept" => SectionOf[x] \in {"settings", "customFields"},
           (form = [e \in Editor |-> form[e]])',
           \A e \in Editor : form'[e] = form[e] \/ form'[e] = Idle
    PROVE  ConfigInv' /\ Whole
<1> DEFINE old == {base}
           new == {row}
<1>1. old \subseteq rows[x] /\ \A r \in old : Unlocked(r.id)
    OBVIOUS
<1>2. new \subseteq Row /\ \A r, other \in new : r = other
    OBVIOUS
<1>3. Replace(x, old, new)
    OBVIOUS
<1>4. \A r \in new : r.class = "kept" => SectionOf[x] \in {"settings", "customFields"}
    OBVIOUS
<1>5. \A r \in new :
         \/ \E b \in old : b.id = r.id /\ (Single(x) => b.version < r.version)
         \/ /\ r.id = serial + 1 /\ serial' = serial + 1
            /\ Single(x) => rows[x] = {} /\ \A k \in InTx : \A w \in transfer[k].writes : w.item # x
    OBVIOUS
<1>6. serial' \in {serial, serial + 1}
    OBVIOUS
<1> HIDE DEF old, new
<1> QED
    BY <1>1, <1>2, <1>3, <1>4, <1>5, <1>6, ReplaceRows

LEMMA RemoveRow ==
    ASSUME ConfigInv, NEW x \in Item, ~In(x, "roles"), NEW base \in rows[x], Removed(x, base)
    PROVE  ConfigInv' /\ Informed /\ Whole
<1> DEFINE old == {base}
           new == {}
<1>1. old \subseteq rows[x] /\ \A r \in old : Unlocked(r.id)
    BY DEF Removed
<1>2. new \subseteq Row /\ \A r, other \in new : r = other
    OBVIOUS
<1>3. Replace(x, old, new) /\ UNCHANGED <<transfer, form, serial>>
    BY DEF Removed, Edit
<1>4. \A r \in new : r.class = "kept" => SectionOf[x] \in {"settings", "customFields"}
    OBVIOUS
<1>5. \A r \in new :
         \/ \E b \in old : b.id = r.id /\ (Single(x) => b.version < r.version)
         \/ /\ r.id = serial + 1 /\ serial' = serial + 1
            /\ Single(x) => rows[x] = {} /\ \A k \in InTx : \A w \in transfer[k].writes : w.item # x
    OBVIOUS
<1>6. serial' \in {serial, serial + 1}
    BY <1>3
<1>7. (form = [e \in Editor |-> form[e]])' /\ \A e \in Editor : form'[e] = form[e]
    BY <1>3 DEF ConfigInv
<1> HIDE DEF old, new
<1> QED
    BY <1>1, <1>2, <1>3, <1>4, <1>5, <1>6, <1>7, ReplaceRows, FormsStay

LEMMA Rewritten ==
    ASSUME NEW row \in Row, NEW value \in Value, NEW new, new = [row EXCEPT !.value = value, !.version = @ + 1]
    PROVE  new \in Row /\ new.id = row.id /\ row.version < new.version /\ new.class = row.class
<1> DEFINE next == row.version + 1
<1>1. new = [row EXCEPT !.value = value, !.version = next]
    OBVIOUS
<1>2. next \in Nat /\ row.version < next
    BY DEF Row
<1> HIDE DEF next
<1> QED
    BY <1>1, <1>2 DEF Row

(* A form that is closed because of an edit of row: what it showed is row,  *)
(* or a row that is gone.                                                   *)
LEMMA FormClosed ==
    ASSUME ConfigInv, NEW e \in Editor, form[e].op # "idle", form' = [form EXCEPT ![e] = Idle],
           \/ rows' = rows
           \/ rows[form[e].item] = {}
           \/ \E row \in rows[form[e].item] : Base(form[e]) # {} /\ \A old \in Base(form[e]) : old.version = row.version
    PROVE  /\ (form = [i \in Editor |-> form[i]])' /\ \A i \in Editor : form'[i] = form[i] \/ form'[i] = Idle
           /\ Informed
<1> DEFINE f == form[e]
<1>1. form'[e] = Idle /\ (form = [i \in Editor |-> form[i]])' /\ \A i \in Editor \ {e} : form'[i] = form[i]
    BY DEF ConfigInv
<1>2. /\ f.item \in Item
      /\ \A row, other \in rows[f.item] : row = other
      /\ \A old \in Base(f) : \A row \in rows[f.item] : old.id = row.id /\ old.version = row.version => old = row
    BY DEF ConfigInv, FormOK, RowsOK, Base, Shown
<1>3. ASSUME rows' # rows, NEW row \in rows[f.item]
      PROVE  row \in Base(f) \/ (Base(f) # {} /\ \A old \in Base(f) : old.id # row.id)
    BY <1>2, <1>3
<1>4. ASSUME NEW i \in Editor, form[i].op \in {"upsert", "save"}, form'[i] = Idle
      PROVE  i = e
    BY <1>1, <1>4 DEF Idle
<1> QED
    BY <1>1, <1>3, <1>4 DEF Informed

LEMMA WriteSettingStep ==
    ASSUME ConfigInv, NEW e \in Editor, NEW value \in Value, WriteSetting(e, value)
    PROVE  ConfigInv' /\ Informed /\ Whole
<1>1. PICK x \in Item, class \in {"open", "kept"} :
          /\ x = form[e].item /\ class = IF form[e].secret THEN "kept" ELSE "open"
    BY DEF WriteSetting, ConfigInv, FormOK
<1>2. /\ form[e].op = "upsert" /\ form[e].op # "idle" /\ form' = [form EXCEPT ![e] = Idle] /\ UNCHANGED transfer
      /\ \A row \in rows[x] : Unlocked(row.id)
      /\ \A k \in InTx : \A w \in transfer[k].writes : w.item # x
    BY <1>1 DEF WriteSetting, Edit
<1>3. Single(x) /\ In(x, "settings") /\ ~In(x, "roles")
    BY <1>1, <1>2 DEF ConfigInv, FormOK, In
<1>4. CASE rows[x] = {} /\ Replace(x, {}, {[Fresh(value) EXCEPT !.class = class]}) /\ serial' = serial + 1
    <2> DEFINE row == [id |-> serial + 1, value |-> value, version |-> 1, class |-> class]
    <2>1. [Fresh(value) EXCEPT !.class = class] = row
        BY DEF Fresh
    <2>2. row \in Row /\ row.id = serial + 1
        BY DEF Row, ConfigInv, RowsOK
    <2>3. Replace(x, {}, {row})
        BY <1>4, <2>1
    <2> HIDE DEF row
    <2>4. Informed /\ (form = [i \in Editor |-> form[i]])' /\ \A i \in Editor : form'[i] = form[i] \/ form'[i] = Idle
        BY <1>1, <1>2, <1>4, FormClosed
    <2>5. ConfigInv' /\ Whole
        BY <1>2, <1>3, <1>4, <2>2, <2>3, <2>4, InsertRow DEF In
    <2> QED
        BY <2>4, <2>5
<1>5. ASSUME NEW row \in rows[x], \E old \in form[e].read : old.version = row.version,
             Replace(x, {row}, {[row EXCEPT !.value = value, !.version = @ + 1, !.class = class]}),
             UNCHANGED serial
      PROVE  ConfigInv' /\ Informed /\ Whole
    <2> DEFINE new == [row EXCEPT !.value = value, !.version = @ + 1, !.class = class]
    <2>1. row \in Row
        BY DEF ConfigInv, RowsOK
    <2> HIDE DEF new
    <2>2. new \in Row /\ new.id = row.id /\ row.version < new.version
        <3> DEFINE next == row.version + 1
        <3>1. new = [row EXCEPT !.value = value, !.version = next, !.class = class]
            BY DEF new
        <3>2. next \in Nat /\ row.version < next
            BY <2>1 DEF Row
        <3> HIDE DEF next
        <3> QED
            BY <2>1, <3>1, <3>2 DEF Row
    <2>3. Informed /\ (form = [i \in Editor |-> form[i]])' /\ \A i \in Editor : form'[i] = form[i] \/ form'[i] = Idle
        <3>1. Base(form[e]) # {} /\ \A old \in Base(form[e]) : old.version = row.version
            BY <1>2, <1>5 DEF Base, ConfigInv, FormOK
        <3> QED
            BY <1>1, <1>2, <3>1, FormClosed
    <2>4. ConfigInv' /\ Whole
        <3>1. Replace(x, {row}, {new})
            BY <1>5 DEF new
        <3> QED
            BY <1>2, <1>3, <1>5, <2>2, <2>3, <3>1, ChangeRow DEF In
    <2> QED
        BY <2>3, <2>4
<1>6. CASE UNCHANGED <<rows, serial>>
    <2>1. Informed /\ (form = [i \in Editor |-> form[i]])' /\ \A i \in Editor : form'[i] = form[i] \/ form'[i] = Idle
        BY <1>2, <1>6, FormClosed
    <2>2. \A i \in Editor : FormOK(i)'
        BY <1>6, <2>1 DEF ConfigInv, FormOK, Idle, Single, In
    <2>3. \A i \in Editor : form'[i].op # "idle" => form'[i] = form[i]
        BY <2>1 DEF Idle
    <2> QED
        BY <1>2, <1>6, <2>1, <2>2, <2>3, FormStep
<1> QED
    BY <1>1, <1>4, <1>5, <1>6 DEF WriteSetting, Unchanged

LEMMA SaveHealthRuleStep ==
    ASSUME ConfigInv, NEW e \in Editor, NEW value \in Value, SaveHealthRule(e, value)
    PROVE  ConfigInv' /\ Informed /\ Whole
<1>1. PICK x \in Item : x = form[e].item /\ Single(x) /\ ~In(x, "roles")
    BY DEF SaveHealthRule, ConfigInv, FormOK, Single, In
<1>2. form[e].op # "idle" /\ form' = [form EXCEPT ![e] = Idle] /\ UNCHANGED <<transfer, serial>>
    BY DEF SaveHealthRule, Edit
<1>3. ASSUME NEW row \in rows[x], Unlocked(row.id), \E old \in form[e].seen : old.version = row.version,
             Replace(x, {row}, {[row EXCEPT !.value = value, !.version = @ + 1]})
      PROVE  ConfigInv' /\ Informed /\ Whole
    <2> DEFINE new == [row EXCEPT !.value = value, !.version = @ + 1]
    <2>1. row \in Row /\ (row.class = "kept" => SectionOf[x] \in {"settings", "customFields"})
        BY <1>1 DEF ConfigInv, RowsOK, In
    <2>2. new \in Row /\ new.id = row.id /\ row.version < new.version /\ new.class = row.class
        BY <2>1, Rewritten
    <2> HIDE DEF new
    <2>3. Informed /\ (form = [i \in Editor |-> form[i]])' /\ \A i \in Editor : form'[i] = form[i] \/ form'[i] = Idle
        <3>1. Base(form[e]) # {} /\ \A old \in Base(form[e]) : old.version = row.version
            BY <1>2, <1>3 DEF Base, ConfigInv, FormOK
        <3> QED
            BY <1>1, <1>2, <3>1, FormClosed
    <2>4. ConfigInv' /\ Whole
        <3>1. Replace(x, {row}, {new})
            BY <1>3 DEF new
        <3> QED
            BY <1>1, <1>2, <1>3, <2>1, <2>2, <2>3, <3>1, ChangeRow
    <2> QED
        BY <2>3, <2>4
<1>4. CASE UNCHANGED rows
    <2>1. Informed /\ (form = [i \in Editor |-> form[i]])' /\ \A i \in Editor : form'[i] = form[i] \/ form'[i] = Idle
        BY <1>2, <1>4, FormClosed
    <2>2. \A i \in Editor : FormOK(i)'
        BY <1>2, <1>4, <2>1 DEF ConfigInv, FormOK, Idle, Single, In
    <2>3. \A i \in Editor : form'[i].op # "idle" => form'[i] = form[i]
        BY <2>1 DEF Idle
    <2> QED
        BY <1>2, <1>4, <2>1, <2>2, <2>3, FormStep
<1> QED
    BY <1>1, <1>3, <1>4 DEF SaveHealthRule

LEMMA RemovalStep ==
    ASSUME ConfigInv, NEW x \in Item, NEW row \in rows[x],
           DeleteSetting(x, row) \/ DeleteCustomField(x, row) \/ DeletePipeline(x, row) \/ DeletePolicy(x, row)
    PROVE  ConfigInv' /\ Informed /\ Whole
<1>1. Removed(x, row) /\ ~In(x, "roles")
    BY DEF DeleteSetting, DeleteCustomField, DeletePipeline, DeletePolicy, In
<1> QED
    BY <1>1, RemoveRow

LEMMA FieldOrPolicyStep ==
    ASSUME ConfigInv, NEW x \in Item, NEW value \in Value,
           \/ InsertPolicy(x, value)
           \/ \E class \in {"open", "kept"} : CreateCustomField(x, value, class)
           \/ \E row \in rows[x] : UpdateCustomField(x, row, value)
    PROVE  ConfigInv' /\ Informed /\ Whole
<1>1. /\ UNCHANGED <<transfer, form>> /\ ~In(x, "roles") /\ ~Single(x) /\ serial \in Nat
      /\ (form = [e \in Editor |-> form[e]])'
    BY DEF InsertPolicy, CreateCustomField, UpdateCustomField, Edit, In, Single, ConfigInv, RowsOK
<1>2. CASE InsertPolicy(x, value)
    <2> DEFINE row == Fresh(value)
    <2>1. row \in Row /\ row.id = serial + 1 /\ row.class = "open" /\ row.class # "kept"
        BY <1>1 DEF Fresh, Row
    <2>2. Replace(x, {}, {row}) /\ serial' = serial + 1
        BY <1>2 DEF InsertPolicy
    <2> HIDE DEF row
    <2> QED
        BY <1>1, <2>1, <2>2, InsertRow, FormsStay
<1>3. ASSUME NEW class \in {"open", "kept"}, CreateCustomField(x, value, class)
      PROVE  ConfigInv' /\ Informed /\ Whole
    <2> DEFINE row == [Fresh(value) EXCEPT !.class = class]
    <2>1. row \in Row /\ row.id = serial + 1
        BY <1>1 DEF Fresh, Row
    <2>2. Replace(x, {}, {row}) /\ serial' = serial + 1 /\ SectionOf[x] \in {"settings", "customFields"}
        BY <1>3 DEF CreateCustomField, In
    <2> HIDE DEF row
    <2> QED
        BY <1>1, <2>1, <2>2, InsertRow, FormsStay
<1>4. ASSUME NEW base \in rows[x], UpdateCustomField(x, base, value)
      PROVE  ConfigInv' /\ Informed /\ Whole
    <2> DEFINE row == [base EXCEPT !.value = value]
    <2>1. row \in Row /\ row.id = base.id
        BY DEF Row, ConfigInv, RowsOK
    <2>2. /\ Replace(x, {base}, {row}) /\ UNCHANGED serial /\ Unlocked(base.id)
          /\ SectionOf[x] \in {"settings", "customFields"}
        BY <1>4 DEF UpdateCustomField, In
    <2> HIDE DEF row
    <2> QED
        BY <1>1, <2>1, <2>2, ChangeRow, FormsStay
<1> QED
    BY <1>2, <1>3, <1>4

(* A new pipeline changes the default flag of others too, never what an     *)
(* import has written.                                                      *)
LEMMA CreatePipelineStep ==
    ASSUME ConfigInv, NEW x \in Item, NEW value \in Value, CreatePipeline(x, value)
    PROVE  ConfigInv' /\ Informed /\ Whole
<1> DEFINE ends(y, row) == value = Default /\ In(y, "pipelines") /\ row.value = Default
           Was(y, new, row) == new = IF ends(y, row) THEN [row EXCEPT !.value = Plain] ELSE row
<1>1. /\ UNCHANGED <<transfer, form>> /\ In(x, "pipelines") /\ serial' = serial + 1
      /\ \A y \in Item : \A row \in rows[y] : ends(y, row) => Unlocked(row.id)
      /\ rows' = [y \in Item |->
            {IF ends(y, row) THEN [row EXCEPT !.value = Plain] ELSE row : row \in rows[y]}
            \cup (IF y = x THEN {Fresh(value)} ELSE {})]
    BY DEF CreatePipeline, Edit
<1>2. /\ serial \in Nat /\ serial' \in Nat /\ serial <= serial' /\ rows \in [Item -> SUBSET Row]
      /\ \A y \in Item : \A row \in rows[y] : row \in Row /\ row.id \in Nat /\ row.id <= serial /\ row.id # serial + 1
    BY <1>1 DEF ConfigInv, RowsOK, Row
<1>3. Plain \in Value
    BY ConfigurationAssumption
<1>4. Fresh(value) \in Row /\ Fresh(value).id = serial + 1 /\ Fresh(value).class = "open"
    BY <1>2 DEF Fresh, Row
<1>5. ASSUME NEW y \in Item, NEW new \in rows'[y]
      PROVE  \/ y = x /\ new = Fresh(value)
             \/ \E row \in rows[y] : Was(y, new, row)
    BY <1>1, <1>5
<1>6. ASSUME NEW y \in Item, NEW row \in rows[y], NEW new, Was(y, new, row)
      PROVE  new \in Row /\ new.id = row.id /\ new.class = row.class /\ (~In(y, "pipelines") => new = row)
    <2>1. row \in Row
        BY <1>2
    <2>2. CASE ends(y, row)
        <3>1. new = [row EXCEPT !.value = Plain]
            BY <1>6, <2>2
        <3> QED
            BY <1>3, <2>1, <2>2, <3>1 DEF Row
    <2>3. CASE ~ends(y, row)
        BY <1>6, <2>1, <2>3
    <2> QED
        BY <2>2, <2>3
<1>7. ASSUME NEW y \in Item, ~In(y, "pipelines")
      PROVE  rows'[y] = rows[y]
    <2>1. y # x
        BY <1>1, <1>7
    <2>2. rows'[y] = {IF ends(y, row) THEN [row EXCEPT !.value = Plain] ELSE row : row \in rows[y]}
        BY <1>1, <2>1
    <2>3. \A row \in rows[y] : (IF ends(y, row) THEN [row EXCEPT !.value = Plain] ELSE row) = row
        BY <1>7
    <2> HIDE DEF ends
    <2> QED
        BY <2>2, <2>3
<1> HIDE DEF ends
<1>8. ASSUME NEW y \in Item, NEW new \in rows'[y]
      PROVE  /\ new \in Row /\ new.id \in Nat /\ new.id <= serial'
             /\ \/ y = x /\ new = Fresh(value) /\ new.id = serial + 1
                \/ \E row \in rows[y] : Was(y, new, row) /\ new.id = row.id /\ new.class = row.class
    <2>1. CASE y = x /\ new = Fresh(value)
        BY <1>1, <1>2, <1>4, <2>1
    <2>2. ASSUME NEW row \in rows[y], Was(y, new, row)
          PROVE  /\ new \in Row /\ new.id \in Nat /\ new.id <= serial'
                 /\ new.id = row.id /\ new.class = row.class
        <3>1. new \in Row /\ new.id = row.id /\ new.class = row.class
            BY <1>6, <2>2
        <3>2. row.id \in Nat /\ row.id <= serial
            BY <1>2
        <3> QED
            BY <1>2, <3>1, <3>2
    <2> HIDE DEF Was
    <2> QED
        BY <1>5, <1>8, <2>1, <2>2
<1>9. RowsOK'
    <2>1. rows' \in [Item -> SUBSET Row]
        BY <1>1, <1>8
    <2>2. ASSUME NEW y \in Item, NEW new \in rows'[y], new.class = "kept"
          PROVE  SectionOf[y] \in {"settings", "roles", "customFields"}
        <3>1. new # Fresh(value)
            BY <1>4, <2>2
        <3>2. \E row \in rows[y] : row.class = "kept"
            BY <1>8, <2>2, <3>1
        <3> QED
            BY <3>2 DEF ConfigInv, RowsOK
    <2>3. ASSUME NEW y \in Item, NEW z \in Item, NEW new \in rows'[y], NEW other \in rows'[z], new.id = other.id
          PROVE  y = z /\ new = other
        <3>1. CASE new.id = serial + 1
            <4>1. \A u \in Item : \A row \in rows'[u] : row.id = serial + 1 => u = x /\ row = Fresh(value)
                BY <1>2, <1>8
            <4> QED
                BY <2>3, <3>1, <4>1
        <3>2. CASE new.id # serial + 1
            <4>1. PICK row \in rows[y] : Was(y, new, row) /\ new.id = row.id
                BY <1>8, <3>2
            <4>2. PICK base \in rows[z] : Was(z, other, base) /\ other.id = base.id
                BY <1>8, <2>3, <3>2
            <4>3. y = z /\ row = base
                BY <2>3, <4>1, <4>2 DEF ConfigInv, RowsOK
            <4> QED
                BY <4>1, <4>2, <4>3
        <3> QED
            BY <3>1, <3>2
    <2>4. \A y \in Item : Single(y) => rows'[y] = rows[y]
        BY <1>7 DEF Single, In
    <2> QED
        BY <1>2, <1>8, <2>1, <2>2, <2>3, <2>4 DEF RowsOK, ConfigInv, Single, In
<1>10. ASSUME NEW e \in Editor
       PROVE  FormOK(e)'
    <2> SUFFICES ASSUME form[e].op # "idle"
                 PROVE  FormOK(e)'
        BY <1>1 DEF FormOK
    <2>1. form[e].item \in Item /\ Single(form[e].item)
        BY DEF ConfigInv, FormOK
    <2>2. rows'[form[e].item] = rows[form[e].item]
        BY <1>7, <2>1 DEF Single, In
    <2>3. \A old \in Shown(form[e]) : old.id \in Nat /\ old.id <= serial'
        <3>1. \A old \in Shown(form[e]) : old.id \in Nat /\ old.id <= serial
            BY DEF ConfigInv, FormOK, Row
        <3> QED
            BY <1>2, <3>1
    <2> QED
        BY <1>1, <2>2, <2>3 DEF ConfigInv, FormOK, Single, In
<1>11. ASSUME NEW k \in InTx
       PROVE  Untouched(k)
    <2>1. TxRecord(transfer[k]) /\ WritesOK(transfer[k])
        BY DEF InTx, ConfigInv, TransferOK, Idle
    <2>2. \A id \in Ids(k) : id \in Locks(k) /\ id # serial + 1
        BY <1>2, <2>1 DEF Ids, Locks, TxRecord, WritesOK, Row
    <2>3. ASSUME NEW y \in Item, NEW row \in rows[y], row.id \in Ids(k)
          PROVE  ~ends(y, row)
        BY <1>1, <2>2, <2>3 DEF Unlocked
    <2>4. ASSUME NEW y \in Item, NEW row \in rows[y], row.id \in Ids(k)
          PROVE  row \in rows'[y]
        BY <1>1, <2>3, <2>4
    <2>5. ASSUME NEW y \in Item, NEW new \in rows'[y], new.id \in Ids(k)
          PROVE  new \in rows[y]
        <3>1. PICK row \in rows[y] : Was(y, new, row) /\ new.id = row.id
            BY <1>8, <2>2, <2>5
        <3> QED
            BY <2>3, <2>5, <3>1
    <2>6. \A w \in transfer[k].writes : w.item \in Item
        BY <2>1 DEF TxRecord
    <2>7. \A w \in transfer[k].writes : Single(w.item) /\ rows[w.item] = {} => rows'[w.item] = {}
        BY <1>7, <2>6 DEF Single, In
    <2>8. \A y \in Item : In(y, "roles") => rows'[y] = rows[y]
        BY <1>7 DEF In
    <2>9. \A y \in Item : In(y, "settings") => rows'[y] = rows[y]
        BY <1>7 DEF In
    <2> QED
        BY <1>1, <1>2, <2>4, <2>5, <2>7, <2>8, <2>9 DEF Untouched
<1>12. (form = [e \in Editor |-> form[e]])'
    BY <1>1 DEF ConfigInv
<1> QED
    BY <1>1, <1>9, <1>10, <1>11, <1>12, EditStep, FormsStay

-----------------------------------------------------------------------------
LEMMA ConfigInitInv == ConfigInit => ConfigInv
<1> SUFFICES ASSUME ConfigInit
             PROVE  ConfigInv
    OBVIOUS
<1> DEFINE ids == {row.id : row \in UNION {rows[x] : x \in Item}} \cup {0}
<1>1. rows \in [Item -> SUBSET Row] /\ Keyed(rows) /\ serial = Max(ids)
    BY ConfigurationAssumption DEF ConfigInit
<1>2. \A id \in ids : id \in Nat
    BY <1>1 DEF Row
<1>3. \E last \in ids : \A id \in ids : id <= last
    BY <1>1 DEF Keyed
<1>4. \A x \in Item : \A row \in rows[x] : row.id \in ids
    OBVIOUS
<1> HIDE DEF ids
<1>5. serial \in ids /\ \A id \in ids : serial >= id
    <2>1. \E last \in ids : \A id \in ids : last >= id
        BY <1>2, <1>3
    <2> QED
        BY <1>1, <2>1 DEF Max
<1>6. serial \in Nat /\ \A x \in Item : \A row \in rows[x] : row.id <= serial
    BY <1>2, <1>4, <1>5
<1>7. RowsOK
    BY <1>1, <1>6 DEF RowsOK, Keyed, Single
<1>8. form = [e \in Editor |-> form[e]] /\ \A e \in Editor : FormOK(e)
    BY DEF ConfigInit, FormOK, Idle
<1>9. transfer = [k \in Client |-> transfer[k]] /\ \A k \in Client : transfer[k] = Idle
    BY DEF ConfigInit
<1> QED
    BY <1>7, <1>8, <1>9 DEF ConfigInv, TransferOK, Apart, InTx, Idle

LEMMA AdministerStep ==
    ASSUME ConfigInv, Administer
    PROVE  ConfigInv' /\ Informed /\ Whole
<1>1. CASE \E e \in Editor, x \in Item : OpenForm(e, x)
    BY <1>1, OpenFormStep
<1>2. CASE \E e \in Editor : \E secret \in BOOLEAN : ReadSetting(e, secret)
    BY <1>2, ReadSettingStep
<1>3. CASE \E e \in Editor, value \in Value : WriteSetting(e, value) \/ SaveHealthRule(e, value)
    BY <1>3, WriteSettingStep, SaveHealthRuleStep
<1>4. CASE \E x \in Item : \E row \in rows[x] :
               DeleteSetting(x, row) \/ DeleteCustomField(x, row) \/ DeletePipeline(x, row) \/ DeletePolicy(x, row)
    BY <1>4, RemovalStep
<1>5. CASE \E x \in Item, value \in Value :
             \/ InsertPolicy(x, value)
             \/ \E class \in {"open", "kept"} : CreateCustomField(x, value, class)
             \/ \E row \in rows[x] : UpdateCustomField(x, row, value)
    BY <1>5, FieldOrPolicyStep
<1>6. CASE \E x \in Item, value \in Value : CreatePipeline(x, value)
    BY <1>6, CreatePipelineStep
<1>7. CASE \E o \in Org : DeleteOrganization(o) \/ CreateOrganization(o)
    <2>1. UNCHANGED <<rows, transfer, form, serial>>
        BY <1>7 DEF DeleteOrganization, CreateOrganization, Edit
    <2> QED
        BY <2>1, StillStep
<1> QED
    BY <1>1, <1>2, <1>3, <1>4, <1>5, <1>6, <1>7 DEF Administer

LEMMA ConfigNextStep ==
    ASSUME ConfigInv, [ConfigNext]_configVars
    PROVE  ConfigInv' /\ Informed /\ Whole
<1>1. ASSUME NEW k \in Client, NEW task \in Task, BeginTransfer(k, task)
      PROVE  ConfigInv' /\ Informed /\ Whole
    <2> DEFINE q == [op |-> "read", task |-> task, next |-> 1, twice |-> FALSE]
    <2>1. UNCHANGED <<rows, form, serial>> /\ Await(k, q)
        BY <1>1 DEF BeginTransfer
    <2>2. q.op = "read" /\ ReadRecord(q)
        BY DEF ReadRecord
    <2> HIDE DEF q
    <2> QED
        BY <2>1, <2>2, ReadStep
<1>2. ASSUME NEW k \in Client, Proceed(k)
      PROVE  ConfigInv' /\ Informed /\ Whole
    BY <1>2, ReadingStep, CompareStep, FindStep, WriteStep, CommitStep DEF Proceed
<1>3. ASSUME NEW k \in Client, Fail(k)
      PROVE  ConfigInv' /\ Informed /\ Whole
    BY <1>3, EndStep DEF Fail, Answered
<1>4. CASE UNCHANGED configVars
    BY <1>4, StillStep DEF configVars
<1> QED
    BY <1>1, <1>2, <1>3, <1>4, AdministerStep DEF ConfigNext

(* The inductive invariant: a transaction's pending writes replace rows     *)
(* that stay as it saw them, or are rows nobody else knows.                 *)
THEOREM ConfigInvariance == ConfigSpec => []ConfigInv
<1>1. ConfigInit => ConfigInv
    BY ConfigInitInv
<1>2. ConfigInv /\ [ConfigNext]_configVars => ConfigInv'
    BY ConfigNextStep
<1> QED
    BY <1>1, <1>2, PTL DEF ConfigSpec

(* Put and SaveHealthRule: whatever imports and other administrators do in  *)
(* between, a form replaces the row it showed, or one of another id made    *)
(* anew since; a form that showed no row is held to what Put itself read.   *)
THEOREM FormsSeeEdits == ConfigSpec => EditsSeen
<1>1. ConfigInv /\ [ConfigNext]_configVars => [Informed]_configVars
    BY ConfigNextStep
<1> QED
    BY <1>1, ConfigInvariance, PTL DEF ConfigSpec, EditsSeen, Informed

(* importConfigurationBundle: a commit makes every item what the bundle     *)
(* says and keeps every other row, and of the protected rows it replaces    *)
(* only a secret that was inserted after its SELECT had found none;         *)
(* anything else changes nothing.                                           *)
THEOREM ImportsAreWhole == ConfigSpec => ImportsWholeAndKeeps
<1>1. ConfigInv /\ [ConfigNext]_configVars => [Whole]_configVars
    BY ConfigNextStep
<1> QED
    BY <1>1, ConfigInvariance, PTL DEF ConfigSpec, ImportsWholeAndKeeps, Whole

-----------------------------------------------------------------------------
(* Mail: deliveries and the renewal digest                                  *)

USE MailAssumption

LogStatus == {"none", "queued", "sent", "failed"}

LEMMA Slots == Digest \in Slot /\ Delivery \subseteq Slot
BY DEF Slot

(* The values a slot and the pass start from are values of their types.     *)
LEMMA IdleTypes ==
    IdleJob \in Job /\ IdleTick \in Tick /\ Nothing \in Notification
<1>1. Nothing \in Notification
    BY DEF Nothing, Notification, Event
<1> QED
    BY <1>1 DEF IdleJob, IdleTick, Job, Tick

LEMMA MailInitInv == MailInit => MailInv
<1> SUFFICES ASSUME MailInit PROVE MailInv
    OBVIOUS
<1>1. MailTypeOK
    BY IdleTypes DEF MailInit, MailTypeOK, Config, Account
<1>2. OutcomesAreTrue
    BY DEF MailInit, OutcomesAreTrue, IdleJob
<1>3. DigestIsTrue /\ LedgerMeansTold
    BY DEF MailInit, DigestIsTrue, LedgerMeansTold, IdleTick
<1> QED
    BY <1>1, <1>2, <1>3 DEF MailInv

(* What a step of one slot has to establish.                                *)
LEMMA SlotStep ==
    ASSUME NEW d \in Slot, NEW j \in Job, NEW status \in LogStatus, NEW k \in 0..2,
           NEW told \in SUBSET (User \X Fact), MailInv,
           job' = [job EXCEPT ![d] = j], log' = [log EXCEPT ![d] = status],
           relay' = [relay EXCEPT ![d] = k], inbox' = inbox \cup told,
           UNCHANGED <<config, account, window, started, ledger, aged, tick>>,
           faults' \in 0..MaxFaults, changes' \in 0..MaxChanges,
           j.at = "dispatch" => j.attempts = 0 /\ k = 0,
           j.at = "send" => j.attempts < 2 /\ k <= j.attempts,
           j.sent \/ status = "sent" => k > 0,
           d = Digest /\ tick.at = "wait" =>
               /\ j.at # "idle" => j.note = job[d].note /\ job[d].at # "idle"
               /\ j.sent => job[d].sent \/ (job[d].at # "idle" /\ told = Told(job[d].note))
    PROVE  MailInv'
<1>1. job \in [Slot -> Job] /\ log \in [Slot -> LogStatus] /\ relay \in [Slot -> 0..2]
    BY DEF MailInv, MailTypeOK, LogStatus
<1>2. /\ job' \in [Slot -> Job] /\ log' \in [Slot -> LogStatus] /\ relay' \in [Slot -> 0..2]
      /\ inbox' \subseteq User \X Fact
    BY <1>1 DEF MailInv, MailTypeOK
<1>3. MailTypeOK'
    BY <1>2 DEF MailInv, MailTypeOK, LogStatus
<1>4. /\ job'[d] = j /\ log'[d] = status /\ relay'[d] = k
      /\ \A s \in Slot \ {d} : job'[s] = job[s] /\ log'[s] = log[s] /\ relay'[s] = relay[s]
    BY <1>1
<1>5. OutcomesAreTrue'
    BY <1>4 DEF MailInv, OutcomesAreTrue
<1>6. LedgerMeansTold'
    BY DEF MailInv, LedgerMeansTold
<1>7. DigestIsTrue'
  <2>1. CASE d # Digest
    BY <1>4, <2>1, Slots DEF MailInv, DigestIsTrue, OwnersToldOf
  <2>2. CASE d = Digest /\ tick.at # "wait"
    BY <2>2 DEF MailInv, DigestIsTrue, OwnersToldOf
  <2>3. CASE d = Digest /\ tick.at = "wait"
    <3>1. j.at # "idle" => /\ j.note.facts = tick.noticed
                           /\ \A c \in tick.noticed : Owner[c] = j.note.to
        BY <2>3 DEF MailInv, DigestIsTrue
    <3>2. j.sent => \A c \in tick.noticed : <<Owner[c], c>> \in inbox'
        BY <2>3 DEF MailInv, DigestIsTrue, OwnersToldOf, Told
    <3> QED
        BY <1>4, <2>3, <3>1, <3>2 DEF DigestIsTrue, OwnersToldOf
  <2> QED
    BY <2>1, <2>2, <2>3
<1> QED
    BY <1>3, <1>5, <1>6, <1>7 DEF MailInv

LEMMA SlotTypes ==
    ASSUME MailInv, NEW d \in Slot
    PROVE  /\ job[d] \in Job /\ log[d] \in LogStatus /\ relay[d] \in 0..2
           /\ job = [job EXCEPT ![d] = job[d]] /\ log = [log EXCEPT ![d] = log[d]]
           /\ relay = [relay EXCEPT ![d] = relay[d]]
           /\ job[d].at = "dispatch" => job[d].attempts = 0 /\ relay[d] = 0
           /\ job[d].at = "send" => job[d].attempts < 2 /\ relay[d] <= job[d].attempts
           /\ job[d].sent \/ log[d] = "sent" => relay[d] > 0
           /\ faults \in 0..MaxFaults /\ changes \in 0..MaxChanges
BY DEF MailInv, MailTypeOK, OutcomesAreTrue, LogStatus

LEMMA BoundsStep ==
    ASSUME MailInv, Fault \/ UNCHANGED bounds
    PROVE  faults' \in 0..MaxFaults /\ changes' \in 0..MaxChanges
<1>1. faults \in 0..MaxFaults /\ changes \in 0..MaxChanges
    BY DEF MailInv, MailTypeOK
<1> QED
    BY <1>1 DEF Fault, bounds

(* Only the settings, the accounts, the calendar and people move.           *)
LEMMA AroundStep ==
    ASSUME MailInv, Around
    PROVE  MailInv'
<1>1. UNCHANGED <<job, log, relay, inbox, tick, ledger>>
    BY DEF Around, Configure, ChangeAccount, EnterWindow, GrowOld, UpdateContractRenewal,
           renewals, sending
<1>2. OutcomesAreTrue' /\ DigestIsTrue' /\ LedgerMeansTold'
    BY <1>1 DEF MailInv, OutcomesAreTrue, DigestIsTrue, OwnersToldOf, LedgerMeansTold
<1>3. faults' \in 0..MaxFaults /\ changes' \in 0..MaxChanges
    BY DEF MailInv, MailTypeOK, Around, Configure, ChangeAccount, EnterWindow, GrowOld,
           UpdateContractRenewal, Change, bounds
<1>4. config' \in Config /\ account' \in [User -> Account]
    BY DEF MailInv, MailTypeOK, Around, Configure, ChangeAccount, EnterWindow, GrowOld,
           UpdateContractRenewal, settings
<1>5. window' \subseteq Contract /\ started' \subseteq Contract /\ aged' \subseteq Contract
    BY DEF MailInv, MailTypeOK, Around, Configure, ChangeAccount, EnterWindow, GrowOld,
           UpdateContractRenewal, renewals
<1>6. MailTypeOK'
    BY <1>1, <1>3, <1>4, <1>5 DEF MailInv, MailTypeOK
<1> QED
    BY <1>2, <1>6 DEF MailInv

(* A message that starts in a background slot claims nothing yet.           *)
LEMMA StartStep ==
    ASSUME NEW d \in Delivery, NEW note \in Notification, MailInv, Start(d, note),
           UNCHANGED <<settings, renewals, tick, bounds>>
    PROVE  MailInv'
<1> DEFINE j == [IdleJob EXCEPT !.at = "dispatch", !.note = note]
<1>1. j \in Job /\ j.at = "dispatch" /\ j.attempts = 0 /\ ~j.sent
    BY IdleTypes DEF IdleJob, Job
<1>2. /\ job' = [job EXCEPT ![d] = j] /\ log' = [log EXCEPT ![d] = "none"]
      /\ relay' = [relay EXCEPT ![d] = 0] /\ inbox' = inbox \cup {}
    BY DEF Start
<1>3. UNCHANGED <<config, account, window, started, ledger, aged, tick, faults, changes>>
    BY DEF settings, renewals, bounds
<1>4. d \in Slot /\ d # Digest
    BY Slots
<1>5. "none" \in LogStatus /\ 0 \in 0..2
    BY DEF LogStatus
<1> HIDE DEF j
<1> QED
    BY <1>1, <1>2, <1>3, <1>4, <1>5, SlotStep, SlotTypes

LEMMA DispatchStep ==
    ASSUME NEW d \in Slot, MailInv, Dispatch(d)
    PROVE  MailInv'
<1> DEFINE ended == [IdleJob EXCEPT !.sent = FALSE]
           after(step) == [job[d] EXCEPT !.at = step]
<1>1. /\ ended \in Job /\ ended.at = "idle" /\ ~ended.sent
    BY IdleTypes DEF IdleJob, Job
<1>2. \A step \in {"send", "complete"} :
        /\ after(step) \in Job /\ after(step).at = step /\ after(step).note = job[d].note
        /\ after(step).attempts = job[d].attempts /\ after(step).sent = job[d].sent
    BY SlotTypes DEF Job
<1>3. job[d].at = "dispatch" /\ relay[d] = 0 /\ ~job[d].sent /\ log[d] # "sent" /\ job[d].attempts = 0
    BY SlotTypes DEF Dispatch, Job
<1>4. /\ UNCHANGED <<config, account, window, started, ledger, aged, tick>>
      /\ relay' = [relay EXCEPT ![d] = relay[d]] /\ inbox' = inbox \cup {}
  <2>1. UNCHANGED <<config, account, window, started, ledger, aged, tick, relay, inbox>>
    BY DEF Dispatch, settings, renewals
  <2> QED
    BY <2>1, SlotTypes
<1>10. faults' \in 0..MaxFaults /\ changes' \in 0..MaxChanges
  <2>1. Fault \/ UNCHANGED bounds
    BY DEF Dispatch
  <2> QED
    BY <2>1, BoundsStep
<1>5. \E status \in {log[d], "queued"} : log' = [log EXCEPT ![d] = status]
    BY SlotTypes DEF Dispatch
<1>6. \E j \in {ended, after("send"), after("complete")} : job' = [job EXCEPT ![d] = j]
    BY DEF Dispatch, Finish
<1> HIDE DEF ended, after
<1>7. PICK status \in {log[d], "queued"} : log' = [log EXCEPT ![d] = status]
    BY <1>5
<1>8. PICK j \in {ended, after("send"), after("complete")} : job' = [job EXCEPT ![d] = j]
    BY <1>6
<1>9. status \in LogStatus /\ status # "sent" /\ j \in Job /\ ~j.sent /\ j.at # "dispatch"
      /\ (j.at = "send" => j.attempts = 0) /\ (j.at # "idle" => j.note = job[d].note)
    BY <1>1, <1>2, <1>3, <1>7, <1>8, SlotTypes DEF LogStatus
<1> QED
  <2>1. relay[d] \in 0..2 /\ {} \in SUBSET (User \X Fact)
    BY SlotTypes
  <2>2. d = Digest /\ tick.at = "wait" =>
           /\ j.at # "idle" => j.note = job[d].note /\ job[d].at # "idle"
           /\ j.sent => job[d].sent \/ (job[d].at # "idle" /\ {} = Told(job[d].note))
    BY <1>3, <1>9
  <2>3. /\ j.at = "dispatch" => j.attempts = 0 /\ relay[d] = 0
        /\ j.at = "send" => j.attempts < 2 /\ relay[d] <= j.attempts
        /\ j.sent \/ status = "sent" => relay[d] > 0
    BY <1>3, <1>9
  <2> QED
    BY <1>4, <1>7, <1>8, <1>9, <1>10, <2>1, <2>2, <2>3, SlotStep

(* One attempt: at most the second, and sent only if the relay took it.     *)
LEMMA DeliverStep ==
    ASSUME NEW d \in Slot, MailInv, Deliver(d)
    PROVE  MailInv'
<1> DEFINE n == job[d].attempts + 1
           again == n = 1 /\ job[d].note.event # "test"
           done == [job[d] EXCEPT !.at = "complete", !.attempts = n, !.sent = TRUE]
           failed == [job[d] EXCEPT !.at = IF again THEN "send" ELSE "complete", !.attempts = n]
           told == Told(job[d].note)
<1>1. /\ job[d] \in Job /\ job[d].at = "send" /\ job[d].attempts \in 0..1
      /\ relay[d] \in 0..2 /\ relay[d] <= job[d].attempts
      /\ log[d] \in LogStatus /\ (job[d].sent \/ log[d] = "sent" => relay[d] > 0)
    BY SlotTypes DEF Deliver, Job
<1>2. n \in 1..2 /\ (again => n = 1) /\ relay[d] + 1 \in 1..n /\ relay[d] <= n
    BY <1>1
<1>3. /\ done \in Job /\ done.at = "complete" /\ done.note = job[d].note
  <2> HIDE DEF n
  <2>1. n \in 0..2
    BY <1>2
  <2> QED
    BY <1>1, <2>1 DEF Job
<1>4. /\ failed \in Job /\ failed.at \in {"send", "complete"} /\ failed.note = job[d].note
      /\ failed.attempts = n /\ failed.sent = job[d].sent /\ (failed.at = "send" => n = 1)
  <2>1. n \in 0..2 /\ (again => n = 1)
    BY <1>2
  <2> HIDE DEF n, again
  <2> QED
    BY <1>1, <2>1 DEF Job
<1>5. told \in SUBSET (User \X Fact)
    BY <1>1 DEF Told, Job, Notification
<1>6. /\ UNCHANGED <<config, account, window, started, ledger, aged, tick, log>>
      /\ log' = [log EXCEPT ![d] = log[d]]
  <2>1. UNCHANGED <<config, account, window, started, ledger, aged, tick, log>>
    BY DEF Deliver, settings, renewals
  <2> QED
    BY <2>1, SlotTypes
<1>7. faults' \in 0..MaxFaults /\ changes' \in 0..MaxChanges
  <2>1. Fault \/ UNCHANGED bounds
    BY DEF Deliver
  <2> QED
    BY <2>1, BoundsStep
<1>8. \/ /\ relay' = [relay EXCEPT ![d] = @ + 1] /\ inbox' = inbox \cup told
         /\ job' = [job EXCEPT ![d] = done] \/ job' = [job EXCEPT ![d] = failed]
      \/ /\ UNCHANGED <<relay, inbox>> /\ job' = [job EXCEPT ![d] = failed]
  <2>1. job \in [Slot -> Job]
    BY DEF MailInv, MailTypeOK
  <2> QED
    BY <2>1 DEF Deliver
<1>9. relay' = [relay EXCEPT ![d] = @ + 1] => relay' = [relay EXCEPT ![d] = relay[d] + 1]
    BY SlotTypes DEF MailInv, MailTypeOK
<1>10. UNCHANGED <<relay, inbox>> => relay' = [relay EXCEPT ![d] = relay[d]] /\ inbox' = inbox \cup {}
    BY SlotTypes
<1> HIDE DEF done, failed, told, n, again
<1>11. CASE relay' = [relay EXCEPT ![d] = relay[d] + 1] /\ inbox' = inbox \cup told
            /\ job' = [job EXCEPT ![d] = done]
  <2>1. /\ relay[d] + 1 \in 0..2 /\ (done.sent \/ log[d] = "sent" => relay[d] + 1 > 0)
        /\ (d = Digest /\ tick.at = "wait" =>
              /\ done.at # "idle" => done.note = job[d].note /\ job[d].at # "idle"
              /\ done.sent => job[d].sent \/ (job[d].at # "idle" /\ told = Told(job[d].note)))
    BY <1>1, <1>2, <1>3 DEF told
  <2> QED
    BY <1>1, <1>3, <1>5, <1>6, <1>7, <1>11, <2>1, SlotStep
<1>12. CASE relay' = [relay EXCEPT ![d] = relay[d] + 1] /\ inbox' = inbox \cup told
            /\ job' = [job EXCEPT ![d] = failed]
  <2>1. /\ relay[d] + 1 \in 0..2 /\ (failed.sent \/ log[d] = "sent" => relay[d] + 1 > 0)
        /\ (failed.at = "send" => failed.attempts < 2 /\ relay[d] + 1 <= failed.attempts)
        /\ (d = Digest /\ tick.at = "wait" =>
              /\ failed.at # "idle" => failed.note = job[d].note /\ job[d].at # "idle"
              /\ failed.sent => job[d].sent \/ (job[d].at # "idle" /\ told = Told(job[d].note)))
    BY <1>1, <1>2, <1>4
  <2> QED
    BY <1>1, <1>4, <1>5, <1>6, <1>7, <1>12, <2>1, SlotStep
<1>13. CASE relay' = [relay EXCEPT ![d] = relay[d]] /\ inbox' = inbox \cup {}
            /\ job' = [job EXCEPT ![d] = failed]
  <2>1. /\ (failed.sent \/ log[d] = "sent" => relay[d] > 0)
        /\ (failed.at = "send" => failed.attempts < 2 /\ relay[d] <= failed.attempts)
        /\ (d = Digest /\ tick.at = "wait" =>
              /\ failed.at # "idle" => failed.note = job[d].note /\ job[d].at # "idle"
              /\ failed.sent => job[d].sent \/ (job[d].at # "idle" /\ {} = Told(job[d].note)))
    BY <1>1, <1>2, <1>4
  <2> QED
    BY <1>1, <1>4, <1>6, <1>7, <1>13, <2>1, SlotStep, {} \in SUBSET (User \X Fact)
<1> QED
    BY <1>8, <1>9, <1>10, <1>11, <1>12, <1>13

(* The outcome is kept, and goes into the row or not.                       *)
LEMMA CompleteStep ==
    ASSUME NEW d \in Slot, MailInv, Complete(d)
    PROVE  MailInv'
<1> DEFINE ended == [IdleJob EXCEPT !.sent = job[d].sent]
           outcome == IF log[d] = "none" THEN log[d] ELSE IF job[d].sent THEN "sent" ELSE "failed"
<1>1. /\ ended \in Job /\ ended.at = "idle" /\ ended.sent = job[d].sent
    BY SlotTypes, IdleTypes DEF IdleJob, Job
<1>2. /\ UNCHANGED <<config, account, window, started, ledger, aged, tick>>
      /\ relay' = [relay EXCEPT ![d] = relay[d]] /\ inbox' = inbox \cup {}
  <2>1. UNCHANGED <<config, account, window, started, ledger, aged, tick, relay, inbox>>
    BY DEF Complete, settings, renewals
  <2> QED
    BY <2>1, SlotTypes
<1>3. faults' \in 0..MaxFaults /\ changes' \in 0..MaxChanges
  <2>1. Fault \/ UNCHANGED bounds
    BY DEF Complete
  <2> QED
    BY <2>1, BoundsStep
<1>4. job' = [job EXCEPT ![d] = ended]
    BY DEF Complete, Finish
<1>5. \E status \in {log[d], outcome} : log' = [log EXCEPT ![d] = status]
    BY SlotTypes DEF Complete, MailInv, MailTypeOK
<1>6. outcome \in LogStatus /\ (outcome = "sent" => job[d].sent)
    BY SlotTypes DEF LogStatus
<1> HIDE DEF ended, outcome
<1>7. PICK status \in {log[d], outcome} : log' = [log EXCEPT ![d] = status]
    BY <1>5
<1>8. /\ status \in LogStatus /\ relay[d] \in 0..2 /\ (ended.sent \/ status = "sent" => relay[d] > 0)
      /\ (d = Digest /\ tick.at = "wait" =>
            /\ ended.at # "idle" => ended.note = job[d].note /\ job[d].at # "idle"
            /\ ended.sent => job[d].sent \/ (job[d].at # "idle" /\ {} = Told(job[d].note)))
    BY <1>1, <1>6, <1>7, SlotTypes
<1> QED
    BY <1>1, <1>2, <1>3, <1>4, <1>7, <1>8, SlotStep, {} \in SUBSET (User \X Fact)

-----------------------------------------------------------------------------
(* The renewal digest                                                       *)

(* What a step of the pass alone, with the ledger, has to establish.        *)
LEMMA TickStep ==
    ASSUME MailInv, tick' \in Tick, ledger' \subseteq Contract, aged' \subseteq Contract,
           UNCHANGED <<config, account, window, started, job, log, relay, inbox>>,
           Fault \/ UNCHANGED bounds, tick'.at # "wait",
           tick'.at = "ledger" => OwnersToldOf(tick'.noticed), OwnersToldOf(ledger')
    PROVE  MailInv'
<1>1. faults' \in 0..MaxFaults /\ changes' \in 0..MaxChanges
    BY BoundsStep
<1>2. MailTypeOK'
    BY <1>1 DEF MailInv, MailTypeOK
<1>3. OutcomesAreTrue'
    BY DEF MailInv, OutcomesAreTrue
<1>4. DigestIsTrue' /\ LedgerMeansTold'
    BY DEF DigestIsTrue, LedgerMeansTold, OwnersToldOf
<1> QED
    BY <1>2, <1>3, <1>4 DEF MailInv

(* A pruned notice leaves the ledger and the record of who was told.        *)
LEMMA BeginRenewalsStep ==
    ASSUME MailInv, BeginRenewals
    PROVE  MailInv'
<1> DEFINE left == First(Due(ledger'))
           next == [IdleTick EXCEPT !.at = IF left = {} THEN "idle" ELSE "next", !.left = left]
<1>1. /\ tick' = next
      /\ UNCHANGED <<config, account, window, started, job, log, relay>>
    BY DEF BeginRenewals, settings
<1>8. PICK pruned : Prune(pruned)
    BY DEF BeginRenewals
<1>9. faults' \in 0..MaxFaults /\ changes' \in 0..MaxChanges
  <2>1. Fault \/ UNCHANGED bounds
    BY DEF BeginRenewals
  <2> QED
    BY <2>1, BoundsStep
<1>2. left \subseteq Contract
    BY DEF First, Due, MailInv, MailTypeOK
<1>3. next \in Tick /\ next.at \in {"idle", "next"}
  <2> HIDE DEF left
  <2> QED
    BY <1>2 DEF IdleTick, Tick
<1> HIDE DEF next
<1>4. MailTypeOK'
    BY <1>1, <1>3, <1>8, <1>9 DEF MailInv, MailTypeOK, Prune
<1>5. OutcomesAreTrue'
    BY <1>1 DEF MailInv, OutcomesAreTrue
<1>6. DigestIsTrue'
    BY <1>1, <1>3 DEF DigestIsTrue
<1>7. LedgerMeansTold'
    BY <1>8 DEF MailInv, LedgerMeansTold, Prune
<1> QED
    BY <1>4, <1>5, <1>6, <1>7 DEF MailInv

(* The message is about the contracts the pass will record, for one owner.  *)
LEMMA NextOwnerStep ==
    ASSUME MailInv, NextOwner
    PROVE  MailInv'
<1>1. PICK c \in tick.left :
        LET mine == {x \in tick.left : Owner[x] = Owner[c]} IN
        /\ Start(Digest, ContractsDueForRenewal(mine, Owner[c]))
        /\ tick' = [tick EXCEPT !.at = "wait", !.left = @ \ mine, !.noticed = mine]
    BY DEF NextOwner
<1> DEFINE mine == {x \in tick.left : Owner[x] = Owner[c]}
           note == ContractsDueForRenewal(mine, Owner[c])
           j == [IdleJob EXCEPT !.at = "dispatch", !.note = note]
<1>2. tick \in Tick /\ tick.left \subseteq Contract /\ c \in Contract
    BY DEF MailInv, MailTypeOK, Tick
<1>3. note \in Notification /\ note.facts = mine /\ note.to = Owner[c]
    BY <1>2 DEF ContractsDueForRenewal, Notification, Event, Fact
<1>4. j \in Job /\ j.at = "dispatch" /\ j.attempts = 0 /\ ~j.sent /\ j.note = note
  <2> HIDE DEF note
  <2> QED
    BY <1>3, IdleTypes DEF IdleJob, Job
<1>5. /\ tick' \in Tick /\ tick'.at = "wait" /\ tick'.noticed = mine
    BY <1>1, <1>2 DEF Tick
<1>6. /\ job' = [job EXCEPT ![Digest] = j] /\ log' = [log EXCEPT ![Digest] = "none"]
      /\ relay' = [relay EXCEPT ![Digest] = 0] /\ inbox' = inbox
    BY <1>1 DEF Start
<1>7. UNCHANGED <<config, account, window, started, ledger, aged, faults, changes>>
    BY DEF NextOwner, settings, renewals, bounds
<1> HIDE DEF j, note
<1>8. job \in [Slot -> Job] /\ log \in [Slot -> LogStatus] /\ relay \in [Slot -> 0..2]
    BY DEF MailInv, MailTypeOK, LogStatus
<1>9. job' \in [Slot -> Job] /\ log' \in [Slot -> LogStatus] /\ relay' \in [Slot -> 0..2]
  <2>1. "none" \in LogStatus /\ 0 \in 0..2 /\ j \in Job
    BY <1>4 DEF LogStatus
  <2> QED
    BY <1>6, <1>8, <2>1
<1>10. /\ job'[Digest] = j /\ log'[Digest] = "none" /\ relay'[Digest] = 0
       /\ \A s \in Slot \ {Digest} : job'[s] = job[s] /\ log'[s] = log[s] /\ relay'[s] = relay[s]
    BY <1>6, <1>8, Slots
<1>11. MailTypeOK'
    BY <1>5, <1>6, <1>7, <1>9 DEF MailInv, MailTypeOK, LogStatus
<1>12. OutcomesAreTrue'
    BY <1>4, <1>10 DEF MailInv, OutcomesAreTrue
<1>13. DigestIsTrue'
    BY <1>3, <1>4, <1>5, <1>10 DEF DigestIsTrue
<1>14. LedgerMeansTold'
    BY <1>6, <1>7 DEF MailInv, LedgerMeansTold
<1> QED
    BY <1>11, <1>12, <1>13, <1>14 DEF MailInv

LEMMA AfterDispatchStep ==
    ASSUME MailInv, AfterDispatch
    PROVE  MailInv'
<1>1. UNCHANGED <<config, account, window, started, ledger, aged, job, log, relay, inbox, bounds>>
    BY DEF AfterDispatch, settings, renewals, sending
<1>2. tick \in Tick /\ ledger \subseteq Contract /\ aged \subseteq Contract
    BY DEF MailInv, MailTypeOK
<1>3. /\ tick' \in Tick /\ tick'.at # "wait"
      /\ tick'.at = "ledger" => job[Digest].sent /\ tick'.noticed = tick.noticed
    BY <1>2 DEF AfterDispatch, Tick
<1>4. tick'.at = "ledger" => OwnersToldOf(tick'.noticed)
    BY <1>3 DEF AfterDispatch, MailInv, DigestIsTrue
<1>5. OwnersToldOf(ledger')
    BY <1>1 DEF MailInv, LedgerMeansTold, OwnersToldOf
<1> QED
    BY <1>1, <1>2, <1>3, <1>4, <1>5, TickStep

(* An INSERT adds a contract whose owner was told.                          *)
LEMMA RecordNoticeStep ==
    ASSUME MailInv, NEW c \in Contract, RecordNotice(c)
    PROVE  MailInv'
<1>1. /\ UNCHANGED <<config, account, window, started, aged, job, log, relay, inbox>>
      /\ Fault \/ UNCHANGED bounds
    BY DEF RecordNotice, settings, sending
<1>2. tick \in Tick /\ ledger \subseteq Contract /\ aged \subseteq Contract
    BY DEF MailInv, MailTypeOK
<1>3. tick.at = "ledger" /\ c \in tick.noticed /\ OwnersToldOf(tick.noticed)
    BY DEF RecordNotice, MailInv, DigestIsTrue
<1>4. ledger' \in {ledger, ledger \cup {c}}
    BY DEF RecordNotice
<1>5. ledger' \subseteq Contract /\ OwnersToldOf(ledger')
    BY <1>2, <1>3, <1>4 DEF MailInv, LedgerMeansTold, OwnersToldOf
<1>6. /\ tick' \in Tick /\ tick'.at # "wait"
      /\ tick'.noticed \subseteq tick.noticed
  <2>1. CASE tick' = IdleTick
    BY <2>1, IdleTypes DEF IdleTick
  <2>2. CASE tick' # IdleTick
    <3> DEFINE rest == tick.noticed \ {c}
               at == IF rest # {} THEN "ledger" ELSE IF tick.left = {} THEN "idle" ELSE "next"
    <3>1. tick' = [tick EXCEPT !.noticed = rest, !.at = at]
        BY <2>2 DEF RecordNotice
    <3>2. rest \subseteq Contract /\ rest \subseteq tick.noticed
        BY <1>2 DEF Tick
    <3>3. at \in {"idle", "next", "ledger"}
        OBVIOUS
    <3> HIDE DEF rest, at
    <3> QED
        BY <1>2, <3>1, <3>2, <3>3 DEF Tick
  <2> QED
    BY <2>1, <2>2
<1>7. OwnersToldOf(tick'.noticed)
    BY <1>3, <1>6 DEF OwnersToldOf
<1> QED
    BY <1>1, <1>2, <1>5, <1>6, <1>7, TickStep

-----------------------------------------------------------------------------
LEMMA MailCrashStep ==
    ASSUME MailInv, MailCrash
    PROVE  MailInv'
<1>1. /\ UNCHANGED <<config, account, window, started, ledger, aged, log, relay, inbox>>
      /\ job' = [d \in Slot |-> IdleJob] /\ tick' = IdleTick
    BY DEF MailCrash, settings, renewals
<1>2. faults' \in 0..MaxFaults /\ changes' \in 0..MaxChanges
    BY BoundsStep DEF MailCrash
<1>3. MailTypeOK'
    BY <1>1, <1>2, IdleTypes DEF MailInv, MailTypeOK
<1>4. OutcomesAreTrue'
    BY <1>1 DEF MailInv, OutcomesAreTrue, IdleJob
<1>5. DigestIsTrue' /\ LedgerMeansTold'
    BY <1>1 DEF MailInv, DigestIsTrue, LedgerMeansTold, IdleTick
<1> QED
    BY <1>3, <1>4, <1>5 DEF MailInv

LEMMA SendNowStep ==
    ASSUME MailInv, NEW d \in Delivery, NEW u \in Admin, SendNow(d, u)
    PROVE  MailInv'
<1>1. TestMessage(u) \in Notification
    BY DEF TestMessage, Notification, Event
<1> QED
    BY <1>1, StartStep DEF SendNow

LEMMA MailNextStep ==
    ASSUME MailInv, MailNext \/ MailCrash
    PROVE  MailInv'
<1>1. CASE Around
    BY <1>1, AroundStep
<1>2. CASE Renewing
    BY <1>2, BeginRenewalsStep, NextOwnerStep, AfterDispatchStep, RecordNoticeStep DEF Renewing
<1>3. CASE \E d \in Slot : Delivering(d)
    BY <1>3, DispatchStep, DeliverStep, CompleteStep DEF Delivering
<1>4. CASE \E d \in Delivery, u \in Admin : SendNow(d, u)
    BY <1>4, SendNowStep
<1>5. CASE MailCrash
    BY <1>5, MailCrashStep
<1> QED
    BY <1>1, <1>2, <1>3, <1>4, <1>5 DEF MailNext

LEMMA MailStutter ==
    ASSUME MailInv, UNCHANGED mailVars
    PROVE  MailInv'
<1>1. UNCHANGED <<config, account, window, started, ledger, aged, job, log, relay, inbox,
                  tick, faults, changes>>
    BY DEF mailVars, settings, renewals, sending, bounds
<1>2. MailTypeOK' /\ OutcomesAreTrue'
    BY <1>1 DEF MailInv, MailTypeOK, OutcomesAreTrue
<1>3. DigestIsTrue' /\ LedgerMeansTold'
    BY <1>1 DEF MailInv, DigestIsTrue, OwnersToldOf, LedgerMeansTold
<1> QED
    BY <1>2, <1>3 DEF MailInv

(* The inductive invariant: outcomes called sent were taken by the relay,   *)
(* and the pass writes the ledger only for owners a message reached.        *)
THEOREM MailInvariant == MailSpec => []MailInv
<1>1. MailInit => MailInv
    BY MailInitInv
<1>2. MailInv /\ [MailNext \/ MailCrash]_mailVars => MailInv'
    BY MailNextStep, MailStutter
<1> QED
    BY <1>1, <1>2, PTL DEF MailSpec

(* No row, goroutine or step of the pass leaves its type: in particular a   *)
(* message is never attempted a third time.                                 *)
THEOREM MailTypeCorrect == MailSpec => []MailTypeOK
<1>1. MailInv => MailTypeOK
    BY DEF MailInv
<1> QED
    BY <1>1, MailInvariant, PTL

(* deliver and complete: a row says sent only if the relay took the message. *)
THEOREM SentIsAccepted == MailSpec => []SentMeansAccepted
<1>1. MailInv => SentMeansAccepted
    BY DEF MailInv, OutcomesAreTrue, SentMeansAccepted
<1> QED
    BY <1>1, MailInvariant, PTL

(* NotifyRenewals: the ledger holds only contracts their owner was told of. *)
THEOREM LedgerIsTold == MailSpec => []LedgerMeansTold
<1>1. MailInv => LedgerMeansTold
    BY DEF MailInv
<1> QED
    BY <1>1, MailInvariant, PTL

-----------------------------------------------------------------------------
(* No contract is announced twice                                           *)

(* The digest's slot works for the pass, which waits for it; background     *)
(* messages are not about contracts.                                        *)
DigestInPass ==
    /\ job[Digest].at # "idle" => tick.at = "wait"
    /\ \A d \in Slot : job[d].at \in {"dispatch", "send"} => ~job[d].sent
    /\ \A d \in Delivery : job[d].note.facts \cap Contract = {}

(* The pass has only contracts that are not in the ledger.                  *)
Unnoticed ==
    /\ tick.left \cap ledger = {} /\ tick.noticed \cap ledger = {}
    /\ tick.left \cap tick.noticed = {}

(* Without a failure, who was told of a contract has it in the ledger, or   *)
(* the pass is about to put it there.                                       *)
Delivered == tick.at = "ledger" \/ (tick.at = "wait" /\ job[Digest].sent)

ToldAreNoticed ==
    faults = MaxFaults =>
        \A u \in User, c \in Contract :
            <<u, c>> \in inbox => c \in ledger \/ (Delivered /\ c \in tick.noticed)

NoticeInv == DigestInPass /\ Unnoticed /\ ToldAreNoticed

LEMMA FaultIsCounted == ASSUME MailInv, Fault PROVE faults' # MaxFaults
<1>1. faults \in 0..MaxFaults
    BY DEF MailInv, MailTypeOK
<1> QED
    BY <1>1 DEF Fault

LEMMA BoundsKept ==
    ASSUME MailInv, Fault \/ UNCHANGED bounds, faults' = MaxFaults
    PROVE  faults = MaxFaults /\ ~Fault
BY FaultIsCounted DEF bounds

LEMMA NoticeInit == MailInit => NoticeInv
<1> SUFFICES ASSUME MailInit PROVE NoticeInv
    OBVIOUS
<1>1. IdleJob.at = "idle" /\ IdleJob.note.facts = {}
    BY DEF IdleJob, Nothing
<1>2. DigestInPass
    BY <1>1, Slots DEF MailInit, DigestInPass
<1>3. Unnoticed /\ ToldAreNoticed
    BY DEF MailInit, Unnoticed, ToldAreNoticed, IdleTick
<1> QED
    BY <1>2, <1>3 DEF NoticeInv

(* What a step of one slot has to establish.                                *)
LEMMA NoticeSlotStep ==
    ASSUME NEW d \in Slot, NEW j \in Job, NEW told, MailInv, NoticeInv,
           job' = [job EXCEPT ![d] = j], inbox' = inbox \cup told, UNCHANGED <<tick, ledger>>,
           j.at # "idle" /\ d = Digest => job[d].at # "idle",
           j.at \in {"dispatch", "send"} => ~j.sent,
           d # Digest => j.note.facts \cap Contract = {} /\ told \cap (User \X Contract) = {},
           faults' = MaxFaults => faults = MaxFaults,
           d = Digest /\ faults' = MaxFaults =>
               /\ job[d].sent => j.sent
               /\ told = {} \/ (j.sent /\ job[d].at # "idle" /\ told = Told(job[d].note))
    PROVE  NoticeInv'
<1>1. job \in [Slot -> Job]
    BY DEF MailInv, MailTypeOK
<1>2. job'[d] = j /\ \A s \in Slot \ {d} : job'[s] = job[s]
    BY <1>1
<1>3. DigestInPass'
    BY <1>2, Slots DEF NoticeInv, DigestInPass
<1>4. Unnoticed'
    BY DEF NoticeInv, Unnoticed
<1>5. ToldAreNoticed'
  <2> SUFFICES ASSUME faults' = MaxFaults, NEW u \in User, NEW c \in Contract, <<u, c>> \in inbox'
               PROVE  c \in ledger \/ (Delivered' /\ c \in tick.noticed)
    BY DEF ToldAreNoticed
  <2>1. CASE d # Digest
    <3>1. <<u, c>> \in inbox
        BY <2>1
    <3>2. job'[Digest] = job[Digest]
        BY <1>2, <2>1, Slots
    <3> QED
        BY <3>1, <3>2 DEF NoticeInv, ToldAreNoticed, Delivered
  <2>2. CASE d = Digest
    <3>1. job[d].sent => j.sent
        BY <2>2
    <3>2. Delivered => Delivered'
        BY <1>2, <2>2, <3>1 DEF Delivered
    <3>3. CASE <<u, c>> \in inbox
        BY <3>2, <3>3 DEF NoticeInv, ToldAreNoticed
    <3>4. CASE <<u, c>> \in told
      <4>1. j.sent /\ job[d].at # "idle" /\ told = Told(job[d].note)
        BY <2>2, <3>4
      <4>2. tick.at = "wait"
        BY <2>2, <4>1 DEF NoticeInv, DigestInPass
      <4>3. job[d].note.facts = tick.noticed
        BY <2>2, <4>1, <4>2 DEF MailInv, DigestIsTrue
      <4>4. c \in tick.noticed
        BY <3>4, <4>1, <4>3 DEF Told
      <4> QED
        BY <1>2, <2>2, <4>1, <4>2, <4>4 DEF Delivered
    <3> QED
        BY <3>3, <3>4
  <2> QED
    BY <2>1, <2>2
<1> QED
    BY <1>3, <1>4, <1>5 DEF NoticeInv

(* Steps that leave the slots and the pass alone.                           *)
LEMMA NoticeQuiet ==
    ASSUME NoticeInv, UNCHANGED <<job, tick, ledger, inbox>>, faults' = faults
    PROVE  NoticeInv'
BY DEF NoticeInv, DigestInPass, Unnoticed, ToldAreNoticed, Delivered

LEMMA NoticeAround ==
    ASSUME NoticeInv, Around
    PROVE  NoticeInv'
<1>1. UNCHANGED <<job, tick, ledger, inbox, faults>>
    BY DEF Around, Configure, ChangeAccount, EnterWindow, GrowOld, UpdateContractRenewal,
           renewals, sending, Change, bounds
<1> QED
    BY <1>1, NoticeQuiet

LEMMA NoticeSendNow ==
    ASSUME MailInv, NoticeInv, NEW d \in Delivery, NEW u \in Admin, SendNow(d, u)
    PROVE  NoticeInv'
<1> DEFINE j == [IdleJob EXCEPT !.at = "dispatch", !.note = TestMessage(u)]
<1>1. TestMessage(u) \in Notification /\ TestMessage(u).facts = {}
    BY DEF TestMessage, Notification, Event
<1>2. j \in Job /\ j.at = "dispatch" /\ ~j.sent /\ j.note.facts = {}
    BY <1>1, IdleTypes DEF IdleJob, Job
<1>3. /\ job' = [job EXCEPT ![d] = j] /\ inbox' = inbox \cup {}
      /\ UNCHANGED <<tick, ledger, faults>>
    BY DEF SendNow, Start, renewals, bounds
<1>4. d \in Slot /\ d # Digest
    BY Slots
<1> HIDE DEF j
<1> QED
    BY <1>2, <1>3, <1>4, NoticeSlotStep

LEMMA NoticeDispatch ==
    ASSUME NEW d \in Slot, MailInv, NoticeInv, Dispatch(d)
    PROVE  NoticeInv'
<1> DEFINE idle == [IdleJob EXCEPT !.sent = FALSE]
           on == [job[d] EXCEPT !.at = IF config = "incomplete" THEN "complete" ELSE "send"]
<1>1. job[d] \in Job
    BY SlotTypes
<1>2. idle \in Job /\ idle.at = "idle" /\ ~idle.sent /\ idle.note.facts = {}
    BY IdleTypes DEF IdleJob, Job, Nothing
<1>3. /\ on \in Job /\ on.sent = job[d].sent /\ on.note = job[d].note
    BY <1>1 DEF Job
<1>4. job[d].at = "dispatch" /\ UNCHANGED <<tick, ledger>> /\ inbox' = inbox \cup {}
    BY DEF Dispatch, renewals
<1>5. ~job[d].sent
    BY <1>4 DEF NoticeInv, DigestInPass
<1>6. \E j \in {idle, on} : job' = [job EXCEPT ![d] = j]
    BY DEF Dispatch, Finish
<1>7. Fault \/ UNCHANGED bounds
    BY DEF Dispatch
<1>8. faults' = MaxFaults => faults = MaxFaults
    BY <1>7, BoundsKept
<1>9. d # Digest => job[d].note.facts \cap Contract = {}
    BY DEF NoticeInv, DigestInPass, Slot
<1> HIDE DEF idle, on
<1>10. CASE job' = [job EXCEPT ![d] = idle]
    BY <1>2, <1>4, <1>5, <1>8, <1>10, NoticeSlotStep
<1>11. CASE job' = [job EXCEPT ![d] = on]
    BY <1>3, <1>4, <1>5, <1>8, <1>9, <1>11, NoticeSlotStep
<1> QED
    BY <1>6, <1>10, <1>11

LEMMA NoticeComplete ==
    ASSUME NEW d \in Slot, MailInv, NoticeInv, Complete(d)
    PROVE  NoticeInv'
<1> DEFINE sent == job[d].sent
           j == [IdleJob EXCEPT !.sent = sent]
<1>1. sent \in BOOLEAN
    BY SlotTypes DEF Job
<1>2. job' = [job EXCEPT ![d] = j]
    BY DEF Complete, Finish
<1> HIDE DEF sent
<1>3. j \in Job /\ j.at = "idle" /\ j.sent = sent /\ j.note.facts = {}
    BY <1>1, IdleTypes DEF IdleJob, Job, Nothing
<1>4. UNCHANGED <<tick, ledger>> /\ inbox' = inbox \cup {}
    BY DEF Complete, renewals
<1>5. faults' = MaxFaults => faults = MaxFaults
    BY BoundsKept DEF Complete
<1> HIDE DEF j
<1> QED
    BY <1>2, <1>3, <1>4, <1>5, NoticeSlotStep DEF sent

LEMMA NoticeDeliver ==
    ASSUME NEW d \in Slot, MailInv, NoticeInv, Deliver(d)
    PROVE  NoticeInv'
<1> DEFINE n == job[d].attempts + 1
           at == IF n = 1 /\ job[d].note.event # "test" THEN "send" ELSE "complete"
           done == [job[d] EXCEPT !.at = "complete", !.attempts = n, !.sent = TRUE]
           failed == [job[d] EXCEPT !.at = at, !.attempts = n]
<1>1. job[d] \in Job /\ job[d].at = "send" /\ n \in 0..2
    BY SlotTypes DEF Deliver, Job
<1>2. ~job[d].sent
    BY <1>1 DEF NoticeInv, DigestInPass
<1>3. at \in {"send", "complete"}
    OBVIOUS
<1> HIDE DEF n, at
<1>4. /\ done \in Job /\ done.at = "complete" /\ done.sent = TRUE /\ done.note = job[d].note
      /\ failed \in Job /\ failed.sent = job[d].sent /\ failed.note = job[d].note
    BY <1>1, <1>3 DEF Job
<1>5. UNCHANGED <<tick, ledger>>
    BY DEF Deliver, renewals
<1>6. d # Digest => job[d].note.facts \cap Contract = {}
    BY DEF NoticeInv, DigestInPass, Slot
<1>7. d # Digest => Told(job[d].note) \cap (User \X Contract) = {}
    BY <1>6 DEF Told
<1>8. \/ job' = [job EXCEPT ![d] = done] /\ inbox' = inbox \cup Told(job[d].note) /\ UNCHANGED bounds
      \/ /\ job' = [job EXCEPT ![d] = failed] /\ Fault
         /\ inbox' = inbox \cup {} \/ inbox' = inbox \cup Told(job[d].note)
    BY DEF Deliver, n, at
<1> HIDE DEF done, failed
<1>9. CASE job' = [job EXCEPT ![d] = done] /\ inbox' = inbox \cup Told(job[d].note) /\ UNCHANGED bounds
  <2>1. faults' = faults
    BY <1>9 DEF bounds
  <2> QED
    BY <1>1, <1>4, <1>5, <1>6, <1>7, <1>9, <2>1, NoticeSlotStep
<1>10. CASE /\ job' = [job EXCEPT ![d] = failed] /\ Fault
            /\ inbox' = inbox \cup {} \/ inbox' = inbox \cup Told(job[d].note)
  <2>1. faults' # MaxFaults
    BY <1>10, FaultIsCounted
  <2>2. PICK told \in {{}, Told(job[d].note)} : inbox' = inbox \cup told
    BY <1>10
  <2>3. d # Digest => told \cap (User \X Contract) = {}
    BY <1>7, <2>2
  <2> QED
    BY <1>1, <1>2, <1>4, <1>5, <1>6, <1>10, <2>1, <2>2, <2>3, NoticeSlotStep
<1> QED
    BY <1>8, <1>9, <1>10

LEMMA NoticeBegin ==
    ASSUME MailInv, NoticeInv, BeginRenewals
    PROVE  NoticeInv'
<1> DEFINE left == First(Due(ledger'))
           next == [IdleTick EXCEPT !.at = IF left = {} THEN "idle" ELSE "next", !.left = left]
<1>1. tick' = next /\ UNCHANGED <<job, log, relay>> /\ tick.at = "idle"
    BY DEF BeginRenewals
<1>2. left \cap ledger' = {}
    BY DEF First, Due
<1> HIDE DEF left
<1>3. next.at \in {"idle", "next"} /\ next.left = left /\ next.noticed = {}
    BY DEF IdleTick
<1> HIDE DEF next
<1>4. job[Digest].at = "idle"
    BY <1>1 DEF NoticeInv, DigestInPass
<1>5. DigestInPass'
    BY <1>1, <1>4 DEF NoticeInv, DigestInPass
<1>6. Unnoticed'
    BY <1>1, <1>2, <1>3 DEF Unnoticed
<1>7. ToldAreNoticed'
  <2> SUFFICES ASSUME faults' = MaxFaults, NEW u \in User, NEW c \in Contract, <<u, c>> \in inbox'
               PROVE  c \in ledger'
    BY DEF ToldAreNoticed
  <2>1. faults = MaxFaults /\ ~Fault
    BY BoundsKept DEF BeginRenewals
  <2>2. PICK pruned : Prune(pruned)
    BY DEF BeginRenewals
  <2>3. <<u, c>> \in inbox /\ c \notin pruned
    BY <2>2 DEF Prune
  <2>4. c \in ledger
    BY <1>1, <2>1, <2>3 DEF NoticeInv, ToldAreNoticed, Delivered
  <2> QED
    BY <2>2, <2>3, <2>4 DEF Prune
<1> QED
    BY <1>5, <1>6, <1>7 DEF NoticeInv

LEMMA NoticeNextOwner ==
    ASSUME MailInv, NoticeInv, NextOwner
    PROVE  NoticeInv'
<1>1. PICK c \in tick.left :
        LET mine == {x \in tick.left : Owner[x] = Owner[c]} IN
        /\ Start(Digest, ContractsDueForRenewal(mine, Owner[c]))
        /\ tick' = [tick EXCEPT !.at = "wait", !.left = @ \ mine, !.noticed = mine]
    BY DEF NextOwner
<1> DEFINE mine == {x \in tick.left : Owner[x] = Owner[c]}
           j == [IdleJob EXCEPT !.at = "dispatch", !.note = ContractsDueForRenewal(mine, Owner[c])]
<1>2. tick \in Tick /\ job \in [Slot -> Job]
    BY DEF MailInv, MailTypeOK
<1>3. job' = [job EXCEPT ![Digest] = j] /\ inbox' = inbox /\ tick.at = "next"
      /\ UNCHANGED <<ledger, faults>>
    BY <1>1 DEF Start, NextOwner, renewals, bounds
<1>4. ~j.sent /\ j.at = "dispatch"
    BY DEF IdleJob
<1>5. mine \subseteq tick.left
    OBVIOUS
<1>6. tick' = [tick EXCEPT !.at = "wait", !.left = @ \ mine, !.noticed = mine]
    BY <1>1
<1> HIDE DEF j, mine
<1>7. tick'.at = "wait" /\ tick'.left = tick.left \ mine /\ tick'.noticed = mine
    BY <1>2, <1>6 DEF Tick
<1>8. job'[Digest] = j /\ \A s \in Slot \ {Digest} : job'[s] = job[s]
    BY <1>2, <1>3, Slots
<1>9. DigestInPass'
    BY <1>4, <1>7, <1>8, Slots DEF NoticeInv, DigestInPass
<1>10. Unnoticed'
    BY <1>3, <1>5, <1>7 DEF NoticeInv, Unnoticed
<1>11. ToldAreNoticed'
  <2>1. ~Delivered
    BY <1>3 DEF Delivered
  <2> QED
    BY <1>3, <2>1 DEF NoticeInv, ToldAreNoticed
<1> QED
    BY <1>9, <1>10, <1>11 DEF NoticeInv

LEMMA NoticeAfterDispatch ==
    ASSUME MailInv, NoticeInv, AfterDispatch
    PROVE  NoticeInv'
<1>1. UNCHANGED <<ledger, job, inbox, faults>> /\ tick.at = "wait" /\ job[Digest].at = "idle"
    BY DEF AfterDispatch, renewals, sending, bounds
<1>2. tick \in Tick
    BY DEF MailInv, MailTypeOK
<1>3. /\ tick'.left = tick.left
      /\ \/ job[Digest].sent /\ tick'.noticed = tick.noticed /\ tick'.at = "ledger"
         \/ ~job[Digest].sent /\ tick'.noticed = {}
    BY <1>2 DEF AfterDispatch, Tick
<1>4. DigestInPass'
    BY <1>1 DEF NoticeInv, DigestInPass
<1>5. Unnoticed'
    BY <1>1, <1>3 DEF NoticeInv, Unnoticed
<1>6. ToldAreNoticed'
    BY <1>1, <1>3 DEF NoticeInv, ToldAreNoticed, Delivered
<1> QED
    BY <1>4, <1>5, <1>6 DEF NoticeInv

LEMMA NoticeRecord ==
    ASSUME MailInv, NoticeInv, NEW c \in Contract, RecordNotice(c)
    PROVE  NoticeInv'
<1>1. UNCHANGED <<job, inbox>> /\ tick.at = "ledger" /\ c \in tick.noticed
    BY DEF RecordNotice, sending
<1>2. job[Digest].at = "idle"
    BY <1>1 DEF NoticeInv, DigestInPass
<1>3. DigestInPass'
    BY <1>1, <1>2 DEF NoticeInv, DigestInPass
<1>4. CASE ledger' = ledger \cup {c} /\ UNCHANGED bounds /\ tick' # IdleTick
  <2> DEFINE rest == tick.noticed \ {c}
             at == IF rest # {} THEN "ledger" ELSE IF tick.left = {} THEN "idle" ELSE "next"
  <2>1. tick' = [tick EXCEPT !.noticed = rest, !.at = at]
    BY <1>4 DEF RecordNotice
  <2>2. tick \in Tick
    BY DEF MailInv, MailTypeOK
  <2>3. rest # {} => at = "ledger"
    OBVIOUS
  <2>4. rest \subseteq tick.noticed /\ c \notin rest /\ \A x \in tick.noticed : x = c \/ x \in rest
    OBVIOUS
  <2> HIDE DEF rest, at
  <2>5. tick'.noticed = rest /\ tick'.left = tick.left /\ tick'.at = at
    BY <2>1, <2>2 DEF Tick
  <2>6. Unnoticed'
    BY <1>1, <1>4, <2>4, <2>5 DEF NoticeInv, Unnoticed
  <2>7. ToldAreNoticed'
    <3>1. faults' = faults
        BY <1>4 DEF bounds
    <3> SUFFICES ASSUME faults = MaxFaults, NEW u \in User, NEW x \in Contract, <<u, x>> \in inbox
                 PROVE  x \in ledger' \/ (Delivered' /\ x \in rest)
        BY <1>1, <2>5, <3>1 DEF ToldAreNoticed
    <3>2. x \in ledger \/ x \in tick.noticed
        BY DEF NoticeInv, ToldAreNoticed
    <3> QED
        BY <1>4, <2>3, <2>4, <2>5, <3>2 DEF Delivered
  <2> QED
    BY <1>3, <2>6, <2>7 DEF NoticeInv
<1>5. CASE Fault /\ tick' = IdleTick /\ UNCHANGED ledger
  <2>1. IdleTick.left = {} /\ IdleTick.noticed = {}
    BY DEF IdleTick
  <2>2. Unnoticed' /\ ToldAreNoticed'
    BY <1>5, <2>1, FaultIsCounted DEF Unnoticed, ToldAreNoticed
  <2> QED
    BY <1>3, <2>2 DEF NoticeInv
<1>6. CASE ledger' = ledger \cup {c} /\ UNCHANGED bounds /\ tick' = IdleTick
  <2>1. IdleTick.left = {} /\ IdleTick.noticed = {}
    BY DEF IdleTick
  <2>2. tick.noticed \ {c} = {}
    <3>1. tick' = [tick EXCEPT !.noticed = tick.noticed \ {c},
                     !.at = IF tick.noticed \ {c} # {} THEN "ledger" ELSE IF tick.left = {} THEN "idle" ELSE "next"]
          \/ Fault
        BY DEF RecordNotice
    <3>2. ~Fault
        BY <1>6 DEF Fault, bounds, MailInv, MailTypeOK
    <3>3. tick \in Tick
        BY DEF MailInv, MailTypeOK
    <3> QED
        BY <1>6, <2>1, <3>1, <3>2, <3>3 DEF Tick
  <2>3. Unnoticed'
    BY <1>6, <2>1 DEF Unnoticed
  <2>4. faults' = faults
    BY <1>6 DEF bounds
  <2>5. ToldAreNoticed'
    BY <1>1, <1>6, <2>2, <2>4 DEF NoticeInv, ToldAreNoticed
  <2> QED
    BY <1>3, <2>3, <2>5 DEF NoticeInv
<1> QED
    BY <1>4, <1>5, <1>6 DEF RecordNotice

LEMMA NoticeCrash ==
    ASSUME MailInv, MailCrash
    PROVE  NoticeInv'
<1>1. job' = [d \in Slot |-> IdleJob] /\ tick' = IdleTick /\ faults' # MaxFaults
    BY FaultIsCounted DEF MailCrash
<1>2. IdleJob.at = "idle" /\ IdleJob.note.facts = {} /\ IdleTick.left = {} /\ IdleTick.noticed = {}
    BY DEF IdleJob, Nothing, IdleTick
<1>3. \A d \in Slot : job'[d] = IdleJob
    BY <1>1
<1>4. DigestInPass'
    BY <1>2, <1>3, Slots DEF DigestInPass
<1>5. Unnoticed' /\ ToldAreNoticed'
    BY <1>1, <1>2 DEF Unnoticed, ToldAreNoticed
<1> QED
    BY <1>4, <1>5 DEF NoticeInv

LEMMA NoticeStep ==
    ASSUME MailInv, NoticeInv, [MailNext \/ MailCrash]_mailVars
    PROVE  NoticeInv'
<1>1. CASE Around
    BY <1>1, NoticeAround
<1>2. CASE Renewing
    BY <1>2, NoticeBegin, NoticeNextOwner, NoticeAfterDispatch, NoticeRecord DEF Renewing
<1>3. CASE \E d \in Slot : Delivering(d)
    BY <1>3, NoticeDispatch, NoticeDeliver, NoticeComplete DEF Delivering
<1>4. CASE \E d \in Delivery, u \in Admin : SendNow(d, u)
    BY <1>4, NoticeSendNow
<1>5. CASE MailCrash
    BY <1>5, NoticeCrash
<1>6. CASE UNCHANGED mailVars
    BY <1>6, NoticeQuiet DEF mailVars, sending, renewals, bounds
<1> QED
    BY <1>1, <1>2, <1>3, <1>4, <1>5, <1>6 DEF MailNext

(* Only an attempt to deliver the digest reaches the relay with it.         *)
LEMMA OnlyDeliveriesReachTheRelay ==
    ASSUME MailInv, [MailNext \/ MailCrash]_mailVars, relay'[Digest] > relay[Digest]
    PROVE  job[Digest].at = "send"
<1>1. relay \in [Slot -> 0..2] /\ relay[Digest] \in 0..2 /\ Digest \in Slot /\ Digest \notin Delivery
    BY Slots DEF MailInv, MailTypeOK
<1>2. relay'[Digest] # relay[Digest] /\ relay'[Digest] # 0
    BY <1>1
<1>3. ~Around /\ ~UNCHANGED mailVars /\ ~MailCrash
    BY <1>2 DEF Around, Configure, ChangeAccount, EnterWindow, GrowOld, UpdateContractRenewal, sending,
                mailVars, MailCrash
<1>4. ~BeginRenewals /\ ~AfterDispatch /\ ~\E c \in Contract : RecordNotice(c)
    BY <1>2 DEF BeginRenewals, AfterDispatch, RecordNotice, sending
<1>5. ~NextOwner
    BY <1>1, <1>2 DEF NextOwner, Start
<1>6. ~\E d \in Delivery, u \in Admin : SendNow(d, u)
    BY <1>1, <1>2 DEF SendNow, Start
<1>7. \A d \in Slot : ~Dispatch(d) /\ ~Complete(d)
    BY <1>2 DEF Dispatch, Complete
<1>8. PICK d \in Slot : Deliver(d)
    BY <1>3, <1>4, <1>5, <1>6, <1>7 DEF MailNext, Renewing, Delivering
<1>9. d = Digest
    BY <1>1, <1>2, <1>8 DEF Deliver
<1> QED
    BY <1>8, <1>9 DEF Deliver

(* NotifyRenewals: the relay never gets a digest about a contract that is   *)
(* in the ledger, and without a failure none about a contract its owner was *)
(* told of, however passes, renewals, accounts and settings interleave.     *)
THEOREM ContractsAreNoticedOnce == MailSpec => NoticedOnce
<1> DEFINE Once == relay'[Digest] > relay[Digest] =>
                     /\ job[Digest].note.facts \cap ledger = {}
                     /\ faults = MaxFaults => Told(job[Digest].note) \cap inbox = {}
<1>1. MailInv /\ NoticeInv /\ [MailNext \/ MailCrash]_mailVars => Once
  <2> SUFFICES ASSUME MailInv, NoticeInv, [MailNext \/ MailCrash]_mailVars, relay'[Digest] > relay[Digest]
               PROVE  /\ job[Digest].note.facts \cap ledger = {}
                      /\ faults = MaxFaults => Told(job[Digest].note) \cap inbox = {}
    OBVIOUS
  <2>1. job[Digest].at = "send"
    BY OnlyDeliveriesReachTheRelay
  <2>2. tick.at = "wait" /\ ~job[Digest].sent
    BY <2>1, Slots DEF NoticeInv, DigestInPass
  <2>3. job[Digest].note.facts = tick.noticed
    BY <2>1, <2>2 DEF MailInv, DigestIsTrue
  <2>4. tick.noticed \cap ledger = {}
    BY DEF NoticeInv, Unnoticed
  <2>5. tick.noticed \subseteq Contract /\ job[Digest].note.to \in User
    BY SlotTypes, Slots DEF MailInv, MailTypeOK, Tick, Job, Notification
  <2>6. ASSUME faults = MaxFaults
        PROVE  Told(job[Digest].note) \cap inbox = {}
    <3>1. \A u \in User, c \in Contract : <<u, c>> \in inbox => c \in ledger
        BY <2>2, <2>6 DEF NoticeInv, ToldAreNoticed, Delivered
    <3>2. \A c \in tick.noticed : <<job[Digest].note.to, c>> \notin inbox
        BY <2>4, <2>5, <3>1
    <3> QED
        BY <2>3, <3>2 DEF Told
  <2> QED
    BY <2>3, <2>4, <2>6
<1>2. MailInit => NoticeInv
    BY NoticeInit
<1>3. MailInv /\ NoticeInv /\ [MailNext \/ MailCrash]_mailVars => NoticeInv'
    BY NoticeStep
<1>4. MailSpec => []NoticeInv
    BY <1>2, <1>3, MailInvariant, PTL DEF MailSpec
<1> QED
    BY <1>1, <1>4, MailInvariant, PTL DEF MailSpec, NoticedOnce

-----------------------------------------------------------------------------
(* Approvals: requests, their decisions and their notices                   *)

(* What the proofs use of the assumptions.                                  *)
LEMMA Assumptions ==
    /\ MaxFaults \in Nat /\ MaxChanges \in Nat /\ Admin \subseteq User
    /\ Manager \in [User -> User \cup {NoUser}]
    /\ RoleMember \subseteq User /\ MayRequest \subseteq User /\ MayApprove \subseteq User
BY MailAssumption, ApprovalAssumption

LEMMA BlankTypes == BlankRequest \in RequestRow /\ IdleCall \in Call
<1> DEFINE u == CHOOSE u \in User : TRUE
           e == CHOOSE e \in Entity : TRUE
           p == CHOOSE p \in Policy : TRUE
           q == CHOOSE q \in Request : TRUE
<1>1. u \in User /\ e \in Entity /\ p \in Policy /\ q \in Request
  <2>1. u \in User
    BY MailAssumption
  <2>2. e \in Entity
    BY ApprovalAssumption
  <2>3. p \in Policy
    BY ApprovalAssumption
  <2>4. q \in Request
    BY ApprovalAssumption
  <2> QED
    BY <2>1, <2>2, <2>3, <2>4
<1> HIDE DEF u, e, p, q
<1>2. BlankRequest = [status |-> "none", version |-> 1, entity |-> e, policy |-> p,
                      requester |-> u, approver |-> u, step |-> "PENDING", history |-> {}]
    BY DEF BlankRequest, u, e, p
<1>3. IdleCall = [at |-> "idle", user |-> u, entity |-> e, policy |-> p, approver |-> u,
                  method |-> "MANAGER", request |-> q, decision |-> "APPROVED", version |-> 0]
    BY DEF IdleCall, u, e, p, q
<1>4. BlankRequest \in RequestRow
    BY <1>1, <1>2 DEF RequestRow, Decision
<1>5. IdleCall \in Call
    BY <1>1, <1>3 DEF Call, Decision
<1> QED
    BY <1>4, <1>5

LEMMA InitInv == Init => ApprovalInv
<1> SUFFICES ASSUME Init PROVE ApprovalInv
    OBVIOUS
<1>1. MailInv
    BY MailInitInv DEF Init
<1>2. RowTypes
    BY BlankTypes DEF Init, RowTypes, PolicyRow
<1>3. Existing = {}
    BY DEF Init, Existing, BlankRequest
<1>4. DecidedOnce /\ PolicyOutlivesRequests
    BY <1>3 DEF DecidedOnce, PolicyOutlivesRequests
<1>5. DecidersAreEntitled
    BY DEF Init, DecidersAreEntitled, IdleCall
<1>6. NotesAreTrue /\ NewsIsTrue
    BY DEF Init, MailInit, NotesAreTrue, NewsIsTrue, IdleJob
<1> QED
    BY <1>1, <1>2, <1>4, <1>5, <1>6 DEF ApprovalInv

(* A step that leaves requests and mail alone.                              *)
LEMMA QuietStep ==
    ASSUME ApprovalInv, request' = request, UNCHANGED <<settings, renewals, sending, tick>>,
           faults' \in 0..MaxFaults, changes' \in 0..MaxChanges,
           policy' \in [Policy -> PolicyRow], call' \in [Caller -> Call],
           \A p \in Policy : Exists(p) /\ (\E q \in Existing : request[q].policy = p) => Exists(p)',
           \A x \in Caller : call'[x].at = "decide" =>
               \/ call'[x] = call[x]
               \/ /\ call'[x].request \in Existing
                  /\ call'[x].user \in {request[call'[x].request].approver} \cup Admin
    PROVE  ApprovalInv'
<1>1. UNCHANGED <<config, account, window, started, ledger, aged, job, log, relay, inbox, tick>>
    BY DEF settings, renewals, sending
<1>2. MailInv'
  <2>1. MailTypeOK'
    BY <1>1 DEF ApprovalInv, MailInv, MailTypeOK
  <2>2. OutcomesAreTrue'
    BY <1>1 DEF ApprovalInv, MailInv, OutcomesAreTrue
  <2>3. DigestIsTrue' /\ LedgerMeansTold'
    BY <1>1 DEF ApprovalInv, MailInv, DigestIsTrue, OwnersToldOf, LedgerMeansTold
  <2> QED
    BY <2>1, <2>2, <2>3 DEF MailInv
<1>3. RowTypes'
    BY DEF ApprovalInv, RowTypes
<1>4. Existing' = Existing
    BY DEF Existing
<1>5. DecidedOnce'
    BY <1>4 DEF ApprovalInv, DecidedOnce
<1>6. DecidersAreEntitled'
    BY <1>4 DEF ApprovalInv, DecidersAreEntitled
<1>7. PolicyOutlivesRequests'
  <2>1. \A q \in Existing : request[q].policy \in Policy
    BY DEF ApprovalInv, RowTypes, RequestRow, Existing
  <2> QED
    BY <1>4, <2>1 DEF ApprovalInv, PolicyOutlivesRequests, Exists
<1>8. NotesAreTrue' /\ NewsIsTrue'
    BY <1>1 DEF ApprovalInv, NotesAreTrue, NewsIsTrue
<1> QED
    BY <1>2, <1>3, <1>5, <1>6, <1>7, <1>8 DEF ApprovalInv

LEMMA RowFacts ==
    ASSUME ApprovalInv
    PROVE  /\ policy \in [Policy -> PolicyRow] /\ request \in [Request -> RequestRow]
           /\ call \in [Caller -> Call]
           /\ faults \in 0..MaxFaults /\ changes \in 0..MaxChanges /\ MailInv
BY DEF ApprovalInv, RowTypes, MailInv, MailTypeOK

(* A step of one call that leaves policies, requests and mail alone.        *)
LEMMA CallStep ==
    ASSUME ApprovalInv, NEW x \in Caller, NEW c \in Call, call' = [call EXCEPT ![x] = c],
           UNCHANGED <<settings, renewals, sending, tick, policy, request>>,
           Fault \/ UNCHANGED bounds,
           c.at = "decide" => /\ c.request \in Existing
                              /\ c.user \in {request[c.request].approver} \cup Admin
    PROVE  ApprovalInv'
<1>1. faults' \in 0..MaxFaults /\ changes' \in 0..MaxChanges
    BY RowFacts, BoundsStep
<1>2. policy' \in [Policy -> PolicyRow] /\ call' \in [Caller -> Call]
    BY RowFacts
<1>3. \A y \in Caller : call'[y] = IF y = x THEN c ELSE call[y]
    BY RowFacts
<1>4. \A p \in Policy : Exists(p) => Exists(p)'
    BY DEF Exists
<1> QED
    BY <1>1, <1>2, <1>3, <1>4, QuietStep

-----------------------------------------------------------------------------
(* Policies                                                                 *)

LEMMA SavePolicyStep ==
    ASSUME ApprovalInv, NEW p \in Policy, SavePolicy(p)
    PROVE  ApprovalInv'
<1>1. PICK cond \in Condition \cup {Always}, method \in {"MANAGER", "ROLE"}, active \in BOOLEAN :
        policy' = [policy EXCEPT ![p] = [state |-> IF active THEN "active" ELSE "inactive",
                                         cond |-> cond, method |-> method]]
    BY DEF SavePolicy
<1> DEFINE row == [state |-> IF active THEN "active" ELSE "inactive", cond |-> cond, method |-> method]
<1>2. row \in PolicyRow /\ row.state \in {"active", "inactive"}
    BY DEF PolicyRow
<1> HIDE DEF row
<1>3. policy' = [policy EXCEPT ![p] = row]
    BY <1>1 DEF row
<1>4. policy' \in [Policy -> PolicyRow] /\ \A o \in Policy : policy'[o] = IF o = p THEN row ELSE policy[o]
    BY <1>2, <1>3, RowFacts
<1>5. \A o \in Policy : Exists(o) => Exists(o)'
    BY <1>2, <1>4 DEF Exists
<1>6. faults' \in 0..MaxFaults /\ changes' \in 0..MaxChanges
  <2>1. changes > 0 /\ changes' = changes - 1 /\ faults' = faults
    BY DEF SavePolicy, Change
  <2>2. faults \in 0..MaxFaults /\ changes \in 0..MaxChanges
    BY RowFacts
  <2> QED
    BY <2>1, <2>2, Assumptions
<1>7. UNCHANGED <<settings, renewals, sending, tick, request, call>>
    BY DEF SavePolicy
<1> QED
    BY <1>4, <1>5, <1>6, <1>7, RowFacts, QuietStep

LEMMA CountRequestsStep ==
    ASSUME ApprovalInv, NEW x \in Caller, NEW p \in Policy, CountRequests(x, p)
    PROVE  ApprovalInv'
<1>1. PICK at \in {"remove", "deactivate"} :
        call' = [call EXCEPT ![x] = [IdleCall EXCEPT !.policy = p, !.at = at]]
    BY DEF CountRequests
<1> DEFINE c == [IdleCall EXCEPT !.policy = p, !.at = at]
<1>2. c \in Call /\ c.at # "decide"
    BY BlankTypes DEF Call
<1> HIDE DEF c
<1>3. call' = [call EXCEPT ![x] = c]
    BY <1>1 DEF c
<1>4. UNCHANGED <<settings, renewals, sending, tick, policy, request, bounds>>
    BY DEF CountRequests, mailVars
<1> QED
    BY <1>2, <1>3, <1>4, CallStep

LEMMA IdleIsNoDecision == IdleCall \in Call /\ IdleCall.at = "idle"
BY BlankTypes DEF IdleCall

(* A policy a request refers to is still there after either outcome.        *)
LEMMA PolicyCallStep ==
    ASSUME ApprovalInv, NEW x \in Caller, RemovePolicy(x) \/ DeactivatePolicy(x)
    PROVE  ApprovalInv'
<1> DEFINE p == call[x].policy
<1>1. p \in Policy
    BY RowFacts DEF Call
<1>2. /\ UNCHANGED <<settings, renewals, sending, tick, request, faults, changes>>
      /\ call' = [call EXCEPT ![x] = IdleCall]
    BY DEF RemovePolicy, DeactivatePolicy, Return, mailVars, bounds
<1> HIDE DEF p
<1>3. /\ policy' \in [Policy -> PolicyRow]
      /\ \A o \in Policy : Exists(o) /\ (\E q \in Existing : request[q].policy = o) => Exists(o)'
  <2>1. CASE policy' = policy
    BY <2>1, RowFacts DEF Exists
  <2>2. CASE RemovePolicy(x) /\ policy' # policy
    <3>1. /\ policy' = [policy EXCEPT ![p].state = "deleted"]
          /\ ~\E q \in Existing : request[q].policy = p
        BY <2>2 DEF RemovePolicy, p
    <3>2. policy[p] \in PolicyRow
        BY <1>1, RowFacts
    <3>3. [policy[p] EXCEPT !.state = "deleted"] \in PolicyRow
        BY <3>2 DEF PolicyRow
    <3>4. policy' \in [Policy -> PolicyRow] /\ \A o \in Policy \ {p} : policy'[o] = policy[o]
        BY <1>1, <3>1, <3>3, RowFacts
    <3> QED
        BY <3>1, <3>4 DEF Exists
  <2>3. CASE DeactivatePolicy(x)
    <3>1. policy[p] \in PolicyRow
        BY <1>1, RowFacts
    <3>2. PICK state \in {"deleted", "inactive"} :
              /\ policy' = [policy EXCEPT ![p] = [policy[p] EXCEPT !.state = state]]
              /\ state = "deleted" => policy[p].state = "deleted"
        BY <1>1, <2>3, RowFacts DEF DeactivatePolicy, p
    <3> DEFINE row == [policy[p] EXCEPT !.state = state]
    <3>3. row \in PolicyRow /\ row.state = state
        BY <3>1 DEF PolicyRow
    <3>4. policy' = [policy EXCEPT ![p] = row]
        BY <3>2
    <3> HIDE DEF row
    <3>5. /\ policy' \in [Policy -> PolicyRow]
          /\ \A o \in Policy : policy'[o] = IF o = p THEN row ELSE policy[o]
        BY <1>1, <3>3, <3>4, RowFacts
    <3> QED
        BY <3>2, <3>3, <3>5 DEF Exists
  <2> QED
    BY <2>1, <2>2, <2>3
<1>4. call' \in [Caller -> Call] /\ \A y \in Caller : call'[y] = IF y = x THEN IdleCall ELSE call[y]
    BY <1>2, RowFacts, IdleIsNoDecision
<1> QED
    BY <1>2, <1>3, <1>4, RowFacts, IdleIsNoDecision, QuietStep

-----------------------------------------------------------------------------
(* Submit and Decide, up to the transaction                                 *)

LEMMA SubmitStep ==
    ASSUME ApprovalInv, NEW x \in Caller, NEW u \in User, NEW e \in Entity, Submit(x, u, e)
    PROVE  ApprovalInv'
<1>1. PICK p \in Policy :
        call' = [call EXCEPT ![x] = [IdleCall EXCEPT !.at = "exists", !.user = u, !.entity = e,
                                     !.policy = p, !.method = policy[p].method]]
    BY DEF Submit, Applicable
<1> DEFINE c == [IdleCall EXCEPT !.at = "exists", !.user = u, !.entity = e,
                                 !.policy = p, !.method = policy[p].method]
<1>2. policy[p].method \in {"MANAGER", "ROLE"}
    BY RowFacts DEF PolicyRow
<1>3. c \in Call /\ c.at # "decide"
    BY <1>2, BlankTypes DEF Call
<1>4. call' = [call EXCEPT ![x] = c]
    BY <1>1
<1> HIDE DEF c
<1>5. UNCHANGED <<settings, renewals, sending, tick, policy, request, bounds>>
    BY DEF Submit, mailVars
<1> QED
    BY <1>3, <1>4, <1>5, CallStep

LEMMA CheckPendingStep ==
    ASSUME ApprovalInv, NEW x \in Caller, CheckPending(x)
    PROVE  ApprovalInv'
<1>1. \/ call' = [call EXCEPT ![x] = IdleCall]
      \/ call' = [call EXCEPT ![x] = [call[x] EXCEPT !.at = "resolve"]]
    BY RowFacts DEF CheckPending, Return, Goto
<1>2. /\ [call[x] EXCEPT !.at = "resolve"] \in Call
      /\ [call[x] EXCEPT !.at = "resolve"].at # "decide"
    BY RowFacts DEF Call
<1>3. /\ UNCHANGED <<settings, renewals, sending, tick, policy, request>>
      /\ Fault \/ UNCHANGED bounds
    BY DEF CheckPending
<1>4. CASE call' = [call EXCEPT ![x] = IdleCall]
    BY <1>3, <1>4, CallStep, IdleIsNoDecision
<1>5. CASE call' = [call EXCEPT ![x] = [call[x] EXCEPT !.at = "resolve"]]
    BY <1>2, <1>3, <1>5, CallStep
<1> QED
    BY <1>1, <1>4, <1>5

(* Whoever is found is an account.                                          *)
LEMMA FoundAreUsers ==
    ASSUME NEW u \in User, NEW method
    PROVE  \A managers \in {ManagerOf(u, method), {}}, holders \in {RoleHolders, {}},
              admins \in {Admins(u), {}} : FirstFound(managers, holders, admins) \subseteq User
<1>1. Manager[u] \in User \cup {NoUser}
    BY Assumptions
<1>2. ManagerOf(u, method) \subseteq User
    BY <1>1 DEF ManagerOf
<1>3. RoleHolders \subseteq User
    BY Assumptions DEF RoleHolders
<1>4. Admins(u) \subseteq User
    BY Assumptions DEF Admins
<1> QED
    BY <1>2, <1>3, <1>4 DEF FirstFound

LEMMA ResolveApproverStep ==
    ASSUME ApprovalInv, NEW x \in Caller, ResolveApprover(x)
    PROVE  ApprovalInv'
<1> DEFINE next(a) == [call[x] EXCEPT !.at = "insert", !.approver = a]
<1>1. call[x] \in Call /\ call[x].user \in User
    BY RowFacts DEF Call
<1>2. PICK found \in SUBSET User : Designate(x, found)
    BY <1>1, FoundAreUsers DEF ResolveApprover
<1>3. \A a : [call EXCEPT ![x].at = "insert", ![x].approver = a] = [call EXCEPT ![x] = next(a)]
    BY RowFacts
<1>4. \/ call' = [call EXCEPT ![x] = IdleCall]
      \/ \E a \in User : call' = [call EXCEPT ![x] = next(a)]
    BY <1>2, <1>3 DEF Designate, Return
<1>5. \A a \in User : next(a) \in Call /\ next(a).at # "decide"
    BY <1>1 DEF Call
<1>6. /\ UNCHANGED <<settings, renewals, sending, tick, policy, request>>
      /\ Fault \/ UNCHANGED bounds
    BY DEF ResolveApprover
<1> HIDE DEF next
<1>7. CASE call' = [call EXCEPT ![x] = IdleCall]
    BY <1>6, <1>7, CallStep, IdleIsNoDecision
<1>8. CASE \E a \in User : call' = [call EXCEPT ![x] = next(a)]
    BY <1>5, <1>6, <1>8, CallStep
<1> QED
    BY <1>4, <1>7, <1>8

(* Only the designated approver and administrators pass the check.          *)
LEMMA DecideStep ==
    ASSUME ApprovalInv, NEW x \in Caller, NEW u \in User, NEW q \in Existing,
           NEW decision \in Decision, Decide(x, u, q, decision)
    PROVE  ApprovalInv'
<1> DEFINE c == [IdleCall EXCEPT !.at = "decide", !.user = u, !.request = q,
                                 !.decision = decision, !.version = request[q].version]
<1>1. q \in Request /\ request[q].version \in Nat
    BY RowFacts DEF Existing, RequestRow
<1>2. c \in Call /\ c.request = q /\ c.user = u
    BY <1>1, BlankTypes DEF Call
<1>3. call' = [call EXCEPT ![x] = c]
    BY DEF Decide
<1> HIDE DEF c
<1>4. u \in {request[q].approver} \cup Admin
    BY DEF Decide
<1>5. UNCHANGED <<settings, renewals, sending, tick, policy, request, bounds>>
    BY DEF Decide, mailVars
<1> QED
    BY <1>2, <1>3, <1>4, <1>5, CallStep

LEMMA AbortStep ==
    ASSUME ApprovalInv, NEW x \in Caller, Abort(x)
    PROVE  ApprovalInv'
<1>1. /\ call' = [call EXCEPT ![x] = IdleCall] /\ Fault
      /\ UNCHANGED <<settings, renewals, sending, tick, policy, request>>
    BY DEF Abort, Return
<1> QED
    BY <1>1, CallStep, IdleIsNoDecision

-----------------------------------------------------------------------------
(* The transactions                                                         *)

(* What DecidedOnce says of one row.                                        *)
Consistent(r) ==
    IF r.status = "PENDING"
    THEN r.version = 1 /\ r.step = "PENDING" /\ r.history = {}
    ELSE /\ r.version = 2 /\ r.step = r.status
         /\ \E u \in {r.approver} \cup Admin : r.history = {[actor |-> u, decision |-> r.status]}

(* One undecided row is written and a message about it starts.              *)
LEMMA RequestStep ==
    ASSUME ApprovalInv, NEW x \in Caller, call' = [call EXCEPT ![x] = IdleCall],
           NEW q \in Request, NEW row \in RequestRow, request' = [request EXCEPT ![q] = row],
           NEW d \in Delivery, NEW note \in Notification, Start(d, note),
           UNCHANGED <<settings, renewals, tick, bounds, policy>>,
           note.facts = {<<q, row.status>>},
           request[q].status \in {"none", "PENDING"}, row.status # "none",
           q \in Existing => row.approver = request[q].approver,
           Exists(row.policy), Consistent(row)
    PROVE  ApprovalInv'
<1>1. MailInv'
    BY RowFacts, StartStep
<1>2. /\ request' \in [Request -> RequestRow] /\ call' \in [Caller -> Call]
      /\ \A o \in Request : request'[o] = IF o = q THEN row ELSE request[o]
      /\ \A y \in Caller : call'[y] = IF y = x THEN IdleCall ELSE call[y]
    BY RowFacts, IdleIsNoDecision
<1>3. RowTypes'
    BY <1>2, RowFacts DEF RowTypes
<1>4. Existing' = Existing \cup {q}
    BY <1>2 DEF Existing
<1>5. DecidedOnce'
  <2>1. \A o \in Existing : Consistent(request[o])
    BY DEF ApprovalInv, DecidedOnce, Consistent
  <2>2. \A o \in Existing' : Consistent(request'[o])
    BY <1>2, <1>4, <2>1 DEF Existing
  <2> QED
    BY <2>2 DEF DecidedOnce, Consistent
<1>6. DecidersAreEntitled'
  <2> SUFFICES ASSUME NEW y \in Caller, call'[y].at = "decide"
               PROVE  /\ call'[y].request \in Existing'
                      /\ call'[y].user \in {request'[call'[y].request].approver} \cup Admin
    BY DEF DecidersAreEntitled
  <2>1. call'[y] = call[y]
    BY <1>2, IdleIsNoDecision
  <2>2. /\ call[y].request \in Existing
        /\ call[y].user \in {request[call[y].request].approver} \cup Admin
    BY <2>1 DEF ApprovalInv, DecidersAreEntitled
  <2> QED
    BY <1>2, <1>4, <2>1, <2>2 DEF Existing
<1>7. PolicyOutlivesRequests'
  <2>1. \A o \in Existing' : request'[o].policy = row.policy \/ Exists(request'[o].policy)
    BY <1>2, <1>4 DEF ApprovalInv, PolicyOutlivesRequests, Existing
  <2> QED
    BY <2>1 DEF PolicyOutlivesRequests, Exists
<1>8. \A o \in Request, decision \in Decision :
        request[o].status = decision => request'[o].status = decision
    BY <1>2 DEF Decision
<1>9. NewsIsTrue'
    BY <1>8 DEF Start, ApprovalInv, NewsIsTrue
<1>10. NotesAreTrue'
  <2>1. job \in [Slot -> Job] /\ d \in Slot
    BY RowFacts, Slots DEF MailInv, MailTypeOK
  <2>2. job'[d].note = note /\ \A s \in Slot \ {d} : job'[s] = job[s]
    BY <2>1 DEF Start, IdleJob
  <2>3. \A o \in Request, decision \in Decision :
            <<o, decision>> \in job'[d].note.facts => request'[o].status = decision
    BY <1>2, <2>2
  <2> QED
    BY <1>8, <2>2, <2>3 DEF ApprovalInv, NotesAreTrue
<1> QED
    BY <1>1, <1>3, <1>5, <1>6, <1>7, <1>9, <1>10 DEF ApprovalInv

(* A transaction that wrote nothing.                                        *)
LEMMA RefusedStep ==
    ASSUME ApprovalInv, NEW x \in Caller, Return(x),
           UNCHANGED <<settings, renewals, sending, tick, bounds, policy, request>>
    PROVE  ApprovalInv'
<1>1. call' = [call EXCEPT ![x] = IdleCall]
    BY DEF Return
<1> QED
    BY <1>1, CallStep, IdleIsNoDecision

LEMMA InsertStep ==
    ASSUME ApprovalInv, NEW x \in Caller, Insert(x)
    PROVE  ApprovalInv'
<1> DEFINE r == call[x]
           row == [BlankRequest EXCEPT !.status = "PENDING", !.entity = r.entity, !.policy = r.policy,
                                       !.requester = r.user, !.approver = r.approver]
<1>1. r \in Call /\ r.entity \in Entity /\ r.policy \in Policy /\ r.user \in User /\ r.approver \in User
    BY RowFacts DEF Call
<1>2. CASE UNCHANGED <<request, sending>>
    BY <1>2, RefusedStep DEF Insert
<1>3. CASE ~UNCHANGED <<request, sending>>
  <2>1. PICK q \in Request \ Existing, d \in Delivery :
          /\ request' = [request EXCEPT ![q] = row]
          /\ Start(d, ApprovalRequested(q, r.user, r.approver))
    BY <1>3 DEF Insert
  <2>2. /\ row \in RequestRow /\ row.status = "PENDING" /\ row.policy = r.policy
        /\ row.version = 1 /\ row.step = "PENDING" /\ row.history = {}
    <3> HIDE DEF r
    <3>1. BlankRequest.version = 1 /\ BlankRequest.step = "PENDING" /\ BlankRequest.history = {}
        BY DEF BlankRequest
    <3> QED
        BY <1>1, <3>1, BlankTypes DEF RequestRow
  <2>3. Consistent(row) /\ Exists(row.policy)
    BY <1>3, <2>2 DEF Consistent, Insert
  <2> DEFINE note == ApprovalRequested(q, r.user, r.approver)
  <2>4. note \in Notification /\ note.facts = {<<q, row.status>>}
    <3> HIDE DEF r, row
    <3> QED
        BY <1>1, <2>2 DEF ApprovalRequested, Notification, Event, Fact
  <2>5. Start(d, note) /\ request[q].status = "none" /\ q \notin Existing
    BY <2>1 DEF Existing
  <2>6. /\ call' = [call EXCEPT ![x] = IdleCall]
        /\ UNCHANGED <<settings, renewals, tick, bounds, policy>>
    BY DEF Insert, Return
  <2> HIDE DEF row, note, r
  <2> QED
    BY <2>1, <2>2, <2>3, <2>4, <2>5, <2>6, RequestStep
<1> QED
    BY <1>2, <1>3

(* Only a pending row at the version read becomes a decided one.            *)
LEMMA CommitDecisionStep ==
    ASSUME ApprovalInv, NEW x \in Caller, CommitDecision(x)
    PROVE  ApprovalInv'
<1> DEFINE r == call[x]
           q == r.request
           row == [request[q] EXCEPT !.status = r.decision, !.version = @ + 1, !.step = r.decision,
                                     !.history = @ \cup {[actor |-> r.user, decision |-> r.decision]}]
<1>1. r \in Call /\ q \in Request /\ r.user \in User /\ r.decision \in Decision /\ r.at = "decide"
    BY RowFacts DEF Call, CommitDecision
<1>2. CASE UNCHANGED <<request, sending>>
    BY <1>2, RefusedStep DEF CommitDecision
<1>3. CASE ~UNCHANGED <<request, sending>>
  <2>1. PICK d \in Delivery :
          /\ request' = Decided(q, r) /\ request[q].status = "PENDING"
          /\ Start(d, ApprovalDecided(q, r.decision, r.user, request[q].requester))
    BY <1>3 DEF CommitDecision
  <2>2. q \in Existing /\ r.user \in {request[q].approver} \cup Admin
    BY <1>1 DEF ApprovalInv, DecidersAreEntitled
  <2>3. /\ request[q] \in RequestRow /\ request[q].version = 1 /\ request[q].history = {}
        /\ request[q].requester \in User
    BY <1>1, <2>1, <2>2, RowFacts DEF ApprovalInv, DecidedOnce, RequestRow
  <2>4. request' = [request EXCEPT ![q] = row]
    <3>1. request \in [Request -> RequestRow]
        BY RowFacts
    <3> QED
        BY <1>1, <2>1, <3>1 DEF Decided
  <2>5. /\ row \in RequestRow /\ row.status = r.decision /\ row.version = 2 /\ row.step = r.decision
        /\ row.history = {[actor |-> r.user, decision |-> r.decision]}
        /\ row.approver = request[q].approver /\ row.policy = request[q].policy
    <3> DEFINE h == {[actor |-> r.user, decision |-> r.decision]}
               old == request[q]
    <3>1. old.history \cup h = h /\ old.version + 1 = 2
        BY <2>3
    <3>2. h \in SUBSET [actor : User, decision : Decision]
        BY <1>1
    <3>3. row = [old EXCEPT !.status = r.decision, !.version = 2, !.step = r.decision, !.history = h]
        BY <3>1
    <3>4. old \in RequestRow /\ r.decision \in Decision
        BY <1>1, <2>3
    <3> HIDE DEF row, h, old, r, q
    <3>5. /\ row \in RequestRow /\ row.status = r.decision /\ row.version = 2 /\ row.step = r.decision
          /\ row.history = h /\ row.approver = old.approver /\ row.policy = old.policy
        BY <3>2, <3>3, <3>4 DEF RequestRow
    <3> QED
        BY <3>5 DEF h, old
  <2> DEFINE note == ApprovalDecided(q, r.decision, r.user, request[q].requester)
  <2>6. note \in Notification /\ note.facts = {<<q, row.status>>}
    <3> HIDE DEF r, q, row
    <3> QED
        BY <1>1, <2>3, <2>5 DEF ApprovalDecided, Notification, Event, Fact
  <2>7. Consistent(row) /\ Exists(row.policy) /\ row.status # "none"
    <3> HIDE DEF r, q, row
    <3>1. row.status \notin {"none", "PENDING"}
        BY <1>1, <2>5 DEF Decision
    <3> QED
        BY <2>2, <2>5, <3>1 DEF Consistent, ApprovalInv, PolicyOutlivesRequests
  <2>8. /\ call' = [call EXCEPT ![x] = IdleCall]
        /\ UNCHANGED <<settings, renewals, tick, bounds, policy>>
    BY DEF CommitDecision, Return
  <2>9. Start(d, note) /\ request[q].status = "PENDING"
    BY <2>1
  <2> HIDE DEF row, note, r, q
  <2> QED
    BY <1>1, <2>4, <2>5, <2>6, <2>7, <2>8, <2>9, RequestStep
<1> QED
    BY <1>2, <1>3

-----------------------------------------------------------------------------
(* Steps of the mail service                                                *)

(* A step of the mail service puts into inboxes only what a message on its  *)
(* way says, and starts only messages about contracts and tests.            *)
LEMMA MailKeepsNews ==
    ASSUME MailInv, MailNext \/ MailCrash
    PROVE  /\ \A u, f : <<u, f>> \in inbox' =>
                 \/ <<u, f>> \in inbox
                 \/ \E d \in Slot : job[d].at # "idle" /\ f \in job[d].note.facts
           /\ \A d \in Slot : job'[d].at # "idle" =>
                 \/ job[d].at # "idle" /\ job'[d].note = job[d].note
                 \/ job'[d].note.facts \subseteq Contract
<1> USE MailAssumption
<1>1. job \in [Slot -> Job] /\ tick \in Tick
    BY DEF MailInv, MailTypeOK
<1>2. CASE UNCHANGED <<job, inbox>>
    BY <1>2
<1>3. CASE Around
    BY <1>3, <1>2 DEF Around, Configure, ChangeAccount, EnterWindow, GrowOld, UpdateContractRenewal,
                      sending
<1>4. CASE BeginRenewals
    BY <1>4 DEF BeginRenewals, Prune
<1>5. CASE NextOwner
  <2>1. PICK c \in tick.left :
          LET mine == {x \in tick.left : Owner[x] = Owner[c]} IN
          Start(Digest, ContractsDueForRenewal(mine, Owner[c]))
    BY <1>5 DEF NextOwner
  <2> DEFINE mine == {x \in tick.left : Owner[x] = Owner[c]}
             note == ContractsDueForRenewal(mine, Owner[c])
  <2>2. note.facts \subseteq Contract
    BY <1>1 DEF ContractsDueForRenewal, Tick
  <2> HIDE DEF note
  <2>3. Start(Digest, note)
    BY <2>1 DEF note
  <2>4. job'[Digest].note = note /\ \A d \in Slot \ {Digest} : job'[d] = job[d]
    BY <1>1, <2>3, Slots DEF Start, IdleJob
  <2> QED
    BY <2>2, <2>3, <2>4 DEF Start
<1>6. CASE AfterDispatch \/ \E c \in Contract : RecordNotice(c)
    BY <1>6, <1>2 DEF AfterDispatch, RecordNotice, sending
<1>7. CASE \E d \in Delivery, u \in Admin : SendNow(d, u)
  <2>1. PICK d \in Delivery, u \in Admin : Start(d, TestMessage(u))
    BY <1>7 DEF SendNow
  <2>2. job'[d].note = TestMessage(u) /\ \A s \in Slot \ {d} : job'[s] = job[s]
    BY <1>1, <2>1, Slots DEF Start, IdleJob
  <2> QED
    BY <2>1, <2>2 DEF Start, TestMessage
<1>8. ASSUME NEW d \in Slot, Delivering(d)
      PROVE  /\ inbox' = inbox \/ (job[d].at # "idle" /\ inbox' = inbox \cup Told(job[d].note))
             /\ \A s \in Slot \ {d} : job'[s] = job[s]
             /\ job'[d].at # "idle" => job[d].at # "idle" /\ job'[d].note = job[d].note
  <2>1. CASE Dispatch(d)
    BY <1>1, <2>1 DEF Dispatch, Finish, IdleJob, Job
  <2>2. CASE Deliver(d)
    BY <1>1, <2>2 DEF Deliver, Job
  <2>3. CASE Complete(d)
    BY <1>1, <2>3 DEF Complete, Finish, IdleJob, Job
  <2> QED
    BY <1>8, <2>1, <2>2, <2>3 DEF Delivering
<1>9. CASE \E d \in Slot : Delivering(d)
    BY <1>8, <1>9 DEF Told
<1>10. CASE MailCrash
    BY <1>10 DEF MailCrash, IdleJob
<1> QED
    BY <1>3, <1>4, <1>5, <1>6, <1>7, <1>9, <1>10 DEF MailNext, Renewing

LEMMA MailPartStep ==
    ASSUME ApprovalInv, MailNext \/ MailCrash, UNCHANGED <<policy, request>>,
           call' = call \/ call' = [x \in Caller |-> IdleCall]
    PROVE  ApprovalInv'
<1>1. MailInv'
    BY RowFacts, MailNextStep
<1>2. call' \in [Caller -> Call]
    BY RowFacts, IdleIsNoDecision
<1>3. RowTypes'
    BY <1>2, RowFacts DEF RowTypes
<1>4. Existing' = Existing
    BY DEF Existing
<1>5. DecidedOnce' /\ PolicyOutlivesRequests'
    BY <1>4 DEF ApprovalInv, DecidedOnce, PolicyOutlivesRequests, Exists
<1>6. DecidersAreEntitled'
    BY <1>4, IdleIsNoDecision DEF ApprovalInv, DecidersAreEntitled
<1>7. NewsIsTrue'
    BY RowFacts, MailKeepsNews DEF ApprovalInv, NewsIsTrue, NotesAreTrue
<1>8. NotesAreTrue'
  <2> SUFFICES ASSUME NEW d \in Slot, NEW q \in Request, NEW decision \in Decision,
                      job'[d].at # "idle", <<q, decision>> \in job'[d].note.facts
               PROVE  request[q].status = decision
    BY DEF NotesAreTrue
  <2>1. <<q, decision>> \notin Contract
    BY MailAssumption DEF Decision
  <2>2. job[d].at # "idle" /\ job'[d].note = job[d].note
    BY <2>1, RowFacts, MailKeepsNews
  <2> QED
    BY <2>2 DEF ApprovalInv, NotesAreTrue
<1> QED
    BY <1>1, <1>3, <1>5, <1>6, <1>7, <1>8 DEF ApprovalInv

LEMMA NextStep ==
    ASSUME ApprovalInv, Next
    PROVE  ApprovalInv'
<1>1. CASE MailNext /\ UNCHANGED <<policy, request, call>>
    BY <1>1, MailPartStep
<1>2. CASE \E p \in Policy : SavePolicy(p)
    BY <1>2, SavePolicyStep
<1>3. CASE Crash
    BY <1>3, MailPartStep DEF Crash
<1>4. ASSUME NEW x \in Caller, Begin(x) PROVE ApprovalInv'
    BY <1>4, CountRequestsStep, SubmitStep, DecideStep, Assumptions DEF Begin
<1>5. ASSUME NEW x \in Caller, Continue(x) PROVE ApprovalInv'
    BY <1>5, PolicyCallStep, CheckPendingStep, ResolveApproverStep, InsertStep, CommitDecisionStep
       DEF Continue
<1> QED
    BY <1>1, <1>2, <1>3, <1>4, <1>5, AbortStep DEF Next

LEMMA StutterStep ==
    ASSUME ApprovalInv, UNCHANGED vars
    PROVE  ApprovalInv'
<1>1. UNCHANGED <<settings, renewals, sending, tick, faults, changes, policy, request, call>>
    BY DEF vars, mailVars, bounds
<1> QED
    BY <1>1, RowFacts, QuietStep DEF Exists

(* The inductive invariant of the composition of approvals and mail.        *)
THEOREM ApprovalInvariant == Spec => []ApprovalInv
<1>1. Init => ApprovalInv
    BY InitInv
<1>2. ApprovalInv /\ [Next]_vars => ApprovalInv'
    BY NextStep, StutterStep
<1> QED
    BY <1>1, <1>2, PTL DEF Spec

(* Rows, calls in flight and mail keep their types.                         *)
THEOREM TypeCorrect == Spec => []TypeOK
<1>1. ApprovalInv => TypeOK
    BY DEF ApprovalInv, MailInv, TypeOK
<1> QED
    BY <1>1, ApprovalInvariant, PTL

(* Decide: however many people decide at once, a request is decided once,   *)
(* by someone entitled to, and row, step and history agree.                 *)
THEOREM RequestsAreDecidedOnce == Spec => []DecidedOnce
<1>1. ApprovalInv => DecidedOnce
    BY DEF ApprovalInv
<1> QED
    BY <1>1, ApprovalInvariant, PTL

(* No mail ever announces a decision other than the one that stands.        *)
THEOREM AnnouncedDecisionsStand == Spec => []NewsIsTrue
<1>1. ApprovalInv => NewsIsTrue
    BY DEF ApprovalInv
<1> QED
    BY <1>1, ApprovalInvariant, PTL

(* deletePolicy never removes the policy of a request.                      *)
THEOREM PoliciesOutliveRequests == Spec => []PolicyOutlivesRequests
<1>1. ApprovalInv => PolicyOutlivesRequests
    BY DEF ApprovalInv
<1> QED
    BY <1>1, ApprovalInvariant, PTL
=============================================================================
