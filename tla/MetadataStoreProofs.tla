------------------------- MODULE MetadataStoreProofs -------------------------
(***************************************************************************)
(* Proofs about the store of a table (MetadataStore.tla), for any rows,    *)
(* values and bounds.                                                      *)
(***************************************************************************)
EXTENDS MetadataStore, FiniteSetTheorems, TLAPS

-----------------------------------------------------------------------------
(* Types.                                                                  *)

\* Changes of cells never make a row or take it away, deletions only do that.
Mods == {op \in Operation :
           op.type = "modify" /\ \A r \in RowsOf(op) : op.new[r] \in Values /\ op.old[r] \in Values}

Ops == {op \in Operation :
          /\ op.type = "modify" => op \in Mods
          /\ op.type \in {"delete", "deleteRows"} => \A r \in RowsOf(op) : op.new[r] = Absent
          /\ op.type = "insert" => \A r \in RowsOf(op) : op.new[r] \in Values
          /\ op.type = "groupbys" => RowsOf(op) = {}}

Handlers == [kind : {"do"}] \cup [kind : {"undo", "redo"}, op : Mods]

CellsOf(new) == new \in Updates /\ \A r \in DOMAIN new : new[r] \in Values

Tables == [rows : [Rows -> Cell], grouped : BOOLEAN, groups : [Rows -> Cell]]
Histories == [undo : Seq(Mods), redos : Seq(Mods)]
Entries == [op : Ops, n : 1..MaxOps]
InFlight == [op : Ops, n : 1..MaxOps, by : Handlers, phase : {"sent", "stored"},
             failed : SUBSET Rows]

Typed ==
  /\ data \in Tables /\ history \in Histories
  /\ pending \in Seq(Entries) /\ inflight \subseteq InFlight /\ sending \in BOOLEAN
  /\ server \in [Rows -> Cell]
  /\ reload \in Reload \cup {None}
  /\ dialog \in Dialog \cup {None} /\ (dialog # None => CellsOf(dialog.new))
  /\ confirmed \subseteq Change /\ \A w \in confirmed : CellsOf(w.new)
  /\ mounted \in BOOLEAN /\ crossed \in BOOLEAN
  /\ nops \in 0..MaxOps /\ nreloads \in 0..MaxReloads /\ log \in Seq(1..MaxOps)
  /\ doubt \subseteq Rows /\ touched \subseteq Rows /\ astray \subseteq Rows

-----------------------------------------------------------------------------
(* The queue.                                                              *)

Queue ==
  /\ \A e, f \in inflight : e = f
  /\ mounted => (sending <=> inflight # {})
  /\ ~sending => pending = <<>>
  /\ \A i \in DOMAIN pending : pending[i].n <= nops
  /\ \A i, j \in DOMAIN pending : i < j => pending[i].n < pending[j].n
  /\ \A e \in inflight : e.n <= nops /\ \A i \in DOMAIN pending : e.n < pending[i].n

Logged ==
  /\ \A i \in DOMAIN log : /\ log[i] <= nops
                           /\ \A j \in DOMAIN pending : log[i] < pending[j].n
                           /\ \A e \in inflight : IF e.phase = "sent" THEN log[i] < e.n ELSE log[i] <= e.n
  /\ \A i, j \in DOMAIN log : i < j => log[i] < log[j]

-----------------------------------------------------------------------------
(* The stacks.                                                             *)

\* The entries c, by their positions, lead to the value v of the row: each one starts from
\* the value that the one before it made, and the last one made v.
Leads(c, v) ==
  \A j \in DOMAIN c :
    /\ (\A k \in DOMAIN c : k <= j) => c[j].to = v
    /\ \A k \in DOMAIN c : j < k /\ (\A i \in DOMAIN c : i <= j \/ k <= i) => c[j].to = c[k].from

Made(op, r) == [to |-> op.new[r], from |-> op.old[r]]
TakenBack(op, r) == [to |-> op.old[r], from |-> op.new[r]]

Undone(s, r) == [k \in On(s, r) |-> Made(s[k], r)]
Redone(s, r) == [k \in On(s, r) |-> TakenBack(s[k], r)]

\* What waits for its answer, without how it is sent; the places of what is stored already.
WaitingOf(queue, sent) ==
  {[op |-> e.op, n |-> e.n] : e \in {queue[i] : i \in 1..Len(queue)} \cup sent}
Waiting == WaitingOf(pending, inflight)

StoredOf(sent) == {e.n : e \in {f \in sent : f.phase = "stored"}}
Stored == StoredOf(inflight)

Distinct(s) == \A i, j \in DOMAIN s : s[i].id = s[j].id => i = j

StackedIn(h) == {h.undo[i] : i \in DOMAIN h.undo} \cup {h.redos[i] : i \in DOMAIN h.redos}
Stacked == StackedIn(history)

\* No operation stands twice in the stacks h, and an identifier, n at most, names one
\* operation there and among the waiting ones W.
Orderly(h, W, n) ==
  /\ Len(h.undo) + Len(h.redos) <= MaxUndo + 1
  /\ \A o, p \in StackedIn(h) \cup W : o.id <= n /\ (o.id = p.id => o = p)
  /\ Distinct(h.undo) /\ Distinct(h.redos)
  /\ \A i \in DOMAIN h.undo, j \in DOMAIN h.redos : h.undo[i].id # h.redos[j].id

Operations(W) == {e.op : e \in W}

\* The entries of the row in the stacks h lead to v, and those to redo start from it.
Follows(h, r, v) == Leads(Undone(h.undo, r), v) /\ Leads(Redone(h.redos, r), v)

Stacks ==
  ~crossed =>
    /\ Orderly(history, Operations(Waiting), nops)
    /\ \A r \in Rows \ touched : Follows(history, r, data.rows[r])

-----------------------------------------------------------------------------
(* The table and the server.                                               *)

\* A row that is not there and never was touched is in no entry.
Unused ==
  mounted =>
    \A r \in Rows \ touched : data.rows[r] = Absent =>
      /\ \A o \in Stacked : r \notin RowsOf(o)
      /\ \A e \in inflight : e.by.kind # "do" => r \notin RowsOf(e.by.op)

WaitOn(r) == {e \in Waiting : r \in RowsOf(e.op)}
Mixed(r) == {w \in confirmed : r \in DOMAIN w.new /\ w.phase = "stored"}

Shown(W) == {e \in W : e.op.type \notin AfterServer}
LastOf(E) == {e \in E : \A f \in E : f.n <= e.n}
FirstOf(E) == {e \in E : \A f \in E : e.n <= f.n}
NoneStored(W, S) == \A e \in W : e.n \notin S

\* The row r shows v and the server has sv, the operations W on it wait for their answers,
\* S are the places of the stored ones, M the confirmed changes of it that are stored, and
\* T the rows that were touched.
Agrees(r, v, sv, W, S, M, T) ==
  /\ \A e \in LastOf(Shown(W)) : /\ v # Absent => v = e.op.new[r]
                                 /\ e.op.type = "modify" /\ e.n \in S => v # Absent
  /\ \A e \in W : e.n \in S /\ (M = {} \/ e.op.new[r] = Absent) => sv = e.op.new[r]
  /\ M = {} /\ Shown(W) = {} /\ NoneStored(W, S) => v = sv
  /\ v = Absent => \/ sv = Absent
                   \/ \E e \in W : e.op.type = "delete" /\ e.n \notin S
                   \/ \E e \in W : e.op.type = "insert" /\ e.n \in S
  /\ \A e \in W : e.op.type = "insert" => r \notin T /\ v = Absent /\ W = {e}

\* While nothing crosses the changes of a row, each starts from what the one before it made.
Chained(r, v, sv, W, S, M) ==
  /\ Shown(W) # {} => v # Absent
  /\ \A e \in Shown(W) : e.op.type = "modify"
  /\ \A e \in LastOf(Shown(W)) : v = e.op.new[r]
  /\ \A e, f \in Shown(W) :
       e.n < f.n /\ (\A g \in Shown(W) : g.n <= e.n \/ f.n <= g.n) => e.op.new[r] = f.op.old[r]
  /\ M = {} /\ NoneStored(W, S) => \A e \in FirstOf(Shown(W)) : e.op.old[r] = sv

RowFine(r, v, sv, W, S, M, T, c) ==
  /\ Agrees(r, v, sv, W, S, M, T)
  /\ r \notin T /\ ~c => Chained(r, v, sv, W, S, M)

Table ==
  mounted =>
    \A r \in Rows \ doubt :
      RowFine(r, data.rows[r], server[r], WaitOn(r), Stored, Mixed(r), touched, crossed)

Confirms ==
  \A w \in confirmed : \A r \in DOMAIN w.new \ w.busy :
    /\ WaitOn(r) = {}
    /\ \A v \in confirmed : r \in DOMAIN v.new => v = w
    /\ w.phase = "stored" => server[r] = w.new[r]

Reloads ==
  reload # None =>
    \A r \in Rows \ reload.busy :
      /\ WaitOn(r) = {} /\ ~Confirming(r)
      /\ reload.phase = "read" => reload.rows[r] = server[r]

\* What is known of rows that are gone: a deletion that waits took its row from the table,
\* a row that the server could not delete is in the table no more, and the table shows a row
\* that the server has not only until its deletion of several rows is answered.
RowGone(r, v, sv, W, sent) ==
  /\ \A y \in W : y.op.type = "delete" => v = Absent
  /\ \A e \in sent : r \in RowsOf(e.op) =>
       /\ e.op.type = "insert" /\ e.phase = "stored" => sv # Absent
       /\ r \in e.failed => v = Absent
  /\ v # Absent /\ sv = Absent =>
       \E e \in sent : e.op.type = "deleteRows" /\ e.phase = "stored" /\ r \in RowsOf(e.op)

Gone ==
  mounted => \A r \in Rows \ doubt : RowGone(r, data.rows[r], server[r], WaitOn(r), inflight)

MInv ==
  /\ Typed /\ Queue /\ Logged /\ GroupsFollowValues /\ Stacks /\ Unused
  /\ Table /\ Gone /\ Confirms /\ Reloads

-----------------------------------------------------------------------------
(* Operations and sequences.                                               *)

LEMMA UpdatesAre == \A f : f \in Updates <=> f \in [DOMAIN f -> Cell] /\ DOMAIN f \subseteq Rows
BY DEF Updates

LEMMA ModsAre ==
  \A op \in Mods : /\ op \in Operation /\ op \in Ops
                   /\ op.type = "modify" /\ op.id \in 1..MaxOps
                   /\ DOMAIN op.old = DOMAIN op.new /\ RowsOf(op) = DOMAIN op.new
                   /\ RowsOf(op) \subseteq Rows
                   /\ CellsOf(op.new) /\ CellsOf(op.old)
                   /\ \A r \in RowsOf(op) : op.new[r] \in Values /\ op.old[r] \in Values
BY UpdatesAre DEF Mods, Ops, Operation, RowsOf, CellsOf

LEMMA OpsAre ==
  \A op \in Ops : /\ op \in Operation /\ op.id \in 1..MaxOps /\ op.type \in Types
                  /\ op.new \in Updates /\ op.old \in Updates
                  /\ RowsOf(op) = DOMAIN op.new /\ DOMAIN op.old = DOMAIN op.new
                  /\ RowsOf(op) \subseteq Rows
                  /\ \A r \in RowsOf(op) : op.new[r] \in Cell /\ op.old[r] \in Cell
                  /\ op.type = "modify" => op \in Mods
BY UpdatesAre DEF Ops, Operation, RowsOf

LEMMA TailFacts ==
  ASSUME NEW S, NEW s \in Seq(S), s # <<>>
  PROVE  /\ Len(s) \in Nat \ {0} /\ DOMAIN s = 1 .. Len(s)
         /\ Head(s) = s[1] /\ s[1] \in S
         /\ Tail(s) \in Seq(S) /\ Len(Tail(s)) = Len(s) - 1
         /\ DOMAIN Tail(s) = 1 .. Len(s) - 1
         /\ \A i \in 1 .. Len(s) - 1 : Tail(s)[i] = s[i + 1]
OBVIOUS

LEMMA AppendFacts ==
  ASSUME NEW S, NEW s \in Seq(S), NEW e \in S
  PROVE  /\ Len(s) \in Nat /\ DOMAIN s = 1 .. Len(s)
         /\ Append(s, e) \in Seq(S) /\ Len(Append(s, e)) = Len(s) + 1
         /\ DOMAIN Append(s, e) = 1 .. Len(s) + 1
         /\ \A i \in 1 .. Len(s) : Append(s, e)[i] = s[i]
         /\ Append(s, e)[Len(s) + 1] = e
         /\ Append(s, e) # <<>>
OBVIOUS

LEMMA FrontFacts ==
  ASSUME NEW S, NEW s \in Seq(S), s # <<>>
  PROVE  /\ Len(s) \in Nat \ {0} /\ DOMAIN s = 1 .. Len(s)
         /\ Last(s) = s[Len(s)] /\ Last(s) \in S
         /\ Front(s) \in Seq(S) /\ Len(Front(s)) = Len(s) - 1
         /\ DOMAIN Front(s) = 1 .. Len(s) - 1
         /\ \A i \in 1 .. Len(s) - 1 : Front(s)[i] = s[i]
<1>1. Len(s) \in Nat \ {0} /\ DOMAIN s = 1 .. Len(s)
  OBVIOUS
<1>2. Front(s) = SubSeq(s, 1, Len(s) - 1) /\ Last(s) = s[Len(s)]
  BY DEF Front, Last
<1> QED BY <1>1, <1>2

\* What the stack to undo keeps is its newest part.
LEMMA NewestFacts ==
  ASSUME NEW S, NEW s \in Seq(S)
  PROVE  /\ Len(s) \in Nat /\ DOMAIN s = 1 .. Len(s)
         /\ NewestUndo(s) \in Seq(S) /\ Len(NewestUndo(s)) \in Nat
         /\ DOMAIN NewestUndo(s) = 1 .. Len(NewestUndo(s))
         /\ Len(NewestUndo(s)) <= Len(s) /\ Len(NewestUndo(s)) <= MaxUndo
         /\ \A j \in 1 .. Len(NewestUndo(s)) :
              NewestUndo(s)[j] = s[j + (Len(s) - Len(NewestUndo(s)))]
<1>1. CASE Len(s) > MaxUndo
  <2>1. NewestUndo(s) = SubSeq(s, Len(s) - MaxUndo + 1, Len(s))
    BY <1>1 DEF NewestUndo
  <2> QED BY <1>1, <2>1, BoundAssumption
<1>2. CASE ~(Len(s) > MaxUndo)
  BY <1>2, BoundAssumption DEF NewestUndo
<1> QED BY <1>1, <1>2

\* The entries that are kept stay in their order, and they are those at the positions K.
LEMMA KeepingFacts ==
  ASSUME NEW S, NEW s \in Seq(S), NEW K, K \subseteq DOMAIN s
  PROVE  /\ Len(Keeping(s, K)) \in Nat /\ Len(Keeping(s, K)) <= Len(s)
         /\ DOMAIN Keeping(s, K) = 1 .. Len(Keeping(s, K)) /\ Keeping(s, K) \in Seq(S)
         /\ \E f \in [1 .. Len(Keeping(s, K)) -> K] :
              /\ \A j \in 1 .. Len(Keeping(s, K)) : Keeping(s, K)[j] = s[f[j]]
              /\ \A i, j \in 1 .. Len(Keeping(s, K)) : i < j => f[i] < f[j]
              /\ \A k \in K : \E j \in 1 .. Len(Keeping(s, K)) : f[j] = k
<1> DEFINE n == Cardinality(K)
           Upto(k) == {i \in K : i <= k}
           rank == [k \in K |-> Cardinality(Upto(k))]
           f == [j \in 1..n |-> CHOOSE k \in K : Cardinality(Upto(k)) = j]
<1>1. DOMAIN s = 1 .. Len(s) /\ Len(s) \in Nat /\ K \subseteq Nat
  OBVIOUS
<1>2. IsFiniteSet(K) /\ n \in Nat /\ n <= Len(s)
  <2>1. IsFiniteSet(1 .. Len(s)) /\ Cardinality(1 .. Len(s)) = Len(s)
    BY <1>1, FS_Interval
  <2> QED BY <1>1, <2>1, FS_Subset, FS_CardinalityType
<1>3. \A k \in K : IsFiniteSet(Upto(k)) /\ Cardinality(Upto(k)) \in Nat /\ Cardinality(Upto(k)) <= n
  BY <1>2, FS_Subset, FS_CardinalityType
<1>4. \A k \in K : Cardinality(Upto(k)) \in 1..n
  <2> TAKE k \in K
  <2>1. k \in Upto(k)
    BY <1>1
  <2>2. IsFiniteSet(Upto(k)) /\ Upto(k) # {}
    BY <1>3, <2>1
  <2>3. Cardinality(Upto(k)) # 0
    <3> HIDE DEF Upto
    <3> QED BY <2>2, FS_EmptySet
  <2> HIDE DEF Upto
  <2> QED BY <1>2, <1>3, <2>3
<1>5. \A k, l \in K : k < l => Cardinality(Upto(k)) < Cardinality(Upto(l))
  <2> SUFFICES ASSUME NEW k \in K, NEW l \in K, k < l
               PROVE  Cardinality(Upto(k)) < Cardinality(Upto(l))
    OBVIOUS
  <2>1. Upto(k) \subseteq Upto(l) /\ l \in Upto(l) /\ l \notin Upto(k)
    BY <1>1
  <2>2. Upto(k) # Upto(l) /\ Upto(k) \in SUBSET Upto(l)
    BY <2>1
  <2>3. Cardinality(Upto(k)) <= Cardinality(Upto(l)) /\ Cardinality(Upto(k)) # Cardinality(Upto(l))
    <3> HIDE DEF Upto
    <3> QED BY <1>3, <2>2, FS_Subset
  <2> HIDE DEF Upto
  <2> QED BY <1>3, <2>3
<1>6. \A j \in 1..n : \E k \in K : Cardinality(Upto(k)) = j
  <2>1. \A k \in K : rank[k] = Cardinality(Upto(k))
    OBVIOUS
  <2>2. rank \in [K -> 1..n]
    BY <1>4
  <2>3. \A k, l \in K : rank[k] = rank[l] => k = l
    <3> HIDE DEF Upto, rank
    <3> QED BY <1>1, <1>3, <1>5, <2>1
  <2>4. rank \in Injection(K, 1..n)
    <3> HIDE DEF rank
    <3> QED BY <2>2, <2>3 DEF Injection, IsInjective
  <2>5. IsFiniteSet(1..n) /\ Cardinality(1..n) = n
    BY <1>2, FS_Interval
  <2>6. rank \in Surjection(K, 1..n)
    <3> HIDE DEF rank
    <3> QED BY <1>2, <2>4, <2>5, FS_Injection
  <2>7. \A j \in 1..n : \E k \in K : rank[k] = j
    <3> HIDE DEF rank
    <3> QED BY <2>6 DEF Surjection
  <2> HIDE DEF Upto, rank
  <2> QED BY <2>1, <2>7
<1>7. f \in [1..n -> K] /\ \A j \in 1..n : Cardinality(Upto(f[j])) = j
  <2> HIDE DEF Upto
  <2> QED BY <1>6
<1>8. \A i, j \in 1..n : i < j => f[i] < f[j]
  <2> SUFFICES ASSUME NEW i \in 1..n, NEW j \in 1..n, i < j PROVE f[i] < f[j]
    OBVIOUS
  <2>1. f[i] \in K /\ f[j] \in K /\ f[i] \in Nat /\ f[j] \in Nat
    <3> HIDE DEF f
    <3> QED BY <1>1, <1>7
  <2>2. ~(f[j] < f[i]) /\ f[i] # f[j]
    <3> HIDE DEF f, Upto
    <3> QED BY <1>2, <1>5, <1>7, <2>1
  <2> HIDE DEF f, Upto
  <2> QED BY <2>1, <2>2
<1>9. \A k \in K : \E j \in 1..n : f[j] = k
  <2> SUFFICES ASSUME NEW k \in K PROVE \E j \in 1..n : f[j] = k
    OBVIOUS
  <2>1. PICK j \in 1..n : j = Cardinality(Upto(k))
    BY <1>4
  <2>2. f[j] \in K /\ Cardinality(Upto(f[j])) = Cardinality(Upto(k))
    <3> HIDE DEF f, Upto
    <3> QED BY <1>7, <2>1
  <2>3. f[j] = k
    <3> HIDE DEF f, Upto
    <3> QED BY <1>1, <1>3, <1>5, <2>2
  <2> QED BY <2>3
<1>10. Keeping(s, K) = [j \in 1..n |-> s[f[j]]]
  BY DEF Keeping
<1>11. \A j \in 1..n : s[f[j]] \in S
  <2> HIDE DEF f, Upto
  <2> QED BY <1>1, <1>7
<1>12. Keeping(s, K) \in Seq(S) /\ Len(Keeping(s, K)) = n /\ DOMAIN Keeping(s, K) = 1..n
  <2> HIDE DEF f, Upto, n
  <2>1. Keeping(s, K) \in [1..n -> S]
    BY <1>10, <1>11
  <2> QED BY <1>2, <2>1
<1>13. \A j \in 1..n : Keeping(s, K)[j] = s[f[j]]
  <2> HIDE DEF f, Upto, n
  <2> QED BY <1>10
<1> HIDE DEF f, Upto, n
<1> QED BY <1>2, <1>7, <1>8, <1>9, <1>12, <1>13

LEMMA KeepingOrder ==
  ASSUME NEW S, NEW s \in Seq(S), NEW K, K \subseteq DOMAIN s
  PROVE  \E f \in [1 .. Len(Keeping(s, K)) -> K] :
           /\ \A j \in 1 .. Len(Keeping(s, K)) : Keeping(s, K)[j] = s[f[j]]
           /\ \A i, j \in 1 .. Len(Keeping(s, K)) : i < j => f[i] < f[j]
           /\ \A k \in K : \E j \in 1 .. Len(Keeping(s, K)) : f[j] = k
BY KeepingFacts

-----------------------------------------------------------------------------
(* Chains of entries.                                                      *)

\* The entries of a chain that f chooses.
Along(c, f) == [j \in DOMAIN f |-> c[f[j]]]

\* Part of a chain, renumbered: no entry between two of it is left out, and the last one
\* of it made the value w.
LEMMA LeadsAlong ==
  ASSUME NEW c, DOMAIN c \subseteq Nat, NEW f, DOMAIN f \subseteq Nat, NEW v, NEW w,
         Leads(c, v),
         \A j \in DOMAIN f : f[j] \in DOMAIN c,
         \A i, j \in DOMAIN f : i < j => f[i] < f[j],
         \A i, j \in DOMAIN f, k \in DOMAIN c :
           f[i] < k /\ k < f[j] => \E l \in DOMAIN f : f[l] = k,
         \A j \in DOMAIN f : (\A k \in DOMAIN f : k <= j) => c[f[j]].to = w
  PROVE  Leads(Along(c, f), w)
<1> DEFINE d == Along(c, f)
<1>1. DOMAIN d = DOMAIN f /\ \A j \in DOMAIN f : d[j] = c[f[j]]
  BY DEF Along
<1> HIDE DEF d
<1> SUFFICES ASSUME NEW j \in DOMAIN f
             PROVE  /\ (\A k \in DOMAIN f : k <= j) => d[j].to = w
                    /\ \A k \in DOMAIN f : j < k /\ (\A i \in DOMAIN f : i <= j \/ k <= i)
                                           => d[j].to = d[k].from
  BY <1>1 DEF Leads, d
<1>2. ASSUME NEW k \in DOMAIN f, j < k, \A i \in DOMAIN f : i <= j \/ k <= i
      PROVE  d[j].to = d[k].from
  <2>1. /\ f[j] \in DOMAIN c /\ f[k] \in DOMAIN c /\ f[j] < f[k] /\ f[j] \in Nat /\ f[k] \in Nat
        /\ d[j] = c[f[j]] /\ d[k] = c[f[k]]
    BY <1>1, <1>2
  <2>2. ASSUME NEW i \in DOMAIN c, f[j] < i, i < f[k] PROVE FALSE
    <3>1. PICK l \in DOMAIN f : f[l] = i
      BY <1>2, <2>2
    <3>2. l \in Nat /\ j \in Nat /\ k \in Nat /\ i \in Nat
      BY <1>2, <2>2, <3>1
    <3>3. ~(l < j) /\ l # j /\ ~(k < l) /\ l # k
      BY <1>2, <2>1, <2>2, <3>1, <3>2
    <3> QED BY <1>2, <3>2, <3>3
  <2>3. c[f[j]].to = c[f[k]].from
    BY <2>1, <2>2 DEF Leads
  <2> QED BY <2>1, <2>3
<1> QED BY <1>1, <1>2

\* A chain goes on with one entry more.
LEMMA LeadsAdd ==
  ASSUME NEW c, DOMAIN c \subseteq Nat, NEW d, NEW m \in Nat, DOMAIN d = DOMAIN c \cup {m},
         \A k \in DOMAIN c : k < m,
         NEW v, Leads(c, v),
         \A k \in DOMAIN c : d[k] = c[k],
         d[m].from = v
  PROVE  Leads(d, d[m].to)
<1> SUFFICES ASSUME NEW j \in DOMAIN d
             PROVE  /\ (\A k \in DOMAIN d : k <= j) => d[j].to = d[m].to
                    /\ \A k \in DOMAIN d : j < k /\ (\A i \in DOMAIN d : i <= j \/ k <= i)
                                           => d[j].to = d[k].from
  BY DEF Leads
<1>1. ASSUME \A k \in DOMAIN d : k <= j PROVE d[j].to = d[m].to
  <2>1. m <= j /\ ~(j < m)
    BY <1>1
  <2> QED BY <2>1
<1>2. ASSUME NEW k \in DOMAIN d, j < k, \A i \in DOMAIN d : i <= j \/ k <= i
      PROVE  d[j].to = d[k].from
  <2>1. j \in DOMAIN c
    BY <1>2
  <2>2. CASE k \in DOMAIN c
    BY <1>2, <2>1, <2>2 DEF Leads
  <2>3. CASE k = m
    <3>1. \A i \in DOMAIN c : i <= j
      BY <1>2, <2>3
    <3> QED BY <2>1, <2>3, <3>1 DEF Leads
  <2> QED BY <2>2, <2>3
<1> QED BY <1>1, <1>2

\* A chain without its last entry ends where that entry started.
LEMMA LeadsDrop ==
  ASSUME NEW c, DOMAIN c \subseteq Nat, NEW d, NEW m \in DOMAIN c, DOMAIN d = DOMAIN c \ {m},
         \A k \in DOMAIN c : k <= m,
         NEW v, Leads(c, v),
         \A k \in DOMAIN d : d[k] = c[k]
  PROVE  c[m].to = v /\ Leads(d, c[m].from)
<1>1. c[m].to = v
  BY DEF Leads
<1> SUFFICES ASSUME NEW j \in DOMAIN d
             PROVE  /\ (\A k \in DOMAIN d : k <= j) => d[j].to = c[m].from
                    /\ \A k \in DOMAIN d : j < k /\ (\A i \in DOMAIN d : i <= j \/ k <= i)
                                           => d[j].to = d[k].from
  BY <1>1 DEF Leads
<1>2. ASSUME \A k \in DOMAIN d : k <= j PROVE d[j].to = c[m].from
  <2>1. j < m /\ \A i \in DOMAIN c : i <= j \/ m <= i
    BY <1>2
  <2> QED BY <2>1 DEF Leads
<1>3. ASSUME NEW k \in DOMAIN d, j < k, \A i \in DOMAIN d : i <= j \/ k <= i
      PROVE  d[j].to = d[k].from
  <2>1. \A i \in DOMAIN c : i <= j \/ k <= i
    BY <1>3
  <2> QED BY <1>3, <2>1 DEF Leads
<1> QED BY <1>2, <1>3

LEMMA OnFacts ==
  ASSUME NEW s \in Seq(Mods), NEW r
  PROVE  /\ On(s, r) \subseteq 1 .. Len(s) /\ On(s, r) \subseteq Nat
         /\ DOMAIN Undone(s, r) = On(s, r) /\ DOMAIN Redone(s, r) = On(s, r)
         /\ \A k \in On(s, r) : /\ s[k] \in Mods /\ r \in RowsOf(s[k])
                                /\ Undone(s, r)[k] = Made(s[k], r)
                                /\ Redone(s, r)[k] = TakenBack(s[k], r)
         /\ \A k \in 1 .. Len(s) : r \in RowsOf(s[k]) => k \in On(s, r)
BY DEF On, Undone, Redone

\* Entries of a row that are dropped from the old end of the stack.
LEMMA UndoneNewest ==
  ASSUME NEW s \in Seq(Mods), NEW r, NEW v, Leads(Undone(s, r), v)
  PROVE  Leads(Undone(NewestUndo(s), r), v)
<1> DEFINE t == NewestUndo(s)
           d == Len(s) - Len(t)
           f == [j \in On(t, r) |-> j + d]
<1>1. /\ Len(s) \in Nat /\ DOMAIN s = 1 .. Len(s)
      /\ t \in Seq(Mods) /\ Len(t) \in Nat /\ DOMAIN t = 1 .. Len(t)
      /\ Len(t) <= Len(s) /\ d \in Nat
      /\ \A j \in 1 .. Len(t) : t[j] = s[j + d]
  BY NewestFacts
<1> HIDE DEF t
<1>2. On(t, r) \subseteq Nat /\ On(s, r) \subseteq Nat
  BY <1>1, OnFacts
<1>3. \A j \in On(t, r) : f[j] = j + d /\ j + d \in On(s, r)
  BY <1>1 DEF On
<1>4. \A i, j \in On(t, r) : i < j => f[i] < f[j]
  BY <1>1, <1>2
<1>5. \A j \in On(t, r) : Undone(t, r)[j] = Undone(s, r)[f[j]]
  <2> TAKE j \in On(t, r)
  <2>1. f[j] = j + d /\ j + d \in On(s, r) /\ t[j] = s[j + d]
    BY <1>1, <1>3, OnFacts
  <2> HIDE DEF f, d
  <2> QED BY <1>1, <2>1, OnFacts
<1>6. \A i, j \in On(t, r), k \in On(s, r) : f[i] < k /\ k < f[j] => \E l \in On(t, r) : f[l] = k
  <2> SUFFICES ASSUME NEW i \in On(t, r), NEW j \in On(t, r), NEW k \in On(s, r),
                      i + d < k, k < j + d
               PROVE  \E l \in On(t, r) : f[l] = k
    OBVIOUS
  <2>1. k - d \in 1 .. Len(t) /\ (k - d) + d = k
    BY <1>1, <1>2, OnFacts
  <2>2. k - d \in On(t, r)
    BY <1>1, <2>1 DEF On
  <2> QED BY <2>1, <2>2
<1>7. \A j \in On(t, r) : (\A k \in On(t, r) : k <= j) => Undone(s, r)[f[j]].to = v
  <2> SUFFICES ASSUME NEW j \in On(t, r), \A k \in On(t, r) : k <= j
               PROVE  Undone(s, r)[j + d].to = v
    BY <1>3
  <2>1. ASSUME NEW k \in On(s, r), j + d < k PROVE FALSE
    <3>1. k - d \in 1 .. Len(t) /\ (k - d) + d = k /\ k - d > j
      BY <1>1, <1>2, <2>1, OnFacts
    <3>2. k - d \in On(t, r)
      BY <1>1, <3>1 DEF On
    <3> QED BY <1>2, <3>1, <3>2
  <2>2. \A k \in On(s, r) : k <= j + d
    BY <1>1, <1>2, <2>1
  <2>3. j + d \in On(s, r)
    BY <1>3
  <2> HIDE DEF d
  <2> QED BY <2>2, <2>3, OnFacts DEF Leads
<1> HIDE DEF f, d
<1>8. DOMAIN Undone(t, r) = On(t, r) /\ DOMAIN Undone(s, r) = On(s, r)
  BY <1>1, OnFacts
<1>9. DOMAIN f = On(t, r)
  BY DEF f
<1>10. Leads(Along(Undone(s, r), f), v)
  BY <1>2, <1>3, <1>4, <1>6, <1>7, <1>8, <1>9, LeadsAlong
<1>11. Undone(t, r) = Along(Undone(s, r), f)
  BY <1>5, <1>8, <1>9 DEF Along, Undone
<1> QED BY <1>10, <1>11 DEF t

\* One entry more.
LEMMA OnAppend ==
  ASSUME NEW s \in Seq(Mods), NEW op \in Mods, NEW r
  PROVE  /\ On(Append(s, op), r) = IF r \in RowsOf(op) THEN On(s, r) \cup {Len(s) + 1} ELSE On(s, r)
         /\ Len(s) + 1 \in Nat /\ \A k \in On(s, r) : k < Len(s) + 1 /\ Append(s, op)[k] = s[k]
         /\ Append(s, op)[Len(s) + 1] = op
         /\ On(s, r) \subseteq On(Append(s, op), r)
<1>1. /\ Len(s) \in Nat /\ DOMAIN s = 1 .. Len(s) /\ DOMAIN Append(s, op) = 1 .. Len(s) + 1
      /\ \A i \in 1 .. Len(s) : Append(s, op)[i] = s[i]
      /\ Append(s, op)[Len(s) + 1] = op
  BY AppendFacts
<1>2. \A k \in 1 .. Len(s) + 1 : k = Len(s) + 1 \/ k \in 1 .. Len(s)
  BY <1>1
<1>3. On(Append(s, op), r) = IF r \in RowsOf(op) THEN On(s, r) \cup {Len(s) + 1} ELSE On(s, r)
  BY <1>1, <1>2 DEF On
<1> QED BY <1>1, <1>3, OnFacts

LEMMA UndoneAppend ==
  ASSUME NEW s \in Seq(Mods), NEW op \in Mods, NEW r, NEW v, NEW w, Leads(Undone(s, r), v),
         IF r \in RowsOf(op) THEN op.old[r] = v /\ op.new[r] = w ELSE w = v
  PROVE  Leads(Undone(Append(s, op), r), w)
<1> DEFINE t == Append(s, op)
<1>1. t \in Seq(Mods) /\ DOMAIN Undone(t, r) = On(t, r) /\ DOMAIN Undone(s, r) = On(s, r)
  BY AppendFacts, OnFacts
<1>2. On(s, r) \subseteq Nat /\ \A k \in On(s, r) : Undone(t, r)[k] = Undone(s, r)[k]
  <2>1. \A k \in On(s, r) : k \in On(t, r) /\ t[k] = s[k]
    <3>1. On(s, r) \subseteq On(t, r)
      BY OnAppend
    <3>2. \A k \in On(s, r) : t[k] = s[k]
      BY OnFacts, AppendFacts
    <3> QED BY <3>1, <3>2
  <2> HIDE DEF t
  <2> QED BY <1>1, <2>1, OnFacts
<1>3. CASE r \in RowsOf(op)
  <2>1. Len(s) + 1 \in On(t, r) /\ t[Len(s) + 1] = op
    BY <1>3, OnAppend
  <2>2. Undone(t, r)[Len(s) + 1].to = w /\ Undone(t, r)[Len(s) + 1].from = v
    <3> HIDE DEF t
    <3>1. Undone(t, r)[Len(s) + 1] = Made(op, r)
      BY <1>1, <2>1, OnFacts
    <3> QED BY <1>3, <3>1 DEF Made
  <2>3. On(t, r) = On(s, r) \cup {Len(s) + 1} /\ Len(s) + 1 \in Nat /\ \A k \in On(s, r) : k < Len(s) + 1
    BY <1>3, OnAppend
  <2> HIDE DEF t
  <2>4. Leads(Undone(t, r), Undone(t, r)[Len(s) + 1].to)
    BY <1>1, <1>2, <2>2, <2>3, LeadsAdd
  <2> QED BY <2>2, <2>4 DEF t
<1>4. CASE r \notin RowsOf(op)
  <2>1. On(t, r) = On(s, r)
    BY <1>4, OnAppend
  <2> HIDE DEF t
  <2>2. Leads(Undone(t, r), v)
    BY <1>1, <1>2, <2>1 DEF Leads
  <2> QED BY <1>4, <2>2 DEF t
<1> QED BY <1>3, <1>4

LEMMA RedoneAppend ==
  ASSUME NEW s \in Seq(Mods), NEW op \in Mods, NEW r, NEW v, NEW w, Leads(Redone(s, r), v),
         IF r \in RowsOf(op) THEN op.new[r] = v /\ op.old[r] = w ELSE w = v
  PROVE  Leads(Redone(Append(s, op), r), w)
<1> DEFINE t == Append(s, op)
<1>1. t \in Seq(Mods) /\ DOMAIN Redone(t, r) = On(t, r) /\ DOMAIN Redone(s, r) = On(s, r)
  BY AppendFacts, OnFacts
<1>2. On(s, r) \subseteq Nat /\ \A k \in On(s, r) : Redone(t, r)[k] = Redone(s, r)[k]
  <2>1. \A k \in On(s, r) : k \in On(t, r) /\ t[k] = s[k]
    <3>1. On(s, r) \subseteq On(t, r)
      BY OnAppend
    <3>2. \A k \in On(s, r) : t[k] = s[k]
      BY OnFacts, AppendFacts
    <3> QED BY <3>1, <3>2
  <2> HIDE DEF t
  <2> QED BY <1>1, <2>1, OnFacts
<1>3. CASE r \in RowsOf(op)
  <2>1. Len(s) + 1 \in On(t, r) /\ t[Len(s) + 1] = op
    BY <1>3, OnAppend
  <2>2. Redone(t, r)[Len(s) + 1].to = w /\ Redone(t, r)[Len(s) + 1].from = v
    <3> HIDE DEF t
    <3>1. Redone(t, r)[Len(s) + 1] = TakenBack(op, r)
      BY <1>1, <2>1, OnFacts
    <3> QED BY <1>3, <3>1 DEF TakenBack
  <2>3. On(t, r) = On(s, r) \cup {Len(s) + 1} /\ Len(s) + 1 \in Nat /\ \A k \in On(s, r) : k < Len(s) + 1
    BY <1>3, OnAppend
  <2> HIDE DEF t
  <2>4. Leads(Redone(t, r), Redone(t, r)[Len(s) + 1].to)
    BY <1>1, <1>2, <2>2, <2>3, LeadsAdd
  <2> QED BY <2>2, <2>4 DEF t
<1>4. CASE r \notin RowsOf(op)
  <2>1. On(t, r) = On(s, r)
    BY <1>4, OnAppend
  <2> HIDE DEF t
  <2>2. Leads(Redone(t, r), v)
    BY <1>1, <1>2, <2>1 DEF Leads
  <2> QED BY <1>4, <2>2 DEF t
<1> QED BY <1>3, <1>4

\* One entry less: the last one made what is shown, and started from what is shown then.
LEMMA UndoneFront ==
  ASSUME NEW s \in Seq(Mods), s # <<>>, NEW r, NEW v, Leads(Undone(s, r), v)
  PROVE  /\ r \in RowsOf(Last(s)) => Last(s).new[r] = v
         /\ Leads(Undone(Front(s), r), IF r \in RowsOf(Last(s)) THEN Last(s).old[r] ELSE v)
<1> DEFINE t == Front(s)
           m == Len(s)
           op == Last(s)
<1>1. /\ m \in Nat \ {0} /\ DOMAIN s = 1 .. m /\ op = s[m] /\ op \in Mods
      /\ t \in Seq(Mods) /\ Len(t) = m - 1 /\ DOMAIN t = 1 .. m - 1
      /\ \A i \in 1 .. m - 1 : t[i] = s[i]
  BY FrontFacts
<1>2. DOMAIN Undone(t, r) = On(t, r) /\ DOMAIN Undone(s, r) = On(s, r) /\ On(s, r) \subseteq Nat
  <2> HIDE DEF t
  <2> QED BY <1>1, OnFacts
<1>3. On(t, r) = On(s, r) \ {m} /\ \A k \in On(s, r) : k <= m
  <2> HIDE DEF t, m
  <2>1. \A k : k \in 1 .. m - 1 <=> k \in 1 .. m /\ k # m
    BY <1>1
  <2> QED BY <1>1, <2>1 DEF On
<1>4. \A k \in On(t, r) : Undone(t, r)[k] = Undone(s, r)[k]
  <2> HIDE DEF t, m
  <2>1. \A k \in On(t, r) : k \in On(s, r) /\ k \in 1 .. m - 1
    BY <1>1, <1>3, OnFacts
  <2> QED BY <1>1, <2>1, OnFacts
<1>5. CASE r \in RowsOf(op)
  <2>1. m \in On(s, r)
    BY <1>1, <1>5 DEF On
  <2> HIDE DEF t, m, op
  <2>2. Undone(s, r)[m] = Made(op, r)
    BY <1>1, <2>1, OnFacts
  <2>3. Undone(s, r)[m].to = v /\ Leads(Undone(t, r), Undone(s, r)[m].from)
    BY <1>2, <1>3, <1>4, <2>1, LeadsDrop
  <2>4. op.new[r] = v /\ Leads(Undone(t, r), op.old[r])
    BY <2>2, <2>3 DEF Made
  <2> QED BY <1>5, <2>4 DEF t, op
<1>6. CASE r \notin RowsOf(op)
  <2>1. m \notin On(s, r)
    BY <1>1, <1>6 DEF On
  <2> HIDE DEF t, m, op
  <2>2. On(t, r) = On(s, r)
    BY <1>3, <2>1
  <2>3. Leads(Undone(t, r), v)
    BY <1>2, <1>4, <2>2 DEF Leads
  <2> QED BY <1>6, <2>3 DEF t, op
<1> QED BY <1>5, <1>6

LEMMA RedoneFront ==
  ASSUME NEW s \in Seq(Mods), s # <<>>, NEW r, NEW v, Leads(Redone(s, r), v)
  PROVE  /\ r \in RowsOf(Last(s)) => Last(s).old[r] = v
         /\ Leads(Redone(Front(s), r), IF r \in RowsOf(Last(s)) THEN Last(s).new[r] ELSE v)
<1> DEFINE t == Front(s)
           m == Len(s)
           op == Last(s)
<1>1. /\ m \in Nat \ {0} /\ DOMAIN s = 1 .. m /\ op = s[m] /\ op \in Mods
      /\ t \in Seq(Mods) /\ Len(t) = m - 1 /\ DOMAIN t = 1 .. m - 1
      /\ \A i \in 1 .. m - 1 : t[i] = s[i]
  BY FrontFacts
<1>2. DOMAIN Redone(t, r) = On(t, r) /\ DOMAIN Redone(s, r) = On(s, r) /\ On(s, r) \subseteq Nat
  <2> HIDE DEF t
  <2> QED BY <1>1, OnFacts
<1>3. On(t, r) = On(s, r) \ {m} /\ \A k \in On(s, r) : k <= m
  <2> HIDE DEF t, m
  <2>1. \A k : k \in 1 .. m - 1 <=> k \in 1 .. m /\ k # m
    BY <1>1
  <2> QED BY <1>1, <2>1 DEF On
<1>4. \A k \in On(t, r) : Redone(t, r)[k] = Redone(s, r)[k]
  <2> HIDE DEF t, m
  <2>1. \A k \in On(t, r) : k \in On(s, r) /\ k \in 1 .. m - 1
    BY <1>1, <1>3, OnFacts
  <2> QED BY <1>1, <2>1, OnFacts
<1>5. CASE r \in RowsOf(op)
  <2>1. m \in On(s, r)
    BY <1>1, <1>5 DEF On
  <2> HIDE DEF t, m, op
  <2>2. Redone(s, r)[m] = TakenBack(op, r)
    BY <1>1, <2>1, OnFacts
  <2>3. Redone(s, r)[m].to = v /\ Leads(Redone(t, r), Redone(s, r)[m].from)
    BY <1>2, <1>3, <1>4, <2>1, LeadsDrop
  <2>4. op.old[r] = v /\ Leads(Redone(t, r), op.new[r])
    BY <2>2, <2>3 DEF TakenBack
  <2> QED BY <1>5, <2>4 DEF t, op
<1>6. CASE r \notin RowsOf(op)
  <2>1. m \notin On(s, r)
    BY <1>1, <1>6 DEF On
  <2> HIDE DEF t, m, op
  <2>2. On(t, r) = On(s, r)
    BY <1>3, <2>1
  <2>3. Leads(Redone(t, r), v)
    BY <1>2, <1>4, <2>2 DEF Leads
  <2> QED BY <1>6, <2>3 DEF t, op
<1> QED BY <1>5, <1>6

\* The newest entry of the row is op.
OnTop(s, r, op) == \E m \in On(s, r) : (\A k \in On(s, r) : k <= m) /\ s[m] = op

\* An operation is taken out of the stack: the newest of its rows, when it is there.
LEMMA UndoneWithout ==
  ASSUME NEW s \in Seq(Mods), Distinct(s), NEW op \in Mods, NEW r, NEW v, Leads(Undone(s, r), v),
         IF r \in RowsOf(op) THEN On(s, r) = {} \/ OnTop(s, r, op)
         ELSE \A k \in On(s, r) : s[k].id # op.id
  PROVE  Leads(Undone(Keeping(s, {i \in DOMAIN s : s[i].id # op.id}), r),
               IF r \in RowsOf(op) THEN op.old[r] ELSE v)
<1> DEFINE K == {i \in DOMAIN s : s[i].id # op.id}
           t == Keeping(s, K)
           w == IF r \in RowsOf(op) THEN op.old[r] ELSE v
<1>1. K \subseteq DOMAIN s /\ DOMAIN s = 1 .. Len(s) /\ Len(s) \in Nat
  OBVIOUS
<1>2. Len(t) \in Nat /\ t \in Seq(Mods) /\ DOMAIN t = 1 .. Len(t)
  <2> HIDE DEF K
  <2> QED BY <1>1, KeepingFacts
<1>3. PICK f \in [1 .. Len(t) -> K] :
        /\ \A j \in 1 .. Len(t) : t[j] = s[f[j]]
        /\ \A i, j \in 1 .. Len(t) : i < j => f[i] < f[j]
        /\ \A k \in K : \E j \in 1 .. Len(t) : f[j] = k
  <2> HIDE DEF K, t
  <2>1. \E f \in [1 .. Len(Keeping(s, K)) -> K] :
          /\ \A j \in 1 .. Len(Keeping(s, K)) : Keeping(s, K)[j] = s[f[j]]
          /\ \A i, j \in 1 .. Len(Keeping(s, K)) : i < j => f[i] < f[j]
          /\ \A k \in K : \E j \in 1 .. Len(Keeping(s, K)) : f[j] = k
    BY <1>1, KeepingOrder
  <2> QED BY <2>1, Zenon DEF t
<1> DEFINE g == [j \in On(t, r) |-> f[j]]
<1>4. On(t, r) \subseteq 1 .. Len(t) /\ On(t, r) \subseteq Nat /\ On(s, r) \subseteq 1 .. Len(s)
  <2> HIDE DEF t, K
  <2> QED BY <1>2, OnFacts
<1>5. \A j \in On(t, r) : g[j] = f[j] /\ f[j] \in On(s, r) /\ t[j] = s[f[j]] /\ s[f[j]].id # op.id
  <2>1. \A j \in 1 .. Len(t) : f[j] \in DOMAIN s /\ s[f[j]].id # op.id
    BY <1>3
  <2> HIDE DEF t, K
  <2> QED BY <1>2, <1>3, <1>4, <2>1 DEF On
<1>6. \A k \in On(s, r) : s[k].id # op.id => \E j \in On(t, r) : f[j] = k
  <2> SUFFICES ASSUME NEW k \in On(s, r), s[k].id # op.id PROVE \E j \in On(t, r) : f[j] = k
    OBVIOUS
  <2>1. k \in K /\ r \in RowsOf(s[k])
    BY <1>1, <1>4, OnFacts
  <2> HIDE DEF t, K
  <2>2. PICK j \in 1 .. Len(t) : f[j] = k
    BY <1>3, <2>1
  <2>3. j \in On(t, r)
    BY <1>2, <1>3, <2>1, <2>2 DEF On
  <2> QED BY <2>2, <2>3
<1> HIDE DEF t, K
<1>7. DOMAIN g = On(t, r) /\ DOMAIN Undone(t, r) = On(t, r) /\ DOMAIN Undone(s, r) = On(s, r)
  BY <1>2, OnFacts
<1>8. \A j \in On(t, r) : Undone(t, r)[j] = Undone(s, r)[g[j]]
  BY <1>2, <1>5, OnFacts
<1>9. \A i, j \in On(t, r) : i < j => g[i] < g[j]
  BY <1>3, <1>4, <1>5
<1>10. ASSUME NEW m \in On(s, r), \A k \in On(s, r) : k <= m, s[m] = op, NEW k \in On(s, r), k # m
       PROVE  \E j \in On(t, r) : f[j] = k
  <2>1. s[k].id # op.id
    BY <1>1, <1>4, <1>10 DEF Distinct
  <2> QED BY <1>6, <2>1
<1>11. \A i, j \in On(t, r), k \in On(s, r) : g[i] < k /\ k < g[j] => \E l \in On(t, r) : g[l] = k
  <2> SUFFICES ASSUME NEW i \in On(t, r), NEW j \in On(t, r), NEW k \in On(s, r), g[i] < k, k < g[j]
               PROVE  \E l \in On(t, r) : f[l] = k
    BY <1>5
  <2>1. CASE r \in RowsOf(op)
    <3>1. PICK m \in On(s, r) : (\A h \in On(s, r) : h <= m) /\ s[m] = op
      BY <2>1 DEF OnTop
    <3>2. k # m
      BY <1>1, <1>4, <1>5, <3>1
    <3> QED BY <1>10, <3>1, <3>2
  <2>2. CASE r \notin RowsOf(op)
    BY <1>6, <2>2
  <2> QED BY <2>1, <2>2
<1>12. ASSUME NEW j \in On(t, r), \A k \in On(t, r) : k <= j PROVE Undone(s, r)[g[j]].to = w
  <2>1. g[j] = f[j] /\ f[j] \in On(s, r) /\ f[j] \in Nat
    BY <1>1, <1>4, <1>5
  <2>2. ASSUME NEW l \in On(t, r) PROVE f[l] <= f[j] /\ f[l] \in Nat
    BY <1>1, <1>3, <1>4, <1>5, <1>12, <2>1, <2>2
  <2>3. CASE r \in RowsOf(op)
    <3>1. PICK m \in On(s, r) : (\A h \in On(s, r) : h <= m) /\ s[m] = op
      BY <2>1, <2>3 DEF OnTop
    <3>2. f[j] # m /\ f[j] <= m /\ m \in Nat
      BY <1>1, <1>4, <1>5, <2>1, <3>1
    <3>3. \A k \in On(s, r) : k <= f[j] \/ m <= k
      <4> SUFFICES ASSUME NEW k \in On(s, r), k # m PROVE k <= f[j]
        BY <1>4, <3>2
      <4> QED BY <1>10, <2>2, <3>1
    <3>4. Undone(s, r)[f[j]].to = Undone(s, r)[m].from
      <4>1. f[j] < m
        BY <2>1, <3>2
      <4>2. /\ f[j] \in DOMAIN Undone(s, r) /\ m \in DOMAIN Undone(s, r)
            /\ \A k \in DOMAIN Undone(s, r) : k <= f[j] \/ m <= k
        BY <1>7, <2>1, <3>1, <3>3
      <4> QED BY <4>1, <4>2 DEF Leads
    <3>5. Undone(s, r)[m] = Made(op, r)
      BY <3>1, OnFacts
    <3> QED BY <2>1, <2>3, <3>4, <3>5 DEF Made
  <2>4. CASE r \notin RowsOf(op)
    <3>1. \A k \in On(s, r) : k <= f[j]
      BY <1>6, <2>2, <2>4
    <3>2. Undone(s, r)[f[j]].to = v
      BY <1>7, <2>1, <3>1 DEF Leads
    <3> QED BY <2>1, <2>4, <3>2
  <2> QED BY <2>3, <2>4
<1> HIDE DEF g, w
<1>13. On(s, r) \subseteq Nat /\ \A j \in On(t, r) : g[j] \in On(s, r)
  BY <1>4, <1>5, OnFacts
<1>14. Leads(Along(Undone(s, r), g), w)
  BY <1>4, <1>7, <1>9, <1>11, <1>12, <1>13, LeadsAlong
<1>15. Undone(t, r) = Along(Undone(s, r), g)
  BY <1>7, <1>8 DEF Along, Undone
<1> QED BY <1>14, <1>15 DEF w, t, K

-----------------------------------------------------------------------------
(* One row: how the operations on their way to the server come and go.     *)

LEMMA EntriesAre ==
  \A e \in Entries : e.n \in Nat /\ e.op \in Ops /\ e.op.type \in Types
BY BoundAssumption, OpsAre DEF Entries

\* A change of the cell is made and shown; a row that is gone stays away.
LEMMA RowModified ==
  ASSUME NEW r, NEW v, NEW sv, NEW W, W \subseteq Entries, NEW S, NEW M, NEW T,
         Agrees(r, v, sv, W, S, M, T),
         NEW e \in Entries, e.op.type = "modify", e.op.new[r] # Absent, e.n \notin S,
         \A f \in W : f.n < e.n,
         v = Absent => \A f \in W : f.op.type # "insert",
         NEW v2, v2 = IF v # Absent THEN e.op.new[r] ELSE v
  PROVE  Agrees(r, v2, sv, W \cup {e}, S, M, T)
<1>1. e \in Shown(W \cup {e}) /\ LastOf(Shown(W \cup {e})) \subseteq {e}
  <2>1. e \in Shown(W \cup {e})
    BY DEF Shown, AfterServer
  <2>2. ASSUME NEW f \in LastOf(Shown(W \cup {e})) PROVE f = e
    <3>1. f \in W \cup {e} /\ e.n <= f.n
      BY <2>1 DEF LastOf, Shown
    <3> QED BY <3>1, EntriesAre
  <2> QED BY <2>1, <2>2
<1>2. \A f \in W : f.op.type # "insert"
  BY DEF Agrees
<1>3. v2 = Absent <=> v = Absent
  OBVIOUS
<1>4. v2 = Absent => \/ sv = Absent
                     \/ \E f \in W : f.op.type = "delete" /\ f.n \notin S
                     \/ \E f \in W : f.op.type = "insert" /\ f.n \in S
  BY <1>3 DEF Agrees
<1>5. \A f \in W \cup {e} : f.n \in S /\ (M = {} \/ f.op.new[r] = Absent) => sv = f.op.new[r]
  BY DEF Agrees
<1> QED BY <1>1, <1>2, <1>3, <1>4, <1>5 DEF Agrees

LEMMA RowModifiedChain ==
  ASSUME NEW r, NEW v, NEW sv, NEW W, W \subseteq Entries, NEW S, NEW M, NEW T,
         Agrees(r, v, sv, W, S, M, T), Chained(r, v, sv, W, S, M), v # Absent,
         NEW e \in Entries, e.op.type = "modify", e.op.new[r] # Absent, e.n \notin S,
         \A f \in W : f.n < e.n, e.op.old[r] = v
  PROVE  Chained(r, e.op.new[r], sv, W \cup {e}, S, M)
<1> DEFINE E == Shown(W)
           F == Shown(W \cup {e})
<1>1. F = E \cup {e} /\ e.n \in Nat /\ \A f \in E : f \in Entries /\ f.n < e.n /\ f.n \in Nat
  BY EntriesAre DEF Shown, AfterServer
<1> HIDE DEF E, F
<1>2. LastOf(F) \subseteq {e}
  <2>1. ASSUME NEW f \in LastOf(F) PROVE f = e
    <3>1. f \in E \cup {e} /\ e.n <= f.n
      BY <1>1, <2>1 DEF LastOf
    <3> QED BY <1>1, <3>1
  <2> QED BY <2>1
<1>3. ASSUME NEW f \in F, NEW g \in F, f.n < g.n, \A h \in F : h.n <= f.n \/ g.n <= h.n
      PROVE  f.op.new[r] = g.op.old[r]
  <2>1. f \in E
    BY <1>1, <1>3
  <2>2. CASE g = e
    <3>1. f \in LastOf(E)
      <4>1. \A h \in E : h.n <= f.n
        BY <1>1, <1>3, <2>1, <2>2
      <4> QED BY <2>1, <4>1 DEF LastOf
    <3> QED BY <2>2, <3>1 DEF Chained, E
  <2>3. CASE g \in E
    BY <1>1, <1>3, <2>1, <2>3 DEF Chained, E
  <2> QED BY <1>1, <2>2, <2>3
<1>4. ASSUME M = {}, NoneStored(W \cup {e}, S), NEW f \in FirstOf(F) PROVE f.op.old[r] = sv
  <2>1. NoneStored(W, S)
    BY <1>4 DEF NoneStored
  <2>2. CASE f \in E
    <3>1. f \in FirstOf(E)
      BY <1>1, <1>4, <2>2 DEF FirstOf
    <3> QED BY <1>4, <2>1, <3>1 DEF Chained, E
  <2>3. CASE f = e
    <3>1. ASSUME NEW g \in E PROVE FALSE
      BY <1>1, <1>4, <2>3, <3>1 DEF FirstOf
    <3>2. v = sv
      BY <1>4, <2>1, <3>1 DEF Agrees, E
    <3> QED BY <2>3, <3>2
  <2> QED BY <1>1, <1>4, <2>2, <2>3 DEF FirstOf
<1>5. \A f \in F : f.op.type = "modify"
  BY <1>1 DEF Chained, E
<1> QED BY <1>2, <1>3, <1>4, <1>5 DEF Chained, F

\* The row is deleted, or a deletion of it waits for the server.
LEMMA RowDeleted ==
  ASSUME NEW r, NEW v, NEW sv, NEW W, W \subseteq Entries, NEW S, NEW M, NEW T, NEW T2,
         Agrees(r, v, sv, W, S, M, T), v # Absent,
         NEW e \in Entries, e.op.type \in {"delete", "deleteRows"}, e.n \notin S,
         \A f \in W : f.n < e.n
  PROVE  /\ e.op.type = "delete" => Agrees(r, Absent, sv, W \cup {e}, S, M, T2)
         /\ e.op.type = "deleteRows" => Agrees(r, v, sv, W \cup {e}, S, M, T)
<1>1. /\ \A f \in W : f.op.type # "insert"
      /\ \A f \in W \cup {e} : f.n \in S /\ (M = {} \/ f.op.new[r] = Absent) => sv = f.op.new[r]
  BY DEF Agrees
<1>2. ASSUME e.op.type = "delete" PROVE Agrees(r, Absent, sv, W \cup {e}, S, M, T2)
  <2>1. e \in Shown(W \cup {e})
    BY <1>2 DEF Shown, AfterServer
  <2>2. ASSUME NEW f \in LastOf(Shown(W \cup {e})) PROVE f = e
    <3>1. f \in W \cup {e} /\ e.n <= f.n
      BY <2>1, <2>2 DEF LastOf, Shown
    <3> QED BY <3>1, EntriesAre
  <2> QED BY <1>1, <1>2, <2>1, <2>2 DEF Agrees
<1>3. ASSUME e.op.type = "deleteRows" PROVE Agrees(r, v, sv, W \cup {e}, S, M, T)
  <2>1. Shown(W \cup {e}) = Shown(W)
    BY <1>3 DEF Shown, AfterServer
  <2>2. NoneStored(W \cup {e}, S) <=> NoneStored(W, S)
    BY DEF NoneStored
  <2> QED BY <1>1, <1>3, <2>1, <2>2 DEF Agrees
<1> QED BY <1>2, <1>3

\* An operation that is applied later changes nothing of the chain.
LEMMA RowDeferredChain ==
  ASSUME NEW r, NEW v, NEW sv, NEW W, NEW S, NEW M,
         Chained(r, v, sv, W, S, M), NEW e, e.op.type \in AfterServer, e.n \notin S
  PROVE  Chained(r, v, sv, W \cup {e}, S, M)
<1>1. Shown(W \cup {e}) = Shown(W)
  BY DEF Shown
<1>2. NoneStored(W \cup {e}, S) <=> NoneStored(W, S)
  BY DEF NoneStored
<1> QED BY <1>1, <1>2 DEF Chained

\* An insertion waits for the server, of a row that nobody knows yet.
LEMMA RowInserted ==
  ASSUME NEW r, NEW S, NEW M, NEW T, r \notin T, NEW e \in Entries, e.op.type = "insert", e.n \notin S
  PROVE  Agrees(r, Absent, Absent, {e}, S, M, T)
<1>1. Shown({e}) = {}
  BY DEF Shown, AfterServer
<1> QED BY <1>1 DEF Agrees, LastOf

\* Nothing is on its way.
LEMMA RowAlone ==
  ASSUME NEW r, NEW v, NEW S, NEW M, NEW T
  PROVE  Agrees(r, v, v, {}, S, M, T) /\ Chained(r, v, v, {}, S, M)
<1>1. Shown({}) = {}
  BY DEF Shown
<1> QED BY <1>1 DEF Agrees, Chained, LastOf, FirstOf

\* What is stored of other rows does not matter.
LEMMA RowElsewhere ==
  ASSUME NEW r, NEW v, NEW sv, NEW W, NEW S, NEW S2, NEW M, NEW T,
         Agrees(r, v, sv, W, S, M, T), \A e \in W : e.n \in S <=> e.n \in S2
  PROVE  /\ Agrees(r, v, sv, W, S2, M, T)
         /\ Chained(r, v, sv, W, S, M) => Chained(r, v, sv, W, S2, M)
<1>1. NoneStored(W, S) <=> NoneStored(W, S2)
  BY DEF NoneStored
<1>2. \A e \in LastOf(Shown(W)) : e \in W
  BY DEF LastOf, Shown
<1>3. /\ (\E e \in W : e.op.type = "delete" /\ e.n \notin S) => \E e \in W : e.op.type = "delete" /\ e.n \notin S2
      /\ (\E e \in W : e.op.type = "insert" /\ e.n \in S) => \E e \in W : e.op.type = "insert" /\ e.n \in S2
  OBVIOUS
<1> QED BY <1>1, <1>2, <1>3 DEF Agrees, Chained

\* The oldest operation on its way: the places of the others come later.
Oldest(e, W) == e \in W /\ \A f \in W : e.n <= f.n /\ (f.n = e.n => f = e)

\* The server executes it.
LEMMA RowStored ==
  ASSUME NEW r, NEW v, NEW sv, NEW W, W \subseteq Entries, NEW M, NEW T,
         Agrees(r, v, sv, W, {}, M, T), NEW e, Oldest(e, W),
         e.op.type = "modify" => sv # Absent /\ e.op.new[r] # Absent,
         e.op.type \in {"delete", "deleteRows"} => e.op.new[r] = Absent,
         e.op.type # "groupbys"
  PROVE  /\ Agrees(r, v, e.op.new[r], W, {e.n}, M, T)
         /\ Chained(r, v, sv, W, {}, M) => Chained(r, v, e.op.new[r], W, {e.n}, M)
<1>1. /\ e \in W /\ \A f \in W : f.n = e.n => f = e
      /\ \A f \in W : f.n \in {e.n} <=> f = e
  BY DEF Oldest
<1>2. e.op.type \in Types
  BY <1>1, EntriesAre
<1>3. v = Absent => sv = Absent \/ \E f \in W : f.op.type = "delete"
  BY DEF Agrees
<1>4. ASSUME NEW f \in LastOf(Shown(W)), f.op.type = "modify", f.n \in {e.n} PROVE v # Absent
  <2>1. f = e /\ \A g \in Shown(W) : g.n <= e.n
    BY <1>1, <1>4 DEF LastOf, Shown
  <2>2. ASSUME NEW g \in W, g.op.type = "delete" PROVE FALSE
    <3>1. g.n <= e.n /\ e.n <= g.n /\ g.n \in Nat /\ e.n \in Nat
      BY <1>1, <2>1, <2>2, EntriesAre DEF Shown, AfterServer, Oldest
    <3>2. g = e
      BY <1>1, <3>1
    <3> QED BY <1>4, <2>1, <2>2, <3>2
  <2> QED BY <1>3, <1>4, <2>1, <2>2
<1>5. \A f \in W : f.n \in {e.n} => e.op.new[r] = f.op.new[r]
  BY <1>1
<1>6. ~NoneStored(W, {e.n})
  BY <1>1 DEF NoneStored
<1>7. v = Absent => \/ e.op.new[r] = Absent
                    \/ \E f \in W : f.op.type = "delete" /\ f.n \notin {e.n}
                    \/ \E f \in W : f.op.type = "insert" /\ f.n \in {e.n}
  <2>1. CASE e.op.type = "insert"
    BY <1>1, <2>1
  <2>2. CASE e.op.type \in {"delete", "deleteRows"}
    BY <2>2
  <2>3. CASE e.op.type = "modify"
    BY <1>1, <1>3, <2>3
  <2> QED BY <1>2, <2>1, <2>2, <2>3 DEF Types
<1>8. Agrees(r, v, e.op.new[r], W, {e.n}, M, T)
  BY <1>4, <1>5, <1>6, <1>7 DEF Agrees
<1> QED BY <1>6, <1>8 DEF Chained

\* Its answer, when it was shown before it was sent.
LEMMA RowAnswered ==
  ASSUME NEW r, NEW v, NEW sv, NEW W, W \subseteq Entries, NEW M, NEW T, NEW e, Oldest(e, W),
         Agrees(r, v, sv, W, {e.n}, M, T), e.op.type \in {"modify", "delete"},
         e.op.type = "delete" => e.op.new[r] = Absent
  PROVE  /\ Agrees(r, v, sv, W \ {e}, {}, M, T)
         /\ Chained(r, v, sv, W, {e.n}, M) => Chained(r, v, sv, W \ {e}, {}, M)
<1> DEFINE E == Shown(W)
           F == Shown(W \ {e})
<1>1. /\ e \in E /\ F = E \ {e} /\ E \subseteq W
      /\ \A f \in W : f.n \in Nat /\ e.n <= f.n /\ (f.n = e.n => f = e)
      /\ e \in W /\ e.n \in Nat
  BY EntriesAre DEF Shown, AfterServer, Oldest
<1>2. \A f \in W : f.n \in {e.n} <=> f = e
  BY <1>1
<1>3. \A f \in F : f \in E /\ f \in W /\ e.n < f.n
  BY <1>1
<1>4. LastOf(F) \subseteq LastOf(E)
  BY <1>1, <1>3 DEF LastOf
<1>5. F = {} => e \in LastOf(E)
  BY <1>1 DEF LastOf
<1> HIDE DEF E, F
<1>6. M = {} \/ e.op.new[r] = Absent => sv = e.op.new[r]
  BY <1>1, <1>2 DEF Agrees
<1>7. F = {} /\ M = {} => v = sv
  <2> SUFFICES ASSUME F = {}, M = {} PROVE v = sv
    OBVIOUS
  <2>1. /\ v # Absent => v = e.op.new[r]
        /\ e.op.type = "modify" => v # Absent
    BY <1>2, <1>5 DEF Agrees, E
  <2> QED BY <1>6, <2>1
<1>8. v = Absent => sv = Absent \/ \E f \in W \ {e} : f.op.type = "delete" /\ f.n \notin {}
  <2>1. v = Absent => \/ sv = Absent
                      \/ \E f \in W : f.op.type = "delete" /\ f.n \notin {e.n}
                      \/ \E f \in W : f.op.type = "insert" /\ f.n \in {e.n}
    BY DEF Agrees
  <2> QED BY <1>2, <2>1
<1>9. \A f \in W : f.op.type # "insert"
  BY <1>1 DEF Agrees
<1>10. \A f \in LastOf(F) : v # Absent => v = f.op.new[r]
  BY <1>4 DEF Agrees, E
<1>11. Agrees(r, v, sv, W \ {e}, {}, M, T)
  BY <1>7, <1>8, <1>9, <1>10 DEF Agrees, F
<1>12. ASSUME Chained(r, v, sv, W, {e.n}, M) PROVE Chained(r, v, sv, W \ {e}, {}, M)
  <2>1. /\ F # {} => v # Absent
        /\ \A f \in F : f.op.type = "modify"
        /\ \A f \in LastOf(F) : v = f.op.new[r]
    BY <1>1, <1>3, <1>4, <1>12 DEF Chained, E
  <2>2. ASSUME NEW f \in F, NEW g \in F, f.n < g.n, \A h \in F : h.n <= f.n \/ g.n <= h.n
        PROVE  f.op.new[r] = g.op.old[r]
    <3>1. \A h \in E : h.n <= f.n \/ g.n <= h.n
      BY <1>1, <1>3, <2>2
    <3> QED BY <1>3, <1>12, <2>2, <3>1 DEF Chained, E
  <2>3. ASSUME M = {}, NEW f \in FirstOf(F) PROVE f.op.old[r] = sv
    <3>1. f \in F /\ f \in E /\ e \in E /\ e.n < f.n /\ \A h \in E : h.n <= e.n \/ f.n <= h.n
      BY <1>1, <1>3, <2>3 DEF FirstOf
    <3>2. e.op.new[r] = f.op.old[r]
      BY <1>12, <3>1 DEF Chained, E
    <3> QED BY <1>6, <2>3, <3>2
  <2> QED BY <2>1, <2>2, <2>3 DEF Chained, F
<1> QED BY <1>11, <1>12

\* Its answer, when it waited for the server to be shown.
LEMMA RowDone ==
  ASSUME NEW r, NEW v, NEW sv, NEW W, W \subseteq Entries, NEW M, NEW T, NEW T2, NEW e, Oldest(e, W),
         Agrees(r, v, sv, W, {e.n}, M, T), e.op.type \in AfterServer,
         e.op.type = "deleteRows" <=> e.op.new[r] = Absent
  PROVE  /\ Agrees(r, e.op.new[r], sv, W \ {e}, {}, M, T2)
         /\ e.op.new[r] = v /\ Chained(r, v, sv, W, {e.n}, M) => Chained(r, v, sv, W \ {e}, {}, M)
<1>1. /\ Shown(W \ {e}) = Shown(W) /\ Shown(W) \subseteq W
      /\ \A f \in W : f.n \in {e.n} <=> f = e
      /\ e \in W
  BY DEF Shown, Oldest
<1>2. M = {} \/ e.op.new[r] = Absent => sv = e.op.new[r]
  BY <1>1 DEF Agrees
<1>3. CASE e.op.type = "insert"
  <2>1. W = {e} /\ v = Absent /\ e.op.new[r] # Absent
    BY <1>1, <1>3 DEF Agrees
  <2>2. W \ {e} = {} /\ Shown(W \ {e}) = {}
    BY <2>1 DEF Shown
  <2> QED BY <1>2, <2>1, <2>2 DEF Agrees, LastOf
<1>4. CASE e.op.type = "deleteRows"
  <2>1. e.op.new[r] = Absent /\ sv = Absent /\ \A f \in W : f.op.type # "insert"
    BY <1>1, <1>2, <1>4 DEF Agrees
  <2>2. Agrees(r, Absent, Absent, W \ {e}, {}, M, T2)
    BY <2>1 DEF Agrees
  <2>3. ASSUME v = Absent, Chained(r, v, sv, W, {e.n}, M) PROVE Chained(r, v, sv, W \ {e}, {}, M)
    <3>1. Shown(W) = {}
      BY <2>3 DEF Chained
    <3> QED BY <1>1, <3>1 DEF Chained, LastOf, FirstOf
  <2> QED BY <2>1, <2>2, <2>3
<1> QED BY <1>3, <1>4 DEF AfterServer

\* It fails before it was stored, and was not shown.
LEMMA RowDropped ==
  ASSUME NEW r, NEW v, NEW sv, NEW W, NEW M, NEW T, NEW e, e \in W,
         Agrees(r, v, sv, W, {}, M, T), e.op.type \in AfterServer
  PROVE  /\ Agrees(r, v, sv, W \ {e}, {}, M, T)
         /\ Chained(r, v, sv, W, {}, M) => Chained(r, v, sv, W \ {e}, {}, M)
<1>1. Shown(W \ {e}) = Shown(W)
  BY DEF Shown
<1>2. v = Absent => \/ sv = Absent
                    \/ \E f \in W \ {e} : f.op.type = "delete"
  BY DEF Agrees, AfterServer
<1>3. \A f \in W \ {e} : f.op.type # "insert"
  BY DEF Agrees
<1> QED BY <1>1, <1>2, <1>3 DEF Agrees, Chained, NoneStored

\* It is refused, and nothing has crossed it.
LEMMA RowRefused ==
  ASSUME NEW r, NEW v, NEW sv, NEW M, NEW T, NEW e \in Entries, e.op.type = "modify", e.op.old[r] # Absent,
         Chained(r, v, sv, {e}, {}, M)
  PROVE  /\ v = e.op.new[r] /\ v # Absent
         /\ Agrees(r, e.op.old[r], sv, {}, {}, M, T) /\ Chained(r, e.op.old[r], sv, {}, {}, M)
<1>1. Shown({e}) = {e} /\ Shown({}) = {}
  BY DEF Shown, AfterServer
<1>2. LastOf({e}) = {e} /\ FirstOf({e}) = {e} /\ LastOf({}) = {} /\ FirstOf({}) = {}
  BY EntriesAre DEF LastOf, FirstOf
<1>3. v = e.op.new[r] /\ v # Absent
  BY <1>1, <1>2 DEF Chained
<1>4. M = {} => e.op.old[r] = sv
  BY <1>1, <1>2 DEF Chained, NoneStored
<1> QED BY <1>1, <1>2, <1>3, <1>4 DEF Agrees, Chained

\* A change confirmed in the dialog is stored.
LEMMA RowConfirmed ==
  ASSUME NEW r, NEW v, NEW sv, NEW W, NEW S, NEW M, NEW T, NEW sv2, NEW M2,
         Agrees(r, v, sv, W, S, M, T), sv # Absent, M2 # {}
  PROVE  /\ Agrees(r, v, sv2, W, S, M2, T)
         /\ Chained(r, v, sv, W, S, M) => Chained(r, v, sv2, W, S, M2)
BY DEF Agrees, Chained

\* What was touched matters only to insertions.
LEMMA RowTouched ==
  ASSUME NEW r, NEW v, NEW sv, NEW W, NEW S, NEW M, NEW T, NEW T2,
         Agrees(r, v, sv, W, S, M, T), r \in T2 => r \in T
  PROVE  Agrees(r, v, sv, W, S, M, T2)
BY DEF Agrees

-----------------------------------------------------------------------------
(* What the server answers.                                                *)

LEMMA ExecutedIs ==
  ASSUME NEW e \in InFlight
  PROVE  /\ Executed(e) \in InFlight
         /\ Executed(e).op = e.op /\ Executed(e).n = e.n /\ Executed(e).by = e.by
         /\ Executed(e).phase = "stored"
         /\ \A r \in Executed(e).failed : /\ r \in RowsOf(e.op) /\ e.op.type = "deleteRows"
                                          /\ server[r] = Absent
<1>1. RowsOf(e.op) \subseteq Rows
  BY OpsAre DEF InFlight
<1> DEFINE F == {r \in RowsOf(e.op) : e.op.type = "deleteRows" /\ server[r] = Absent}
<1>2. F \in SUBSET Rows /\ \A r \in F : r \in RowsOf(e.op) /\ e.op.type = "deleteRows" /\ server[r] = Absent
  BY <1>1
<1>3. Executed(e) = [e EXCEPT !.phase = "stored", !.failed = F]
  BY DEF Executed
<1> HIDE DEF F
<1> QED BY <1>2, <1>3 DEF InFlight

\* What the server stored of an operation is an operation, on fewer rows.
LEMMA SucceededIs ==
  ASSUME NEW e \in InFlight
  PROVE  /\ Succeeded(e) \in Ops /\ Succeeded(e).type = e.op.type
         /\ \A r : r \in RowsOf(Succeeded(e)) <=>
                     r \in RowsOf(e.op) /\ (e.op.type = "deleteRows" => r \notin e.failed)
         /\ \A r \in RowsOf(Succeeded(e)) : Succeeded(e).new[r] = e.op.new[r]
<1>1. e.op \in Ops
  BY DEF InFlight
<1>2. CASE e.op.type # "deleteRows"
  BY <1>1, <1>2 DEF Succeeded
<1>3. CASE e.op.type = "deleteRows"
  <2> DEFINE op == e.op
             rs == RowsOf(op) \ e.failed
             new == [r \in rs |-> op.new[r]]
             old == [r \in rs |-> op.old[r]]
  <2>1. /\ rs \subseteq Rows /\ DOMAIN new = rs /\ DOMAIN old = rs
        /\ \A r \in rs : new[r] = Absent /\ old[r] \in Cell /\ op.new[r] = Absent
    BY <1>1, <1>3, OpsAre DEF Ops
  <2>2. new \in Updates /\ old \in Updates
    BY <2>1, UpdatesAre DEF Cell
  <2>3. Succeeded(e) = [op EXCEPT !.new = new, !.old = old]
    BY <1>3 DEF Succeeded, Stripped
  <2>4. op \in Operation /\ op.type = "deleteRows"
    BY <1>1, <1>3, OpsAre
  <2> HIDE DEF op, rs, new, old
  <2>5. /\ Succeeded(e) \in Operation /\ Succeeded(e).type = "deleteRows"
        /\ Succeeded(e).new = new
    BY <2>1, <2>2, <2>3, <2>4 DEF Operation
  <2>6. Succeeded(e) \in Ops
    BY <2>1, <2>5 DEF Ops, RowsOf
  <2>7. RowsOf(Succeeded(e)) = rs
    BY <2>1, <2>5 DEF RowsOf
  <2> QED BY <1>3, <2>1, <2>5, <2>6, <2>7 DEF rs, op
<1> QED BY <1>2, <1>3

-----------------------------------------------------------------------------
(* Types of the tables, the stacks and the queue.                          *)

LEMMA AppliedTypes ==
  ASSUME NEW d \in Tables, NEW op \in Ops
  PROVE  Applied(d, op) \in Tables
<1>1. ASSUME NEW c \in Tables PROVE Regrouped(c) \in Tables
  BY DEF Regrouped, Tables, Cell
<1>2. /\ RowsOf(op) = DOMAIN op.new /\ op.type \in Types
      /\ \A r \in DOMAIN op.new : op.new[r] \in Cell
  BY OpsAre
<1>3. CASE op.type = "modify"
  <2>1. ModifyRows(d, op.new) \in Tables
    BY <1>2 DEF ModifyRows, Tables
  <2> QED BY <1>1, <1>3, <2>1 DEF Applied
<1>4. CASE op.type \in {"delete", "deleteRows"}
  <2>1. DeleteRows(d, RowsOf(op)) \in Tables
    BY DEF DeleteRows, Tables, Cell
  <2> QED BY <1>4, <2>1 DEF Applied
<1>5. CASE op.type = "insert"
  <2>1. [d EXCEPT !.rows = [r \in Rows |-> IF r \in RowsOf(op) THEN op.new[r] ELSE d.rows[r]]] \in Tables
    BY <1>2 DEF Tables
  <2> QED BY <1>1, <1>5, <2>1 DEF Applied
<1>6. CASE op.type = "groupbys"
  <2>1. [d EXCEPT !.grouped = ~d.grouped] \in Tables
    BY DEF Tables
  <2> QED BY <1>1, <1>6, <2>1 DEF Applied
<1> QED BY <1>2, <1>3, <1>4, <1>5, <1>6 DEF Types

LEMMA LocalTypes ==
  ASSUME NEW d \in Tables, NEW new, CellsOf(new)
  PROVE  AppliedLocally(d, new) \in Tables
BY DEF AppliedLocally, ModifyRows, Tables, CellsOf, Cell

LEMMA HandleTypes ==
  ASSUME NEW h \in Histories, NEW op \in Ops, NEW by \in Handlers
  PROVE  HandleUndoRedos(h, by, op) \in Histories
<1>1. h.undo \in Seq(Mods) /\ h.redos \in Seq(Mods) /\ h = [undo |-> h.undo, redos |-> h.redos]
  BY DEF Histories
<1>2. CASE by.kind = "do"
  <2>1. NewestUndo(h.undo) \in Seq(Mods)
    BY <1>1, NewestFacts
  <2>2. op.type \in Undoable => Append(NewestUndo(h.undo), op) \in Seq(Mods)
    BY <2>1, OpsAre, AppendFacts DEF Undoable
  <2>3. HandleDo(h, op.type, op) \in Histories
    BY <2>1, <2>2 DEF HandleDo, Histories
  <2> QED BY <1>2, <2>3 DEF HandleUndoRedos
<1>3. CASE by.kind = "undo"
  <2>1. by.op \in Mods
    BY <1>3 DEF Handlers
  <2>2. Append(h.redos, by.op) \in Seq(Mods)
    BY <1>1, <2>1, AppendFacts
  <2>3. HandleUndoRedos(h, by, op) = [h EXCEPT !.redos = Append(@, by.op)]
    BY <1>3 DEF HandleUndoRedos
  <2> QED BY <1>1, <2>2, <2>3 DEF Histories
<1>4. CASE by.kind = "redo"
  <2>1. by.op \in Mods
    BY <1>4 DEF Handlers
  <2>2. Append(h.undo, by.op) \in Seq(Mods)
    BY <1>1, <2>1, AppendFacts
  <2>3. HandleUndoRedos(h, by, op) = [h EXCEPT !.undo = Append(@, by.op)]
    BY <1>4 DEF HandleUndoRedos
  <2> QED BY <1>1, <2>2, <2>3 DEF Histories
<1> QED BY <1>2, <1>3, <1>4 DEF Handlers

LEMMA LocalHistory ==
  ASSUME NEW h \in Histories
  PROVE  /\ HandleLocal(h) \in Histories
         /\ HandleLocal(h).undo = NewestUndo(h.undo) /\ HandleLocal(h).redos = <<>>
<1>1. h.undo \in Seq(Mods)
  BY DEF Histories
<1>2. NewestUndo(h.undo) \in Seq(Mods)
  BY <1>1, NewestFacts
<1> QED BY <1>2 DEF HandleLocal, Histories

LEMMA WithoutTypes ==
  ASSUME NEW h \in Histories, NEW op
  PROVE  /\ WithoutUndo(h, op) \in Histories
         /\ WithoutUndo(h, op).undo = Keeping(h.undo, {i \in DOMAIN h.undo : h.undo[i].id # op.id})
         /\ WithoutUndo(h, op).redos = h.redos
<1>1. h.undo \in Seq(Mods) /\ h.redos \in Seq(Mods)
  BY DEF Histories
<1>2. Keeping(h.undo, {i \in DOMAIN h.undo : h.undo[i].id # op.id}) \in Seq(Mods)
  <2>1. {i \in DOMAIN h.undo : h.undo[i].id # op.id} \subseteq DOMAIN h.undo
    OBVIOUS
  <2> QED BY <1>1, <2>1, KeepingFacts
<1> QED BY <1>1, <1>2 DEF WithoutUndo, Histories

\* Sending the next operation takes it from the head of the queue.
LEMMA SendNextTypes ==
  ASSUME NEW queue \in Seq(Entries), NEW others, others \subseteq InFlight, NEW by \in Handlers,
         SendNext(queue, others, by)
  PROVE  pending' \in Seq(Entries) /\ inflight' \subseteq InFlight /\ sending' \in BOOLEAN
<1>1. CASE queue = <<>>
  BY <1>1 DEF SendNext
<1>2. CASE queue # <<>>
  <2>1. Head(queue) \in Entries /\ Tail(queue) \in Seq(Entries)
    BY <1>2, TailFacts
  <2>2. [op |-> Head(queue).op, n |-> Head(queue).n, by |-> by, phase |-> "sent", failed |-> {}] \in InFlight
    BY <2>1 DEF Entries, InFlight
  <2> QED BY <1>2, <2>1, <2>2 DEF SendNext
<1> QED BY <1>1, <1>2

-----------------------------------------------------------------------------
(* Every edit of the user is one operation that is applied.                *)

\* What holds of the operation op, its handler and the stacks it starts from.
Edits(op, by, h) ==
  /\ CanEdit /\ op \in Ops /\ by \in Handlers /\ h \in Histories
  /\ \/ /\ by.kind = "do" /\ h = history /\ op.id = nops + 1
        /\ op.type = "modify" =>
             \A r \in RowsOf(op) : data.rows[r] # Absent /\ op.old[r] = data.rows[r]
        /\ op.type \in {"delete", "deleteRows"} => \A r \in RowsOf(op) : data.rows[r] # Absent
        /\ op.type = "insert" =>
             \A r \in RowsOf(op) : /\ data.rows[r] = Absent /\ server[r] = Absent
                                   /\ ~IsOutstanding(r) /\ r \notin touched
     \/ /\ by.kind = "undo" /\ op.type = "modify" /\ op.id = nops + 1
        /\ history.undo # <<>> /\ by.op = Last(history.undo)
        /\ h = [history EXCEPT !.undo = Front(@)]
        /\ op.new = by.op.old /\ op.old = by.op.new
     \/ /\ by.kind = "redo" /\ op.type = "modify"
        /\ history.redos # <<>> /\ by.op = Last(history.redos) /\ op = by.op
        /\ h = [history EXCEPT !.redos = Front(@)]

EditStep == \E op, by, h : Edits(op, by, h) /\ ApplyOperation(op, by, h)

LEMMA NewOperations ==
  ASSUME Typed, CanEdit, NEW type \in Types, NEW new \in Updates, NEW old \in Updates,
         DOMAIN new = DOMAIN old,
         type = "modify" => CellsOf(new) /\ CellsOf(old),
         type \in {"delete", "deleteRows"} => \A r \in DOMAIN new : new[r] = Absent,
         type = "insert" => CellsOf(new),
         type = "groupbys" => DOMAIN new = {}
  PROVE  /\ NewOperation(type, new, old) \in Ops
         /\ NewOperation(type, new, old).id = nops + 1
         /\ NewOperation(type, new, old).type = type
         /\ NewOperation(type, new, old).new = new /\ NewOperation(type, new, old).old = old
         /\ RowsOf(NewOperation(type, new, old)) = DOMAIN new
<1>1. nops + 1 \in 1..MaxOps
  BY BoundAssumption DEF CanEdit, Typed
<1>2. NewOperation(type, new, old) \in Operation
  BY <1>1 DEF NewOperation, Operation
<1> QED BY <1>2 DEF NewOperation, Ops, Mods, RowsOf, CellsOf

LEMMA ModifyEdits ==
  ASSUME Typed, NEW rs \in (SUBSET Rows) \ {{}}, NEW v \in Values, Modify(rs, v)
  PROVE  EditStep
<1> DEFINE new == [r \in rs |-> v]
           old == [r \in rs |-> data.rows[r]]
           op == NewOperation("modify", new, old)
           by == [kind |-> "do"]
<1>1. \A r \in rs : data.rows[r] \in Values
  BY DEF Modify, Typed, Tables, Cell
<1>2. CellsOf(new) /\ CellsOf(old) /\ new \in Updates /\ old \in Updates /\ DOMAIN new = DOMAIN old
  <2>1. new \in [rs -> Cell] /\ old \in [rs -> Cell] /\ DOMAIN new = rs /\ DOMAIN old = rs
    BY <1>1 DEF Cell
  <2>2. new \in Updates /\ old \in Updates
    BY <2>1, UpdatesAre
  <2> QED BY <1>1, <2>1, <2>2 DEF CellsOf
<1>3. CanEdit
  BY DEF Modify
<1>4. op \in Ops /\ op.id = nops + 1 /\ op.type = "modify" /\ op.old = old /\ RowsOf(op) = rs
  <2> HIDE DEF new, old
  <2>1. DOMAIN new = rs
    BY DEF new
  <2>2. "modify" \in Types
    BY DEF Types
  <2>3. new \in Updates /\ old \in Updates /\ DOMAIN new = DOMAIN old /\ CellsOf(new) /\ CellsOf(old)
    BY <1>2
  <2>4. /\ NewOperation("modify", new, old) \in Ops
        /\ NewOperation("modify", new, old).id = nops + 1
        /\ NewOperation("modify", new, old).type = "modify"
        /\ NewOperation("modify", new, old).old = old
        /\ RowsOf(NewOperation("modify", new, old)) = DOMAIN new
    BY <1>3, <2>2, <2>3, NewOperations
  <2> QED BY <2>1, <2>4
<1>5. ApplyOperation(op, by, history)
  BY DEF Modify, Do
<1> HIDE DEF op
<1>6. Edits(op, by, history)
  BY <1>3, <1>4 DEF Edits, Modify, Handlers, Typed
<1> QED BY <1>5, <1>6 DEF EditStep

LEMMA DeleteEdits ==
  ASSUME Typed, NEW rs \in (SUBSET Rows) \ {{}}, NEW type \in {"delete", "deleteRows"},
         Delete(rs, type)
  PROVE  EditStep
<1> DEFINE new == [r \in rs |-> Absent]
           old == [r \in rs |-> data.rows[r]]
           op == NewOperation(type, new, old)
           by == [kind |-> "do"]
<1>1. new \in Updates /\ old \in Updates /\ DOMAIN new = rs /\ DOMAIN old = rs
  <2>1. new \in [rs -> Cell] /\ old \in [rs -> Cell] /\ DOMAIN new = rs /\ DOMAIN old = rs
    BY DEF Cell, Typed, Tables
  <2> QED BY <2>1, UpdatesAre
<1>2. \A r \in DOMAIN new : new[r] = Absent
  OBVIOUS
<1>3. CanEdit
  BY DEF Delete
<1>4. op \in Ops /\ op.id = nops + 1 /\ op.type = type /\ RowsOf(op) = rs
  <2> HIDE DEF new, old
  <2> QED BY <1>1, <1>2, <1>3, NewOperations DEF Types
<1>5. ApplyOperation(op, by, history)
  BY DEF Delete, Do
<1> HIDE DEF op
<1>6. Edits(op, by, history)
  BY <1>3, <1>4 DEF Edits, Delete, Handlers, Typed
<1> QED BY <1>5, <1>6 DEF EditStep

LEMMA InsertEdits ==
  ASSUME Typed, NEW r \in Rows, NEW v \in Values, Insert(r, v)
  PROVE  EditStep
<1> DEFINE new == [s \in {r} |-> v]
           old == [s \in {r} |-> Absent]
           op == NewOperation("insert", new, old)
           by == [kind |-> "do"]
<1>1. new \in Updates /\ old \in Updates /\ DOMAIN new = {r} /\ DOMAIN old = {r}
  <2>1. new \in [{r} -> Cell] /\ old \in [{r} -> Cell] /\ DOMAIN new = {r} /\ DOMAIN old = {r}
    BY DEF Cell
  <2> QED BY <2>1, UpdatesAre
<1>2. CellsOf(new)
  BY <1>1 DEF CellsOf
<1>3. CanEdit
  BY DEF Insert
<1>4. op \in Ops /\ op.id = nops + 1 /\ op.type = "insert" /\ RowsOf(op) = {r}
  <2> HIDE DEF new, old
  <2> QED BY <1>1, <1>2, <1>3, NewOperations DEF Types
<1>5. ApplyOperation(op, by, history)
  BY DEF Insert, Do
<1> HIDE DEF op
<1>6. Edits(op, by, history)
  BY <1>3, <1>4 DEF Edits, Insert, Handlers, Typed
<1> QED BY <1>5, <1>6 DEF EditStep

LEMMA GroupEdits ==
  ASSUME Typed, ModifyGroupbys
  PROVE  EditStep
<1> DEFINE op == NewOperation("groupbys", << >>, << >>)
           by == [kind |-> "do"]
<1>1. << >> \in Updates /\ DOMAIN << >> = {}
  <2>1. DOMAIN << >> = {} /\ << >> \in [{} -> Cell]
    OBVIOUS
  <2> QED BY <2>1, UpdatesAre
<1>2. CanEdit
  BY DEF ModifyGroupbys
<1>3. op \in Ops /\ op.id = nops + 1 /\ op.type = "groupbys"
  BY <1>1, <1>2, NewOperations DEF Types
<1>4. ApplyOperation(op, by, history)
  BY DEF ModifyGroupbys, Do
<1> HIDE DEF op
<1>5. Edits(op, by, history)
  BY <1>2, <1>3 DEF Edits, Handlers, Typed
<1> QED BY <1>4, <1>5 DEF EditStep

LEMMA UndoEdits ==
  ASSUME Typed, UndoOperation
  PROVE  EditStep
<1> DEFINE top == Last(history.undo)
           op == Inverted(top)
           by == [kind |-> "undo", op |-> top]
           h == [history EXCEPT !.undo = Front(@)]
<1>1. CanEdit /\ history.undo # <<>> /\ ApplyOperation(op, by, h)
  BY DEF UndoOperation
<1>2. top \in Mods /\ h \in Histories
  <2>1. history.undo \in Seq(Mods) /\ history.redos \in Seq(Mods)
    BY DEF Typed, Histories
  <2>2. Front(history.undo) \in Seq(Mods) /\ top \in Mods
    BY <1>1, <2>1, FrontFacts
  <2> QED BY <2>1, <2>2 DEF Histories, Typed
<1> HIDE DEF top
<1>3. op \in Ops /\ op.id = nops + 1 /\ op.type = "modify" /\ op.new = top.old /\ op.old = top.new
  <2>1. CellsOf(top.new) /\ CellsOf(top.old) /\ DOMAIN top.old = DOMAIN top.new
    BY <1>2, ModsAre
  <2> QED BY <1>1, <2>1, NewOperations DEF Inverted, CellsOf, Types
<1>4. by \in Handlers /\ by.kind = "undo" /\ by.op = top
  BY <1>2 DEF Handlers
<1> HIDE DEF op, by, h
<1>5. Edits(op, by, h)
  BY <1>1, <1>2, <1>3, <1>4 DEF Edits, h, top
<1> QED BY <1>1, <1>5 DEF EditStep

LEMMA RedoEdits ==
  ASSUME Typed, RedoOperation
  PROVE  EditStep
<1> DEFINE top == Last(history.redos)
           by == [kind |-> "redo", op |-> top]
           h == [history EXCEPT !.redos = Front(@)]
<1>1. CanEdit /\ history.redos # <<>> /\ ApplyOperation(top, by, h)
  BY DEF RedoOperation
<1>2. top \in Mods /\ h \in Histories
  <2>1. history.undo \in Seq(Mods) /\ history.redos \in Seq(Mods)
    BY DEF Typed, Histories
  <2>2. Front(history.redos) \in Seq(Mods) /\ top \in Mods
    BY <1>1, <2>1, FrontFacts
  <2> QED BY <2>1, <2>2 DEF Histories, Typed
<1> HIDE DEF top
<1>3. top \in Ops /\ top.type = "modify"
  BY <1>2, ModsAre
<1>4. by \in Handlers /\ by.kind = "redo" /\ by.op = top
  BY <1>2 DEF Handlers
<1> HIDE DEF by, h
<1>5. Edits(top, by, h)
  BY <1>1, <1>2, <1>3, <1>4 DEF Edits, h, top
<1> QED BY <1>1, <1>5 DEF EditStep

-----------------------------------------------------------------------------
(* The queue, step by step.                                                *)

LEMMA Steps ==
  ASSUME Typed, [Next]_vars
  PROVE  \/ EditStep
         \/ AskReload \/ ServeReload \/ ApplyReload
         \/ Confirm \/ Dismiss \/ Destroy
         \/ \E e \in inflight : Execute(e) \/ Answer(e)
         \/ \E w \in confirmed : ExecuteConfirmed(w) \/ AnswerConfirmed(w) \/ FailConfirmed(w)
         \/ UNCHANGED vars
<1>1. CASE User
  BY <1>1, ModifyEdits, DeleteEdits, InsertEdits, GroupEdits, UndoEdits, RedoEdits DEF User
<1>2. CASE ~User
  BY <1>2 DEF Next, ServeQueue
<1> QED BY <1>1, <1>2

\* Every answer sends the next operation.
LEMMA AnswerSends ==
  ASSUME NEW e, Answer(e)
  PROVE  /\ SendNext(pending, Others(e), e.by)
         /\ UNCHANGED <<server, confirmed, mounted, nops, nreloads, log>>
BY DEF Answer, AnswerOk, AnswerError, AnswerRefused, AnswerIgnored

LEMMA EditQueue ==
  ASSUME Typed, Queue, NEW op, NEW by, NEW h, Edits(op, by, h), ApplyOperation(op, by, h)
  PROVE  /\ nops + 1 \in 1..MaxOps /\ nops' = nops + 1 /\ sending' = TRUE
         /\ [op |-> op, n |-> nops + 1] \in Entries
         /\ \/ /\ sending /\ inflight # {}
               /\ pending' = Append(pending, [op |-> op, n |-> nops + 1])
               /\ inflight' = inflight
            \/ /\ pending = <<>> /\ inflight = {} /\ pending' = <<>>
               /\ inflight' = {[op |-> op, n |-> nops + 1, by |-> by, phase |-> "sent", failed |-> {}]}
<1> DEFINE x == [op |-> op, n |-> nops + 1]
<1>1. op \in Ops /\ by \in Handlers /\ CanEdit
  BY DEF Edits
<1>2. nops + 1 \in 1..MaxOps /\ x \in Entries
  BY <1>1, BoundAssumption DEF CanEdit, Typed, Entries
<1>3. nops' = nops + 1 /\ StartSend(Append(pending, x), by)
  BY DEF ApplyOperation, AddPending
<1> HIDE DEF x
<1>4. CASE sending
  BY <1>1, <1>2, <1>3, <1>4 DEF StartSend, Queue, CanEdit, x
<1>5. CASE ~sending
  <2>1. pending = <<>> /\ inflight = {}
    BY <1>1, <1>5 DEF Queue, CanEdit
  <2>2. SendNext(Append(pending, x), inflight, by)
    BY <1>3, <1>5 DEF StartSend
  <2>3. Append(pending, x) # <<>> /\ Head(Append(pending, x)) = x /\ Tail(Append(pending, x)) = <<>>
    BY <2>1
  <2>4. sending' = TRUE /\ pending' = <<>>
    BY <2>2, <2>3 DEF SendNext
  <2>5. inflight' = {} \cup {[op |-> x.op, n |-> x.n, by |-> by, phase |-> "sent", failed |-> {}]}
    BY <2>1, <2>2, <2>3 DEF SendNext
  <2> QED BY <1>2, <1>3, <2>1, <2>4, <2>5 DEF x
<1> QED BY <1>4, <1>5

LEMMA AnswerQueue ==
  ASSUME Typed, Queue, NEW e \in inflight, Answer(e)
  PROVE  \/ /\ pending = <<>> /\ pending' = <<>> /\ inflight' = {} /\ sending' = FALSE
         \/ /\ pending # <<>> /\ pending' = Tail(pending) /\ sending' = TRUE
            /\ inflight' = {[op |-> pending[1].op, n |-> pending[1].n, by |-> e.by, phase |-> "sent", failed |-> {}]}
<1>1. Others(e) = {}
  BY DEF Queue, Others
<1>2. SendNext(pending, {}, e.by)
  BY <1>1, AnswerSends
<1>3. pending # <<>> => Head(pending) = pending[1]
  BY TailFacts DEF Typed
<1> QED BY <1>2, <1>3 DEF SendNext

LEMMA QueueStep ==
  ASSUME Typed, Queue, Logged, [Next]_vars
  PROVE  Queue' /\ Logged'
<1>1. /\ Len(pending) \in Nat /\ DOMAIN pending = 1 .. Len(pending)
      /\ \A i \in DOMAIN pending : pending[i] \in Entries /\ pending[i].n \in Nat
      /\ \A e \in inflight : e.n \in Nat
      /\ \A i \in DOMAIN log : log[i] \in Nat
      /\ nops \in Nat
  BY BoundAssumption, EntriesAre DEF Typed, InFlight
<1>2. ASSUME NEW op, NEW by, NEW h, Edits(op, by, h), ApplyOperation(op, by, h)
      PROVE  Queue' /\ Logged'
  <2> DEFINE x == [op |-> op, n |-> nops + 1]
             f == [op |-> op, n |-> nops + 1, by |-> by, phase |-> "sent", failed |-> {}]
  <2>1. nops' = nops + 1 /\ sending' = TRUE /\ x \in Entries
    BY <1>2, EditQueue
  <2>2. mounted' = mounted /\ mounted = TRUE /\ log' = log
    BY <1>2 DEF ApplyOperation, Edits, CanEdit, Typed
  <2>3. CASE /\ sending /\ inflight # {} /\ pending' = Append(pending, x) /\ inflight' = inflight
    <3>1. /\ DOMAIN pending' = 1 .. Len(pending) + 1
          /\ \A i \in DOMAIN pending : pending'[i] = pending[i]
          /\ pending'[Len(pending) + 1] = x /\ x.n = nops + 1
      BY <2>1, <2>3, AppendFacts DEF Typed
    <3> HIDE DEF x
    <3>2. \A i \in DOMAIN pending' : i = Len(pending) + 1 \/ i \in DOMAIN pending
      BY <1>1, <3>1
    <3>3. Queue'
      <4>1. \A i \in DOMAIN pending' : pending'[i].n <= nops'
        BY <1>1, <2>1, <3>1, <3>2 DEF Queue
      <4>2. \A i, j \in DOMAIN pending' : i < j => pending'[i].n < pending'[j].n
        BY <1>1, <3>1, <3>2 DEF Queue
      <4>3. \A e \in inflight' : e.n <= nops' /\ \A i \in DOMAIN pending' : e.n < pending'[i].n
        BY <1>1, <2>1, <2>3, <3>1, <3>2 DEF Queue
      <4> QED BY <2>1, <2>3, <4>1, <4>2, <4>3 DEF Queue
    <3>4. Logged'
      BY <1>1, <2>1, <2>2, <2>3, <3>1, <3>2 DEF Logged
    <3> QED BY <3>3, <3>4
  <2>4. CASE /\ pending = <<>> /\ inflight = {} /\ pending' = <<>> /\ inflight' = {f}
    <3>1. f.n = nops + 1 /\ f.phase = "sent"
      OBVIOUS
    <3> HIDE DEF f
    <3>2. Queue'
      BY <1>1, <2>1, <2>2, <2>4, <3>1 DEF Queue
    <3>3. Logged'
      BY <1>1, <2>1, <2>2, <2>4, <3>1 DEF Logged
    <3> QED BY <3>2, <3>3
  <2> QED BY <1>2, <2>3, <2>4, EditQueue
<1>3. ASSUME NEW e \in inflight, Answer(e)
      PROVE  Queue' /\ Logged'
  <2> DEFINE f == [op |-> pending[1].op, n |-> pending[1].n, by |-> e.by, phase |-> "sent", failed |-> {}]
  <2>1. UNCHANGED <<mounted, nops, log>>
    BY <1>3, AnswerSends
  <2>2. CASE pending = <<>> /\ pending' = <<>> /\ inflight' = {} /\ sending' = FALSE
    <3>1. Queue'
      BY <2>1, <2>2 DEF Queue
    <3>2. Logged'
      BY <2>1, <2>2 DEF Logged
    <3> QED BY <3>1, <3>2
  <2>3. CASE /\ pending # <<>> /\ pending' = Tail(pending) /\ sending' = TRUE
             /\ inflight' = {f}
    <3>1. /\ Len(pending) \in Nat \ {0} /\ DOMAIN pending' = 1 .. Len(pending) - 1
          /\ \A i \in DOMAIN pending' : pending'[i] = pending[i + 1]
      BY <2>3, TailFacts DEF Typed
    <3>2. 1 \in DOMAIN pending /\ \A i \in DOMAIN pending' : i \in Nat \ {0} /\ i + 1 \in DOMAIN pending
      BY <1>1, <3>1
    <3>3. f.n = pending[1].n /\ f.phase = "sent"
      OBVIOUS
    <3> HIDE DEF f
    <3>4. Queue'
      <4>1. \A i \in DOMAIN pending' : pending'[i].n <= nops'
        BY <2>1, <3>1, <3>2 DEF Queue
      <4>2. \A i, j \in DOMAIN pending' : i < j => pending'[i].n < pending'[j].n
        <5> SUFFICES ASSUME NEW i \in DOMAIN pending', NEW j \in DOMAIN pending', i < j
                     PROVE  pending'[i].n < pending'[j].n
          OBVIOUS
        <5>1. pending[i + 1].n < pending[j + 1].n
          BY <3>2 DEF Queue
        <5> QED BY <3>1, <5>1
      <4>3. f.n <= nops' /\ \A i \in DOMAIN pending' : f.n < pending'[i].n
        BY <2>1, <3>1, <3>2, <3>3 DEF Queue
      <4> QED BY <2>3, <4>1, <4>2, <4>3 DEF Queue
    <3>5. Logged'
      BY <2>1, <2>3, <3>1, <3>2, <3>3 DEF Logged
    <3> QED BY <3>4, <3>5
  <2> QED BY <1>3, <2>2, <2>3, AnswerQueue
<1>4. ASSUME NEW e \in inflight, Execute(e)
      PROVE  Queue' /\ Logged'
  <2> DEFINE f == Executed(e)
  <2>1. /\ e.phase = "sent" /\ inflight' = {f} /\ inflight = {e} /\ log' = Append(log, e.n)
        /\ UNCHANGED <<pending, sending, mounted, nops>>
    BY <1>4 DEF Execute, Queue
  <2>2. f.n = e.n /\ f.phase = "stored"
    BY ExecutedIs DEF Typed
  <2>3. /\ Len(log) \in Nat /\ DOMAIN log' = 1 .. Len(log) + 1 /\ DOMAIN log = 1 .. Len(log)
        /\ \A i \in DOMAIN log : log'[i] = log[i]
        /\ log'[Len(log) + 1] = e.n
    <3>1. e.n \in 1..MaxOps /\ log \in Seq(1..MaxOps)
      BY DEF Typed, InFlight
    <3> QED BY <2>1, <3>1, AppendFacts
  <2> HIDE DEF f
  <2>4. \A i \in DOMAIN log' : i = Len(log) + 1 \/ i \in DOMAIN log
    BY <2>3
  <2>5. Queue'
    BY <2>1, <2>2 DEF Queue
  <2>6. Logged'
    <3>1. \A i \in DOMAIN log' : /\ log'[i] <= nops'
                                 /\ \A j \in DOMAIN pending' : log'[i] < pending'[j].n
                                 /\ log'[i] <= e.n
      BY <1>1, <2>1, <2>3, <2>4 DEF Logged, Queue
    <3>2. \A i, j \in DOMAIN log' : i < j => log'[i] < log'[j]
      BY <2>1, <2>3, <2>4 DEF Logged
    <3> QED BY <2>1, <2>2, <3>1, <3>2 DEF Logged
  <2> QED BY <2>5, <2>6
<1>5. CASE Destroy
  <2>1. /\ pending' = <<>> /\ sending' = FALSE /\ mounted' = FALSE
        /\ UNCHANGED <<inflight, nops, log>>
    BY <1>5 DEF Destroy
  <2>2. Queue'
    BY <2>1 DEF Queue
  <2>3. Logged'
    BY <2>1 DEF Logged
  <2> QED BY <2>2, <2>3
<1>6. CASE UNCHANGED <<pending, inflight, sending, mounted, nops, log>>
  BY <1>6 DEF Queue, Logged
<1>7. AskReload \/ ServeReload \/ ApplyReload \/ Confirm \/ Dismiss \/ UNCHANGED vars
      \/ (\E w \in confirmed : ExecuteConfirmed(w) \/ AnswerConfirmed(w) \/ FailConfirmed(w))
      => UNCHANGED <<pending, inflight, sending, mounted, nops, log>>
  BY DEF AskReload, ServeReload, ApplyReload, Confirm, Dismiss, vars, ExecuteConfirmed,
         AnswerConfirmed, FailConfirmed
<1> QED BY <1>2, <1>3, <1>4, <1>5, <1>6, <1>7, Steps DEF EditStep

-----------------------------------------------------------------------------
(* Type correctness.                                                       *)

LEMMA ReloadTypes ==
  ASSUME Typed
  PROVE  /\ \A d \in Tables : ViewOfReload(d) \in Reload \cup {None}
         /\ \A re \in Reload \cup {None}, rs \in SUBSET Rows : Overlap(re, rs) \in Reload \cup {None}
<1>1. \A d \in Tables : ViewOfReload(d) \in Reload \cup {None}
  BY DEF Typed, ViewOfReload, Reload, Tables
<1>2. \A re \in Reload \cup {None}, rs \in SUBSET Rows : Overlap(re, rs) \in Reload \cup {None}
  BY DEF Overlap, Reload
<1> QED BY <1>1, <1>2

LEMMA ChangeTypes ==
  ASSUME Typed, NEW op \in Ops, ChangeBy(op)
  PROVE  data' \in Tables /\ touched' \subseteq Rows /\ astray' \subseteq Rows
         /\ reload' \in Reload \cup {None}
<1> DEFINE d == Applied(data, op)
<1>1. d \in Tables
  BY AppliedTypes DEF Typed
<1>2. RowsOf(op) \in SUBSET Rows
  BY OpsAre
<1> HIDE DEF d
<1>3. Changed(d) \subseteq Rows
  BY DEF Changed
<1>4. ViewOfReload(d) \in Reload \cup {None}
  BY <1>1, ReloadTypes
<1>5. reload' = Overlap(ViewOfReload(d), RowsOf(op))
  BY DEF ChangeBy, d
<1>6. data' = d /\ touched' \subseteq touched \cup Changed(d) /\ astray' \subseteq astray
  BY DEF ChangeBy, d
<1> QED BY <1>1, <1>2, <1>3, <1>4, <1>5, <1>6, ReloadTypes DEF Typed

LEMMA LocalChangeTypes ==
  ASSUME Typed, NEW new, CellsOf(new), NEW lost \in SUBSET Rows, ChangeLocally(new, lost)
  PROVE  data' \in Tables /\ touched' \subseteq Rows /\ astray' \subseteq Rows
         /\ reload' \in Reload \cup {None}
<1> DEFINE d == AppliedLocally(data, new)
<1>1. d \in Tables
  BY LocalTypes DEF Typed
<1> HIDE DEF d
<1>2. Changed(d) \subseteq Rows
  BY DEF Changed
<1>3. ViewOfReload(d) \in Reload \cup {None}
  BY <1>1, ReloadTypes
<1>4. data' = d /\ touched' = touched \cup lost /\ astray' = astray \cup Changed(d) /\ reload' = ViewOfReload(d)
  BY DEF ChangeLocally, d
<1> QED BY <1>1, <1>2, <1>3, <1>4 DEF Typed

LEMMA CrossingTypes ==
  ASSUME NEW w \in Change, NEW rs
  PROVE  /\ Crossing(w, rs) \in Change /\ Crossing(w, rs).new = w.new
         /\ Crossing(w, rs).phase = w.phase /\ Crossing(w, rs).n = w.n
         /\ Crossing(w, rs).busy = w.busy \cup (rs \cap DOMAIN w.new)
<1>1. DOMAIN w.new \subseteq Rows
  BY UpdatesAre DEF Change
<1> QED BY <1>1 DEF Crossing, Change

LEMMA EditTypes ==
  ASSUME Typed, Queue, NEW op, NEW by, NEW h, Edits(op, by, h), ApplyOperation(op, by, h)
  PROVE  Typed'
<1>1. op \in Ops /\ by \in Handlers /\ h \in Histories /\ RowsOf(op) \in SUBSET Rows
  BY OpsAre DEF Edits
<1>2. /\ data' \in Tables /\ touched' \subseteq Rows /\ astray' \subseteq Rows
      /\ reload' \in Reload \cup {None} /\ history' \in Histories
  <2>1. CASE op.type \in AfterServer
    <3>1. reload' = Overlap(reload, RowsOf(op)) /\ history' = h /\ UNCHANGED <<data, touched, astray>>
      BY <2>1 DEF ApplyOperation
    <3> QED BY <1>1, <3>1, ReloadTypes DEF Typed
  <2>2. CASE op.type \notin AfterServer
    <3>1. history' = HandleUndoRedos(h, by, op) /\ ChangeBy(op)
      BY <2>2 DEF ApplyOperation
    <3> QED BY <1>1, <3>1, HandleTypes, ChangeTypes
  <2> QED BY <2>1, <2>2
<1>3. /\ pending' \in Seq(Entries) /\ inflight' \subseteq InFlight /\ sending' \in BOOLEAN
      /\ nops' \in 0..MaxOps
  <2> DEFINE x == [op |-> op, n |-> nops + 1]
  <2>1. x \in Entries /\ nops + 1 \in 1..MaxOps /\ nops' = nops + 1 /\ sending' = TRUE
    BY EditQueue
  <2>2. [op |-> op, n |-> nops + 1, by |-> by, phase |-> "sent", failed |-> {}] \in InFlight
    BY <1>1, <2>1 DEF InFlight
  <2>3. Append(pending, x) \in Seq(Entries)
    BY <2>1, AppendFacts DEF Typed
  <2>4. pending' \in Seq(Entries)
    BY <2>3, EditQueue DEF Typed
  <2>5. inflight' \subseteq InFlight
    BY <2>2, EditQueue DEF Typed
  <2>6. nops' \in 0..MaxOps
    BY <2>1
  <2> QED BY <2>1, <2>4, <2>5, <2>6
<1>4. confirmed' \subseteq Change /\ \A w \in confirmed' : CellsOf(w.new)
  <2>1. confirmed' = {Crossing(w, RowsOf(op)) : w \in confirmed}
    BY DEF ApplyOperation
  <2> QED BY <2>1, CrossingTypes DEF Typed
<1>5. UNCHANGED <<server, dialog, mounted, nreloads, log, doubt, crossed>>
  BY DEF ApplyOperation
<1> QED BY <1>2, <1>3, <1>4, <1>5 DEF Typed

LEMMA AnswerTypes ==
  ASSUME Typed, NEW e \in inflight, Answer(e)
  PROVE  Typed'
<1>1. e.op \in Ops /\ e.by \in Handlers /\ e.n \in 1..MaxOps
      /\ RowsOf(e.op) \subseteq Rows /\ (e.op.type = "modify" => e.op \in Mods)
  BY OpsAre DEF Typed, InFlight
<1>2. pending' \in Seq(Entries) /\ inflight' \subseteq InFlight /\ sending' \in BOOLEAN
  <2>1. Others(e) \subseteq InFlight /\ pending \in Seq(Entries)
    BY DEF Others, Typed
  <2> QED BY <1>1, <2>1, AnswerSends, SendNextTypes
<1>3. UNCHANGED <<server, confirmed, mounted, nops, nreloads, log>>
  BY AnswerSends
<1>4. /\ data' \in Tables /\ touched' \subseteq Rows /\ astray' \subseteq Rows
      /\ reload' \in Reload \cup {None} /\ history' \in Histories
      /\ doubt' \subseteq Rows /\ crossed' \in BOOLEAN
  <2>1. CASE AnswerDeferred(e)
    <3>1. history' \in Histories
      BY <1>1, <2>1, HandleTypes DEF AnswerDeferred, Typed
    <3>2. crossed' \in BOOLEAN
      BY <2>1 DEF AnswerDeferred
    <3>3. ChangeBy(Succeeded(e)) /\ Succeeded(e) \in Ops
      BY <2>1, SucceededIs DEF AnswerDeferred, Typed
    <3> QED BY <2>1, <3>1, <3>2, <3>3, ChangeTypes DEF AnswerDeferred, Typed
  <2>2. CASE AnswerEcho(e)
    <3>1. CellsOf(e.op.new) /\ Changed(AppliedLocally(data, e.op.new)) \in SUBSET Rows
      BY <1>1, <2>2, ModsAre DEF AnswerEcho, Changed
    <3>2. ChangeLocally(e.op.new, Changed(AppliedLocally(data, e.op.new)))
      BY <2>2 DEF AnswerEcho
    <3>3. /\ data' \in Tables /\ touched' \subseteq Rows /\ astray' \subseteq Rows
          /\ reload' \in Reload \cup {None}
      BY <3>1, <3>2, LocalChangeTypes
    <3>4. history' \in Histories /\ doubt' \subseteq Rows /\ crossed' \in BOOLEAN
      BY <1>1, <2>2, LocalHistory DEF AnswerEcho, Typed
    <3> QED BY <3>3, <3>4
  <2>3. CASE UNCHANGED <<data, history, reload, touched, astray, crossed>> /\ doubt' \subseteq Rows
    BY <2>3 DEF Typed
  <2>4. CASE AnswerRefused(e)
    <3> DEFINE lost == {r \in RowsOf(e.op) : \A o \in NewestOf(history.undo, r) : o.id # e.op.id}
    <3>1. CellsOf(e.op.old) /\ lost \in SUBSET Rows
      BY <1>1, <2>4, ModsAre DEF AnswerRefused
    <3>2. ChangeLocally(e.op.old, lost)
      BY <2>4 DEF AnswerRefused
    <3> HIDE DEF lost
    <3>3. /\ data' \in Tables /\ touched' \subseteq Rows /\ astray' \subseteq Rows
          /\ reload' \in Reload \cup {None}
      BY <3>1, <3>2, LocalChangeTypes
    <3>4. history' \in Histories
      BY <2>4, LocalHistory, WithoutTypes DEF AnswerRefused, Typed
    <3>5. doubt' \subseteq Rows /\ crossed' \in BOOLEAN
      BY <1>1, <2>4 DEF AnswerRefused, Typed
    <3> QED BY <3>3, <3>4, <3>5
  <2>5. AnswerPlain(e) \/ AnswerError(e) \/ AnswerIgnored(e)
        => UNCHANGED <<data, history, reload, touched, astray, crossed>> /\ doubt' \subseteq Rows
    BY <1>1 DEF AnswerPlain, AnswerError, AnswerIgnored, Typed
  <2> QED BY <2>1, <2>2, <2>3, <2>4, <2>5 DEF Answer, AnswerOk
<1>5. dialog' \in Dialog \cup {None} /\ (dialog' # None => CellsOf(dialog'.new))
  <2>1. CASE UNCHANGED dialog
    BY <2>1 DEF Typed
  <2>2. CASE AnswerRefused(e) /\ dialog' # dialog
    <3>1. CellsOf(e.op.new) /\ e.op.new \in Updates
      BY <1>1, <2>2, ModsAre DEF AnswerRefused, CellsOf
    <3>2. dialog' = IF dialog = None
                    THEN [new |-> e.op.new, n |-> e.n, opened |-> e.n, submitting |-> FALSE]
                    ELSE [dialog EXCEPT !.new = e.op.new, !.n = e.n]
      BY <2>2 DEF AnswerRefused, OpenDialog
    <3>3. CASE dialog = None
      BY <1>1, <3>1, <3>2, <3>3 DEF Dialog
    <3>4. CASE dialog # None
      <4>1. dialog \in Dialog
        BY <3>4 DEF Typed
      <4> QED BY <1>1, <3>1, <3>2, <3>4, <4>1 DEF Dialog
    <3> QED BY <3>3, <3>4
  <2> QED BY <2>1, <2>2 DEF Answer, AnswerOk, AnswerError, AnswerIgnored
<1> QED BY <1>2, <1>3, <1>4, <1>5 DEF Typed

LEMMA TypedStep ==
  ASSUME Typed, Queue, [Next]_vars
  PROVE  Typed'
<1>1. CASE EditStep
  BY <1>1, EditTypes DEF EditStep
<1>2. CASE \E e \in inflight : Answer(e)
  BY <1>2, AnswerTypes
<1>3. ASSUME NEW e \in inflight, Execute(e)
      PROVE  Typed'
  <2>1. e \in InFlight /\ e.op \in Ops
    BY DEF Typed, InFlight
  <2>2. server' \in [Rows -> Cell]
    BY <1>3, <2>1, OpsAre DEF Execute, Typed
  <2>3. Executed(e) \in InFlight
    BY <2>1, ExecutedIs
  <2>4. inflight' \subseteq InFlight
    BY <1>3, <2>3 DEF Execute, Typed
  <2>5. log' \in Seq(1..MaxOps)
    BY <1>3, <2>1, AppendFacts DEF Execute, Typed, InFlight
  <2> QED BY <1>3, <2>2, <2>4, <2>5 DEF Execute, Typed
<1>4. CASE AskReload
  <2>1. BusyRows \in SUBSET Rows
    BY DEF BusyRows
  <2>2. reload' \in Reload
    BY <1>4, <2>1 DEF AskReload, Reload, Typed, Tables
  <2>3. nreloads' \in 0..MaxReloads
    BY <1>4, BoundAssumption DEF AskReload, Typed
  <2> QED BY <1>4, <2>2, <2>3 DEF AskReload, Typed
<1>5. CASE ServeReload
  <2>1. reload' \in Reload
    BY <1>5 DEF ServeReload, Reload, Typed
  <2> QED BY <1>5, <2>1 DEF ServeReload, Typed
<1>6. CASE ApplyReload
  <2> DEFINE c == [data EXCEPT !.rows = reload.rows, !.grouped = reload.grouped]
  <2>1. reload \in Reload /\ reload.busy \subseteq Rows
    BY <1>6 DEF ApplyReload, Typed, Reload
  <2>2. c \in Tables
    BY <2>1 DEF Reload, Tables, Typed
  <2>3. Regrouped(c) \in Tables
    <3> HIDE DEF c
    <3> QED BY <2>2 DEF Regrouped, Tables, Cell
  <2>4. data' = Regrouped(c) /\ touched' = touched \cup Changed(Regrouped(c))
    BY <1>6 DEF ApplyReload
  <2>5. touched' \subseteq Rows
    BY <2>4 DEF Changed, Typed
  <2> HIDE DEF c
  <2> QED BY <1>6, <2>1, <2>3, <2>4, <2>5 DEF ApplyReload, Typed
<1>7. CASE Dismiss
  BY <1>7 DEF Dismiss, Typed
<1>8. CASE Confirm
  <2> DEFINE rs == DOMAIN dialog.new
             new == [new |-> dialog.new, n |-> dialog.n, opened |-> dialog.opened,
                     phase |-> "sent", busy |-> rs \cap BusyRows]
  <2>1. dialog \in Dialog /\ CellsOf(dialog.new)
    BY <1>8 DEF Confirm, Typed
  <2>2. rs \in SUBSET Rows /\ new \in Change /\ new.new = dialog.new
    <3>1. rs \in SUBSET Rows
      BY <2>1, UpdatesAre DEF CellsOf
    <3> QED BY <2>1, <3>1 DEF Change, Dialog
  <2>3. confirmed' = {Crossing(w, rs) : w \in confirmed} \cup {new} /\ reload' = Overlap(reload, rs)
    BY <1>8 DEF Confirm
  <2> HIDE DEF rs, new
  <2>4. confirmed' \subseteq Change /\ \A w \in confirmed' : CellsOf(w.new)
    BY <2>1, <2>2, <2>3, CrossingTypes DEF Typed
  <2>5. reload' \in Reload \cup {None}
    BY <2>2, <2>3, ReloadTypes DEF Typed
  <2>6. dialog' \in Dialog /\ CellsOf(dialog'.new)
    BY <1>8, <2>1 DEF Confirm, Dialog
  <2> QED BY <1>8, <2>4, <2>5, <2>6 DEF Confirm, Typed
<1>9. CASE Destroy
  <2>1. data' \in Tables
    BY <1>9 DEF Destroy, Opened, Tables, Cell
  <2>2. history' \in Histories /\ pending' \in Seq(Entries)
    BY <1>9 DEF Destroy, Histories
  <2> QED BY <1>9, <2>1, <2>2 DEF Destroy, Typed
<1>10. ASSUME NEW w \in confirmed, ExecuteConfirmed(w)
       PROVE  Typed'
  <2>1. w \in Change /\ CellsOf(w.new)
    BY DEF Typed
  <2>2. server' \in [Rows -> Cell]
    BY <1>10, <2>1 DEF ExecuteConfirmed, Typed, CellsOf, Cell
  <2>3. [w EXCEPT !.phase = "stored"] \in Change /\ [w EXCEPT !.phase = "stored"].new = w.new
    BY <2>1 DEF Change
  <2>4. confirmed' \subseteq Change /\ \A v \in confirmed' : CellsOf(v.new)
    BY <1>10, <2>1, <2>3 DEF ExecuteConfirmed, Typed
  <2> QED BY <1>10, <2>2, <2>4 DEF ExecuteConfirmed, Typed
<1>11. ASSUME NEW w \in confirmed, AnswerConfirmed(w)
       PROVE  Typed'
  <2>1. w \in Change /\ CellsOf(w.new) /\ w.busy \subseteq Rows
    BY DEF Typed, Change
  <2>2. Changed(AppliedLocally(data, w.new)) \in SUBSET Rows
    BY DEF Changed
  <2>3. /\ data' \in Tables /\ touched' \subseteq Rows /\ astray' \subseteq Rows
        /\ reload' \in Reload \cup {None}
    BY <1>11, <2>1, <2>2, LocalChangeTypes DEF AnswerConfirmed
  <2>4. history' \in Histories
    BY <1>11, LocalHistory DEF AnswerConfirmed, Typed
  <2> QED BY <1>11, <2>1, <2>3, <2>4 DEF AnswerConfirmed, Typed
<1>12. ASSUME NEW w \in confirmed, FailConfirmed(w)
       PROVE  Typed'
  <2>1. DOMAIN w.new \subseteq Rows
    BY UpdatesAre DEF Typed, CellsOf
  <2>2. doubt' \subseteq Rows /\ confirmed' \subseteq confirmed
    BY <1>12, <2>1 DEF FailConfirmed, Typed
  <2>3. dialog' \in Dialog \cup {None} /\ (dialog' # None => CellsOf(dialog'.new))
    <3>1. CASE dialog' = dialog
      BY <3>1 DEF Typed
    <3>2. CASE dialog' # dialog
      <4>1. dialog \in Dialog /\ CellsOf(dialog.new) /\ dialog' = [dialog EXCEPT !.submitting = FALSE]
        BY <1>12, <3>2 DEF FailConfirmed, Typed
      <4> QED BY <4>1 DEF Dialog
    <3> QED BY <3>1, <3>2
  <2> QED BY <1>12, <2>2, <2>3 DEF FailConfirmed, Typed
<1>13. CASE UNCHANGED vars
  BY <1>13 DEF vars, Typed
<1> QED BY <1>1, <1>2, <1>3, <1>4, <1>5, <1>6, <1>7, <1>8, <1>9, <1>10, <1>11, <1>12, <1>13, Steps

LEMMA TypedIsTyped ==
  ASSUME Typed
  PROVE  TypeOK
<1>1. \A o \in ToSet(history.undo) \cup ToSet(history.redos) : o \in Operation
  <2>1. history.undo \in Seq(Mods) /\ history.redos \in Seq(Mods)
    BY DEF Typed, Histories
  <2>2. ToSet(history.undo) \subseteq Mods /\ ToSet(history.redos) \subseteq Mods
    BY <2>1 DEF ToSet
  <2> QED BY <2>2 DEF Mods
<1>2. ToSet(pending) \subseteq Entry
  <2>1. Entries \subseteq Entry
    BY DEF Entries, Entry, Ops
  <2> QED BY <2>1 DEF Typed, ToSet
<1>3. inflight \subseteq Sent
  <2>1. Handlers \subseteq Handler /\ Ops \subseteq Operation
    BY DEF Handlers, Handler, Mods, Ops
  <2> QED BY <2>1 DEF Typed, InFlight, Sent
<1> QED BY <1>1, <1>2, <1>3 DEF Typed, TypeOK, Tables

-----------------------------------------------------------------------------
(* The groups.                                                             *)

LEMMA GroupsBy ==
  ASSUME Typed, GroupsFollowValues, NEW op \in Ops, ChangeBy(op)
  PROVE  GroupsFollowValues'
<1>1. ASSUME NEW c \in Tables
      PROVE  LET d == Regrouped(c)
             IN  /\ d.grouped => \A r \in Rows : d.groups[r] = d.rows[r]
                 /\ \A r \in Rows : d.rows[r] = Absent => d.groups[r] = Absent
  BY DEF Regrouped, Tables
<1>2. data' = Applied(data, op) /\ op.type \in Types /\ data \in Tables
  BY OpsAre DEF ChangeBy, Typed
<1>3. RowsOf(op) = DOMAIN op.new /\ \A r \in DOMAIN op.new : op.new[r] \in Cell
  BY OpsAre
<1>4. CASE op.type = "modify"
  <2>1. ModifyRows(data, op.new) \in Tables
    BY <1>2, <1>3 DEF ModifyRows, Tables
  <2>2. data' = Regrouped(ModifyRows(data, op.new))
    BY <1>2, <1>4 DEF Applied
  <2> QED BY <1>1, <2>1, <2>2 DEF GroupsFollowValues
<1>5. CASE op.type = "insert"
  <2> DEFINE c == [data EXCEPT !.rows = [r \in Rows |-> IF r \in RowsOf(op) THEN op.new[r]
                                                        ELSE data.rows[r]]]
  <2>1. c \in Tables
    BY <1>2, <1>3 DEF Tables
  <2>2. data' = Regrouped(c)
    BY <1>2, <1>5 DEF Applied
  <2> HIDE DEF c
  <2> QED BY <1>1, <2>1, <2>2 DEF GroupsFollowValues
<1>6. CASE op.type = "groupbys"
  <2> DEFINE c == [data EXCEPT !.grouped = ~data.grouped]
  <2>1. c \in Tables
    BY <1>2 DEF Tables
  <2>2. data' = Regrouped(c)
    BY <1>2, <1>6 DEF Applied
  <2> HIDE DEF c
  <2> QED BY <1>1, <2>1, <2>2 DEF GroupsFollowValues
<1>7. CASE op.type \in {"delete", "deleteRows"}
  <2>1. data' = DeleteRows(data, RowsOf(op)) /\ astray' = astray \ RowsOf(op)
    BY <1>2, <1>7 DEF Applied, ChangeBy
  <2>2. /\ data'.grouped = data.grouped
        /\ \A r \in Rows : /\ data'.rows[r] = IF r \in RowsOf(op) THEN Absent ELSE data.rows[r]
                           /\ data'.groups[r] = IF r \in RowsOf(op) THEN Absent ELSE data.groups[r]
    BY <1>2, <2>1 DEF DeleteRows, Tables
  <2> QED BY <2>1, <2>2 DEF GroupsFollowValues
<1> QED BY <1>2, <1>4, <1>5, <1>6, <1>7 DEF Types

\* What a change that is only applied locally does to the rows.
LEMMA LocalRows ==
  ASSUME Typed, NEW new, CellsOf(new)
  PROVE  LET d == AppliedLocally(data, new)
         IN  /\ d.grouped = data.grouped /\ d.groups = data.groups
             /\ \A r \in Rows :
                  /\ d.rows[r] = IF r \in DOMAIN new /\ data.rows[r] # Absent
                                 THEN new[r] ELSE data.rows[r]
                  /\ d.rows[r] = Absent <=> data.rows[r] = Absent
BY ValuesAssumption DEF AppliedLocally, ModifyRows, Typed, Tables, CellsOf

LEMMA GroupsLocal ==
  ASSUME Typed, GroupsFollowValues, NEW new, CellsOf(new), NEW lost, ChangeLocally(new, lost)
  PROVE  GroupsFollowValues'
<1> DEFINE d == AppliedLocally(data, new)
<1>1. /\ d.grouped = data.grouped /\ d.groups = data.groups
      /\ \A r \in Rows : d.rows[r] = Absent <=> data.rows[r] = Absent
  BY LocalRows
<1>2. data' = d /\ astray' = astray \cup Changed(d)
  BY DEF ChangeLocally
<1> HIDE DEF d
<1>3. \A r \in Rows \ astray' : data'.rows[r] = data.rows[r] /\ r \notin astray
  BY <1>2 DEF Changed
<1> QED BY <1>1, <1>2, <1>3 DEF GroupsFollowValues

LEMMA GroupsStep ==
  ASSUME Typed, GroupsFollowValues, [Next]_vars
  PROVE  GroupsFollowValues'
<1>1. ASSUME NEW op, NEW by, NEW h, Edits(op, by, h), ApplyOperation(op, by, h)
      PROVE  GroupsFollowValues'
  <2>1. op \in Ops
    BY <1>1 DEF Edits
  <2>2. CASE op.type \in AfterServer
    BY <1>1, <2>2 DEF ApplyOperation, GroupsFollowValues
  <2>3. CASE op.type \notin AfterServer
    BY <1>1, <2>1, <2>3, GroupsBy DEF ApplyOperation
  <2> QED BY <2>2, <2>3
<1>2. ASSUME NEW e \in inflight, Answer(e)
      PROVE  GroupsFollowValues'
  <2>1. /\ e.op \in Ops /\ (e.op.type = "modify" => CellsOf(e.op.new) /\ CellsOf(e.op.old))
        /\ Succeeded(e) \in Ops
    BY OpsAre, ModsAre, SucceededIs DEF Typed, InFlight
  <2>2. CASE AnswerDeferred(e)
    BY <2>1, <2>2, GroupsBy DEF AnswerDeferred
  <2>3. CASE AnswerEcho(e)
    BY <2>1, <2>3, GroupsLocal DEF AnswerEcho
  <2>4. CASE AnswerRefused(e)
    BY <2>1, <2>4, GroupsLocal DEF AnswerRefused
  <2>5. CASE UNCHANGED <<data, astray>>
    BY <2>5 DEF GroupsFollowValues
  <2>6. AnswerPlain(e) \/ AnswerError(e) \/ AnswerIgnored(e) => UNCHANGED <<data, astray>>
    BY DEF AnswerPlain, AnswerError, AnswerIgnored
  <2> QED BY <1>2, <2>2, <2>3, <2>4, <2>5, <2>6 DEF Answer, AnswerOk
<1>3. ASSUME NEW w \in confirmed, AnswerConfirmed(w)
      PROVE  GroupsFollowValues'
  <2>1. CellsOf(w.new)
    BY DEF Typed
  <2> QED BY <1>3, <2>1, GroupsLocal DEF AnswerConfirmed
<1>4. CASE ApplyReload
  <2> DEFINE c == [data EXCEPT !.rows = reload.rows, !.grouped = reload.grouped]
  <2>1. c \in Tables
    BY <1>4 DEF ApplyReload, Typed, Reload, Tables
  <2>2. data' = Regrouped(c) /\ astray' = {}
    BY <1>4 DEF ApplyReload
  <2> HIDE DEF c
  <2> QED BY <2>1, <2>2 DEF Regrouped, Tables, GroupsFollowValues
<1>5. CASE Destroy
  BY <1>5 DEF Destroy, Opened, GroupsFollowValues
<1>6. CASE UNCHANGED <<data, astray>>
  BY <1>6 DEF GroupsFollowValues
<1>7. /\ AskReload \/ ServeReload \/ Confirm \/ Dismiss \/ UNCHANGED vars => UNCHANGED <<data, astray>>
      /\ \A e \in inflight : Execute(e) => UNCHANGED <<data, astray>>
      /\ \A w \in confirmed : ExecuteConfirmed(w) \/ FailConfirmed(w) => UNCHANGED <<data, astray>>
  BY DEF AskReload, ServeReload, Confirm, Dismiss, vars, Execute, ExecuteConfirmed, FailConfirmed
<1> QED BY <1>1, <1>2, <1>3, <1>4, <1>5, <1>6, <1>7, Steps DEF EditStep

-----------------------------------------------------------------------------
(* What is on its way to the server, step by step.                         *)

LEMMA WaitingIs ==
  ASSUME NEW queue \in Seq(Entries), NEW sent, sent \subseteq InFlight
  PROVE  /\ WaitingOf(queue, sent) \subseteq Entries
         /\ \A x : x \in WaitingOf(queue, sent) <=>
                     \/ \E i \in 1..Len(queue) : x = queue[i]
                     \/ \E e \in sent : x = [op |-> e.op, n |-> e.n]
<1>1. \A i \in 1..Len(queue) : queue[i] \in Entries /\ queue[i] = [op |-> queue[i].op, n |-> queue[i].n]
  <2>1. \A i \in 1..Len(queue) : queue[i] \in Entries
    OBVIOUS
  <2>2. \A y \in Entries : y = [op |-> y.op, n |-> y.n]
    BY DEF Entries
  <2> QED BY <2>1, <2>2
<1>2. \A e \in sent : [op |-> e.op, n |-> e.n] \in Entries
  BY DEF Entries, InFlight
<1>3. \A x : x \in WaitingOf(queue, sent) <=>
                     \/ \E i \in 1..Len(queue) : x = [op |-> queue[i].op, n |-> queue[i].n]
                     \/ \E e \in sent : x = [op |-> e.op, n |-> e.n]
  BY DEF WaitingOf
<1>4. \A x : x \in WaitingOf(queue, sent) <=>
                     \/ \E i \in 1..Len(queue) : x = queue[i]
                     \/ \E e \in sent : x = [op |-> e.op, n |-> e.n]
  BY <1>1, <1>3
<1>5. ASSUME NEW x \in WaitingOf(queue, sent) PROVE x \in Entries
  BY <1>1, <1>2, <1>4, <1>5
<1> QED BY <1>4, <1>5

\* The operation in flight is the oldest one, and the only one that can be stored.
LEMMA InFlightFirst ==
  ASSUME Typed, Queue, NEW e \in inflight
  PROVE  /\ inflight = {e} /\ Waiting \subseteq Entries
         /\ [op |-> e.op, n |-> e.n] \in Entries
         /\ Oldest([op |-> e.op, n |-> e.n], Waiting)
         /\ Stored = IF e.phase = "stored" THEN {e.n} ELSE {}
<1> DEFINE x == [op |-> e.op, n |-> e.n]
<1>1. inflight = {e} /\ e \in InFlight
  BY DEF Queue, Typed
<1>2. x.n = e.n /\ x \in Waiting /\ Waiting \subseteq Entries
  BY WaitingIs DEF Typed, Waiting
<1>3. ASSUME NEW y \in Waiting PROVE e.n <= y.n /\ (y.n = e.n => y = x)
  <2>1. CASE y = x
    BY <1>1, <1>2, <2>1, EntriesAre
  <2>2. CASE \E i \in 1..Len(pending) : y = pending[i]
    <3>1. PICK i \in 1..Len(pending) : y = pending[i]
      BY <2>2
    <3>2. e.n < y.n /\ e.n \in Nat /\ y.n \in Nat
      BY <1>2, <1>3, <3>1, EntriesAre DEF Queue, Typed
    <3> QED BY <3>2
  <2>3. y = x \/ \E i \in 1..Len(pending) : y = pending[i]
    BY <1>1, <1>3, WaitingIs DEF Typed, Waiting
  <2> QED BY <2>1, <2>2, <2>3
<1>4. Oldest(x, Waiting)
  BY <1>2, <1>3 DEF Oldest
<1>5. Stored = IF e.phase = "stored" THEN {e.n} ELSE {}
  BY <1>1 DEF Stored, StoredOf
<1> QED BY <1>1, <1>2, <1>4, <1>5

LEMMA EditWaiting ==
  ASSUME Typed, Queue, NEW op, NEW by, NEW h, Edits(op, by, h), ApplyOperation(op, by, h)
  PROVE  /\ [op |-> op, n |-> nops + 1] \in Entries /\ Waiting \subseteq Entries
         /\ Waiting' = Waiting \cup {[op |-> op, n |-> nops + 1]}
         /\ Stored' = Stored /\ nops + 1 \notin Stored
         /\ \A y \in Waiting : y.n < nops + 1
         /\ \A e \in inflight' : e \in inflight \/ e.by = by
<1> DEFINE x == [op |-> op, n |-> nops + 1]
<1>1. x \in Entries /\ nops \in Nat /\ inflight \subseteq InFlight /\ pending \in Seq(Entries)
  <2>1. x \in Entries
    BY EditQueue
  <2> QED BY <2>1, BoundAssumption DEF Typed
<1>2. Waiting \subseteq Entries
  BY WaitingIs DEF Typed, Waiting
<1>3. ASSUME NEW y \in Waiting PROVE y.n < nops + 1
  <2>1. y.n <= nops
    BY <1>3, WaitingIs DEF Waiting, Typed, Queue
  <2>2. y.n \in Nat
    BY <1>2, EntriesAre
  <2> QED BY <1>1, <2>1, <2>2
<1>4. nops + 1 \notin Stored
  <2>1. \A e \in inflight : e.n <= nops /\ e.n \in Nat
    BY DEF Queue, Typed, InFlight
  <2> QED BY <1>1, <2>1 DEF Stored, StoredOf
<1>5. Waiting' = Waiting \cup {x} /\ Stored' = Stored /\ \A e \in inflight' : e \in inflight \/ e.by = by
  <2>1. CASE pending' = Append(pending, x) /\ inflight' = inflight
    <3>1. /\ Len(pending) \in Nat /\ Len(pending') = Len(pending) + 1 /\ pending' \in Seq(Entries)
          /\ \A i \in 1..Len(pending) : pending'[i] = pending[i]
          /\ pending'[Len(pending) + 1] = x
      BY <1>1, <2>1, AppendFacts DEF Typed
    <3> HIDE DEF x
    <3>2. \A i : i \in 1..Len(pending') <=> i \in 1..Len(pending) \/ i = Len(pending) + 1
      BY <3>1
    <3>3. \A y : y \in Waiting' <=> \/ \E i \in 1..Len(pending') : y = pending'[i]
                                    \/ \E e \in inflight' : y = [op |-> e.op, n |-> e.n]
      <4>1. inflight' \subseteq InFlight
        BY <1>1, <2>1
      <4> QED BY <3>1, <4>1, WaitingIs DEF Waiting
    <3>4. \A y : y \in Waiting <=> \/ \E i \in 1..Len(pending) : y = pending[i]
                                   \/ \E e \in inflight : y = [op |-> e.op, n |-> e.n]
      BY WaitingIs DEF Waiting, Typed
    <3>5. Waiting' = Waiting \cup {x}
      BY <2>1, <3>1, <3>2, <3>3, <3>4
    <3> QED BY <2>1, <3>5 DEF Stored, StoredOf
  <2>2. CASE /\ pending = <<>> /\ inflight = {} /\ pending' = <<>>
             /\ inflight' = {[op |-> op, n |-> nops + 1, by |-> by, phase |-> "sent", failed |-> {}]}
    <3>1. Waiting = {} /\ Stored = {} /\ Stored' = {}
      BY <2>2 DEF Waiting, WaitingOf, Stored, StoredOf
    <3>2. Waiting' = {x}
      <4> DEFINE f == [op |-> op, n |-> nops + 1, by |-> by, phase |-> "sent", failed |-> {}]
      <4>1. f.op = op /\ f.n = nops + 1 /\ inflight' = {f} /\ Len(pending') = 0
        BY <2>2
      <4> HIDE DEF f
      <4>2. Waiting' = {[op |-> e.op, n |-> e.n] : e \in {f}}
        BY <4>1 DEF Waiting, WaitingOf
      <4> QED BY <4>1, <4>2
    <3> QED BY <2>2, <3>1, <3>2
  <2> QED BY <2>1, <2>2, EditQueue
<1> QED BY <1>1, <1>2, <1>3, <1>4, <1>5

LEMMA AnswerWaiting ==
  ASSUME Typed, Queue, NEW e \in inflight, Answer(e)
  PROVE  /\ Waiting' = Waiting \ {[op |-> e.op, n |-> e.n]}
         /\ Stored' = {}
         /\ \A f \in inflight' : f.by = e.by
<1> DEFINE x == [op |-> e.op, n |-> e.n]
<1>1. inflight = {e} /\ Oldest(x, Waiting) /\ x.n = e.n
  BY InFlightFirst
<1>2. /\ Len(pending) \in Nat /\ DOMAIN pending = 1..Len(pending)
      /\ \A i \in 1..Len(pending) : pending[i].n # e.n
  <2>1. \A i \in 1..Len(pending) : e.n < pending[i].n /\ e.n \in Nat /\ pending[i].n \in Nat
    BY EntriesAre DEF Queue, Typed, InFlight
  <2> QED BY <2>1 DEF Typed
<1>3. \A y : y \in Waiting <=> y = x \/ \E i \in 1..Len(pending) : y = pending[i]
  BY <1>1, WaitingIs DEF Waiting, Typed
<1>4. \A y : y \in Waiting \ {x} <=> \E i \in 1..Len(pending) : y = pending[i]
  BY <1>1, <1>2, <1>3
<1>5. CASE pending = <<>> /\ pending' = <<>> /\ inflight' = {}
  <2>1. Waiting' = {} /\ Stored' = {}
    BY <1>5 DEF Waiting, WaitingOf, Stored, StoredOf
  <2>2. Waiting \ {x} = {}
    BY <1>4, <1>5
  <2> QED BY <1>5, <2>1, <2>2
<1>6. CASE /\ pending # <<>> /\ pending' = Tail(pending)
           /\ inflight' = {[op |-> pending[1].op, n |-> pending[1].n, by |-> e.by, phase |-> "sent", failed |-> {}]}
  <2>1. /\ Len(pending') = Len(pending) - 1 /\ Len(pending) \in Nat \ {0}
        /\ pending[1] \in Entries /\ pending' \in Seq(Entries)
        /\ \A i \in 1..Len(pending') : pending'[i] = pending[i + 1]
    BY <1>6, TailFacts DEF Typed
  <2>2. pending[1] = [op |-> pending[1].op, n |-> pending[1].n]
    BY <2>1 DEF Entries
  <2>3. inflight' \subseteq InFlight
    BY <1>6, <2>1 DEF InFlight, Entries, Typed
  <2>4. \A y : y \in Waiting' <=> \/ \E i \in 1..Len(pending') : y = pending'[i]
                                  \/ y = pending[1]
    <3> DEFINE f == [op |-> pending[1].op, n |-> pending[1].n, by |-> e.by, phase |-> "sent", failed |-> {}]
    <3>1. inflight' = {f} /\ pending[1] = [op |-> f.op, n |-> f.n]
      BY <1>6, <2>2
    <3> HIDE DEF f
    <3>2. \A y : y \in Waiting' <=> \/ \E i \in 1..Len(pending') : y = pending'[i]
                                    \/ \E g \in inflight' : y = [op |-> g.op, n |-> g.n]
      BY <2>1, <2>3, WaitingIs DEF Waiting
    <3> QED BY <3>1, <3>2
  <2>5. \A i : i \in 1..Len(pending) <=> i = 1 \/ (i - 1 \in 1..Len(pending') /\ i \in Int)
    BY <2>1
  <2>6. ASSUME NEW y PROVE (\E i \in 1..Len(pending') : y = pending'[i]) \/ y = pending[1]
                           <=> \E i \in 1..Len(pending) : y = pending[i]
    <3>1. ASSUME NEW i \in 1..Len(pending') PROVE i + 1 \in 1..Len(pending) /\ pending'[i] = pending[i + 1]
      BY <2>1, <3>1
    <3>2. ASSUME NEW i \in 1..Len(pending), i # 1
          PROVE  i - 1 \in 1..Len(pending') /\ pending'[i - 1] = pending[i]
      <4>1. i - 1 \in 1..Len(pending') /\ (i - 1) + 1 = i
        BY <2>1, <3>2
      <4> QED BY <2>1, <4>1
    <3>3. 1 \in 1..Len(pending)
      BY <2>1
    <3> QED BY <3>1, <3>2, <3>3
  <2>7. Waiting' = Waiting \ {x}
    BY <1>4, <2>4, <2>6
  <2>8. Stored' = {}
    BY <1>6 DEF Stored, StoredOf
  <2> QED BY <1>6, <2>7, <2>8
<1> QED BY <1>5, <1>6, AnswerQueue

LEMMA ExecuteWaiting ==
  ASSUME Typed, Queue, NEW e \in inflight, Execute(e)
  PROVE  /\ Waiting' = Waiting /\ Stored = {} /\ Stored' = {e.n}
         /\ \A f \in inflight' : f.by = e.by
<1> DEFINE g == Executed(e)
<1>1. e.phase = "sent" /\ inflight = {e} /\ inflight' = {g} /\ pending' = pending /\ e \in InFlight
  BY InFlightFirst DEF Execute, Typed
<1>2. g.op = e.op /\ g.n = e.n /\ g.by = e.by /\ g.phase = "stored" /\ g \in InFlight
  BY <1>1, ExecutedIs
<1> HIDE DEF g
<1>3. inflight' \subseteq InFlight
  BY <1>1, <1>2
<1>4. \A y : y \in Waiting' <=> \/ \E i \in 1..Len(pending) : y = pending[i]
                                \/ y = [op |-> e.op, n |-> e.n]
  BY <1>1, <1>2, <1>3, WaitingIs DEF Waiting, Typed
<1>5. \A y : y \in Waiting <=> \/ \E i \in 1..Len(pending) : y = pending[i]
                               \/ y = [op |-> e.op, n |-> e.n]
  BY <1>1, WaitingIs DEF Waiting, Typed
<1>6. Waiting' = Waiting
  BY <1>4, <1>5
<1> QED BY <1>1, <1>2, <1>6 DEF Stored, StoredOf

-----------------------------------------------------------------------------
(* The stacks stay orderly.                                                *)

\* The entries of these stacks are operations of those and of W, each at most once.
LEMMA OrderlyFacts ==
  ASSUME NEW h \in Histories
  PROVE  /\ h.undo \in Seq(Mods) /\ h.redos \in Seq(Mods)
         /\ Len(h.undo) \in Nat /\ DOMAIN h.undo = 1 .. Len(h.undo)
         /\ Len(h.redos) \in Nat /\ DOMAIN h.redos = 1 .. Len(h.redos)
         /\ StackedIn(h) \subseteq Mods
         /\ \A i \in 1 .. Len(h.undo) : h.undo[i] \in StackedIn(h)
         /\ \A i \in 1 .. Len(h.redos) : h.redos[i] \in StackedIn(h)
BY DEF Histories, StackedIn

LEMMA OrderlyLess ==
  ASSUME NEW h, NEW W, NEW W2, NEW n, Orderly(h, W, n), W2 \subseteq W
  PROVE  Orderly(h, W2, n)
BY DEF Orderly

LEMMA OrderlyMore ==
  ASSUME NEW h \in Histories, NEW W, W \subseteq Ops, NEW n \in Nat, Orderly(h, W, n), NEW op, op.id = n + 1
  PROVE  Orderly(h, W \cup {op}, n + 1)
<1>1. \A o \in StackedIn(h) \cup W : o.id \in Nat /\ o.id <= n
  BY OrderlyFacts, ModsAre, OpsAre DEF Orderly
<1>2. \A o \in StackedIn(h) \cup W : o.id <= n + 1 /\ o.id # op.id
  BY <1>1
<1>3. op.id <= n + 1
  OBVIOUS
<1>4. \A o, p \in StackedIn(h) \cup (W \cup {op}) : o.id <= n + 1 /\ (o.id = p.id => o = p)
  <2>1. \A o, p \in StackedIn(h) \cup W : o.id = p.id => o = p
    BY DEF Orderly
  <2> QED BY <1>2, <1>3, <2>1
<1> QED BY <1>4 DEF Orderly

LEMMA OrderlyNewest ==
  ASSUME NEW h \in Histories, NEW W, NEW n, Orderly(h, W, n)
  PROVE  /\ Orderly(HandleLocal(h), W, n)
         /\ \A o \in StackedIn(HandleLocal(h)) : o \in StackedIn(h)
         /\ Len(HandleLocal(h).undo) <= MaxUndo
<1> DEFINE t == NewestUndo(h.undo)
           d == Len(h.undo) - Len(t)
<1>1. /\ HandleLocal(h).undo = t /\ HandleLocal(h).redos = <<>>
      /\ t \in Seq(Mods) /\ Len(t) \in Nat /\ DOMAIN t = 1 .. Len(t)
      /\ Len(t) <= Len(h.undo) /\ Len(t) <= MaxUndo /\ d \in Nat
      /\ \A j \in 1 .. Len(t) : t[j] = h.undo[j + d]
  BY LocalHistory, OrderlyFacts, NewestFacts
<1> HIDE DEF t
<1>2. \A j \in 1 .. Len(t) : j + d \in DOMAIN h.undo /\ j + d \in Nat
  BY <1>1, OrderlyFacts
<1>3. \A o \in StackedIn(HandleLocal(h)) : o \in StackedIn(h)
  BY <1>1, <1>2 DEF StackedIn
<1>4. Distinct(t)
  <2> SUFFICES ASSUME NEW i \in 1 .. Len(t), NEW j \in 1 .. Len(t), t[i].id = t[j].id
               PROVE  i = j
    BY <1>1 DEF Distinct
  <2>1. i + d \in DOMAIN h.undo /\ j + d \in DOMAIN h.undo
    BY <1>2
  <2>2. h.undo[i + d].id = h.undo[j + d].id
    BY <1>1
  <2>3. Distinct(h.undo)
    BY DEF Orderly
  <2>4. i + d = j + d
    <3> HIDE DEF d
    <3> QED BY <2>1, <2>2, <2>3 DEF Distinct
  <2> QED BY <1>1, <2>4
<1>5. Len(t) + Len(<<>>) <= MaxUndo + 1
  BY <1>1, BoundAssumption
<1> QED BY <1>1, <1>3, <1>4, <1>5 DEF Orderly, Distinct

LEMMA OrderlyDo ==
  ASSUME NEW h \in Histories, NEW W, W \subseteq Ops, NEW n \in Nat, Orderly(h, W, n),
         NEW op \in Mods, op.id = n + 1
  PROVE  Orderly(HandleDo(h, "modify", op), W \cup {op}, n + 1)
<1> DEFINE g == HandleLocal(h)
           t == Append(g.undo, op)
           k == HandleDo(h, "modify", op)
<1>1. g \in Histories /\ g.redos = <<>> /\ Orderly(g, W, n) /\ Len(g.undo) <= MaxUndo
  BY LocalHistory, OrderlyNewest
<1>2. k.undo = t /\ k.redos = <<>>
  BY LocalHistory DEF HandleDo, Undoable
<1> HIDE DEF g, k
<1>3. /\ Len(g.undo) \in Nat /\ DOMAIN g.undo = 1 .. Len(g.undo) /\ Len(t) = Len(g.undo) + 1
      /\ DOMAIN t = 1 .. Len(g.undo) + 1
      /\ \A i \in 1 .. Len(g.undo) : t[i] = g.undo[i]
      /\ t[Len(g.undo) + 1] = op
  BY <1>1, OrderlyFacts, AppendFacts
<1> HIDE DEF t
<1>4. \A i \in DOMAIN t : i = Len(g.undo) + 1 \/ i \in 1 .. Len(g.undo)
  BY <1>3
<1>5. \A o \in StackedIn(g) \cup W : o.id \in Nat /\ o.id <= n
  BY <1>1, OrderlyFacts, ModsAre, OpsAre DEF Orderly
<1>6. \A i \in 1 .. Len(g.undo) : g.undo[i] \in StackedIn(g)
  BY <1>1, OrderlyFacts
<1>7. StackedIn(k) \subseteq StackedIn(g) \cup {op}
  <2>1. \A i \in DOMAIN t : t[i] \in StackedIn(g) \cup {op}
    BY <1>3, <1>4, <1>6
  <2> QED BY <1>2, <2>1 DEF StackedIn
<1>8. \A o, p \in StackedIn(k) \cup (W \cup {op}) : o.id <= n + 1 /\ (o.id = p.id => o = p)
  BY <1>1, <1>5, <1>7 DEF Orderly
<1>9. Distinct(t)
  <2> SUFFICES ASSUME NEW i \in DOMAIN t, NEW j \in DOMAIN t, t[i].id = t[j].id PROVE i = j
    BY DEF Distinct
  <2>1. CASE i \in 1 .. Len(g.undo) /\ j \in 1 .. Len(g.undo)
    BY <1>1, <1>3, <2>1 DEF Orderly, Distinct
  <2>2. CASE i = Len(g.undo) + 1 /\ j \in 1 .. Len(g.undo)
    BY <1>3, <1>5, <1>6, <2>2
  <2>3. CASE j = Len(g.undo) + 1 /\ i \in 1 .. Len(g.undo)
    BY <1>3, <1>5, <1>6, <2>3
  <2> QED BY <1>4, <2>1, <2>2, <2>3
<1>10. Len(k.undo) + Len(k.redos) <= MaxUndo + 1
  BY <1>1, <1>2, <1>3, BoundAssumption
<1>11. DOMAIN k.redos = {} /\ Distinct(k.undo)
  BY <1>2, <1>9
<1>12. Orderly(k, W \cup {op}, n + 1)
  BY <1>8, <1>10, <1>11 DEF Orderly, Distinct
<1> QED BY <1>12 DEF k

\* An entry goes from one stack to the other.
LEMMA MovedFacts ==
  ASSUME NEW s \in Seq(Mods), s # <<>>, NEW t \in Seq(Mods), Distinct(s), Distinct(t),
         \A i \in DOMAIN s, j \in DOMAIN t : s[i].id # t[j].id
  PROVE  /\ Len(Front(s)) + Len(Append(t, Last(s))) = Len(s) + Len(t)
         /\ Distinct(Front(s)) /\ Distinct(Append(t, Last(s)))
         /\ \A i \in DOMAIN Front(s), j \in DOMAIN Append(t, Last(s)) : Front(s)[i].id # Append(t, Last(s))[j].id
         /\ \A i \in DOMAIN Front(s) : \E k \in DOMAIN s : Front(s)[i] = s[k]
         /\ \A i \in DOMAIN Append(t, Last(s)) :
              \/ \E k \in DOMAIN s : Append(t, Last(s))[i] = s[k]
              \/ \E k \in DOMAIN t : Append(t, Last(s))[i] = t[k]
<1> DEFINE a == Front(s)
           b == Append(t, Last(s))
           m == Len(s)
           l == Len(t)
<1>1. /\ m \in Nat \ {0} /\ DOMAIN s = 1 .. m /\ Last(s) = s[m] /\ Last(s) \in Mods
      /\ Len(a) = m - 1 /\ DOMAIN a = 1 .. m - 1 /\ \A i \in 1 .. m - 1 : a[i] = s[i]
  BY FrontFacts
<1>2. /\ l \in Nat /\ DOMAIN t = 1 .. l /\ Len(b) = l + 1 /\ DOMAIN b = 1 .. l + 1
      /\ \A i \in 1 .. l : b[i] = t[i]
      /\ b[l + 1] = s[m]
  BY <1>1, AppendFacts
<1> HIDE DEF a, b, m, l
<1>3. \A i \in DOMAIN a : i \in DOMAIN s /\ i # m /\ a[i] = s[i]
  BY <1>1
<1>4. \A i \in DOMAIN b : i = l + 1 \/ (i \in DOMAIN t /\ b[i] = t[i])
  <2> SUFFICES ASSUME NEW i \in 1 .. l + 1, i # l + 1 PROVE i \in 1 .. l
    BY <1>2
  <2> QED BY <1>2
<1>5. m \in DOMAIN s
  BY <1>1
<1>6. Distinct(a)
  BY <1>3 DEF Distinct
<1>7. Distinct(b)
  <2> SUFFICES ASSUME NEW i \in DOMAIN b, NEW j \in DOMAIN b, b[i].id = b[j].id PROVE i = j
    BY DEF Distinct
  <2> QED BY <1>2, <1>4, <1>5 DEF Distinct
<1>8. \A i \in DOMAIN a, j \in DOMAIN b : a[i].id # b[j].id
  BY <1>2, <1>3, <1>4, <1>5 DEF Distinct
<1>9. Len(a) + Len(b) = m + l
  BY <1>1, <1>2
<1>10. \A i \in DOMAIN a : \E k \in DOMAIN s : a[i] = s[k]
  BY <1>3
<1>11. \A i \in DOMAIN b : (\E k \in DOMAIN s : b[i] = s[k]) \/ \E k \in DOMAIN t : b[i] = t[k]
  BY <1>2, <1>4, <1>5
<1> QED BY <1>6, <1>7, <1>8, <1>9, <1>10, <1>11 DEF a, b, m, l

LEMMA OrderlyUndo ==
  ASSUME NEW h \in Histories, NEW W, W \subseteq Ops, NEW n \in Nat, Orderly(h, W, n),
         h.undo # <<>>, NEW op, op.id = n + 1
  PROVE  Orderly([undo |-> Front(h.undo), redos |-> Append(h.redos, Last(h.undo))], W \cup {op}, n + 1)
<1> DEFINE k == [undo |-> Front(h.undo), redos |-> Append(h.redos, Last(h.undo))]
<1>1. h.undo \in Seq(Mods) /\ h.redos \in Seq(Mods)
  BY OrderlyFacts
<1>2. /\ Distinct(h.undo) /\ Distinct(h.redos)
      /\ \A i \in DOMAIN h.undo, j \in DOMAIN h.redos : h.undo[i].id # h.redos[j].id
      /\ Len(h.undo) + Len(h.redos) <= MaxUndo + 1
  BY DEF Orderly
<1>a. k.undo = Front(h.undo) /\ k.redos = Append(h.redos, Last(h.undo))
  OBVIOUS
<1> HIDE DEF k
<1>b. /\ Len(k.undo) + Len(k.redos) = Len(h.undo) + Len(h.redos)
      /\ Distinct(k.undo) /\ Distinct(k.redos)
      /\ \A i \in DOMAIN k.undo, j \in DOMAIN k.redos : k.undo[i].id # k.redos[j].id
      /\ \A i \in DOMAIN k.undo : \E j \in DOMAIN h.undo : k.undo[i] = h.undo[j]
      /\ \A i \in DOMAIN k.redos : \/ \E j \in DOMAIN h.undo : k.redos[i] = h.undo[j]
                                  \/ \E j \in DOMAIN h.redos : k.redos[i] = h.redos[j]
  <2>1. h.undo # <<>> /\ \A i \in DOMAIN h.undo, j \in DOMAIN h.redos : h.undo[i].id # h.redos[j].id
    BY <1>2
  <2>2. /\ Len(Front(h.undo)) + Len(Append(h.redos, Last(h.undo))) = Len(h.undo) + Len(h.redos)
        /\ Distinct(Front(h.undo)) /\ Distinct(Append(h.redos, Last(h.undo)))
    BY <1>1, <1>2, <2>1, MovedFacts
  <2>3. \A i \in DOMAIN Front(h.undo), j \in DOMAIN Append(h.redos, Last(h.undo)) : Front(h.undo)[i].id # Append(h.redos, Last(h.undo))[j].id
    BY <1>1, <1>2, <2>1, MovedFacts
  <2>4. \A i \in DOMAIN Front(h.undo) : \E j \in DOMAIN h.undo : Front(h.undo)[i] = h.undo[j]
    BY <1>1, <1>2, <2>1, MovedFacts
  <2>5. \A i \in DOMAIN Append(h.redos, Last(h.undo)) : \/ \E j \in DOMAIN h.undo : Append(h.redos, Last(h.undo))[i] = h.undo[j]
                              \/ \E j \in DOMAIN h.redos : Append(h.redos, Last(h.undo))[i] = h.redos[j]
    BY <1>1, <1>2, <2>1, MovedFacts
  <2> DEFINE u == Front(h.undo)
             v == Append(h.redos, Last(h.undo))
  <2>6. /\ Len(u) + Len(v) = Len(h.undo) + Len(h.redos)
        /\ Distinct(u) /\ Distinct(v)
        /\ \A i \in DOMAIN u, j \in DOMAIN v : u[i].id # v[j].id
        /\ \A i \in DOMAIN u : \E j \in DOMAIN h.undo : u[i] = h.undo[j]
        /\ \A i \in DOMAIN v : \/ \E j \in DOMAIN h.undo : v[i] = h.undo[j]
                              \/ \E j \in DOMAIN h.redos : v[i] = h.redos[j]
    BY <2>2, <2>3, <2>4, <2>5
  <2>7. k.undo = u /\ k.redos = v
    BY <1>a
  <2> HIDE DEF u, v
  <2> QED BY <2>6, <2>7
<1>3. /\ Len(k.undo) + Len(k.redos) <= MaxUndo + 1 /\ Distinct(k.undo) /\ Distinct(k.redos)
      /\ \A i \in DOMAIN k.undo, j \in DOMAIN k.redos : k.undo[i].id # k.redos[j].id
      /\ \A i \in DOMAIN k.undo : k.undo[i] \in StackedIn(h)
      /\ \A i \in DOMAIN k.redos : k.redos[i] \in StackedIn(h)
  BY <1>2, <1>b DEF StackedIn
<1>4. StackedIn(k) \subseteq StackedIn(h)
  BY <1>3 DEF StackedIn
<1>5. Orderly(h, W \cup {op}, n + 1)
  BY OrderlyMore
<1> QED BY <1>3, <1>4, <1>5 DEF Orderly, k

LEMMA OrderlyRedo ==
  ASSUME NEW h \in Histories, NEW W, W \subseteq Ops, NEW n \in Nat, Orderly(h, W, n), h.redos # <<>>
  PROVE  Orderly([undo |-> Append(h.undo, Last(h.redos)), redos |-> Front(h.redos)],
                 W \cup {Last(h.redos)}, n + 1)
<1> DEFINE k == [undo |-> Append(h.undo, Last(h.redos)), redos |-> Front(h.redos)]
<1>1. h.undo \in Seq(Mods) /\ h.redos \in Seq(Mods) /\ Len(h.undo) \in Nat /\ Len(h.redos) \in Nat
  BY OrderlyFacts
<1>2. /\ Distinct(h.undo) /\ Distinct(h.redos)
      /\ \A i \in DOMAIN h.redos, j \in DOMAIN h.undo : h.redos[i].id # h.undo[j].id
      /\ Len(h.undo) + Len(h.redos) <= MaxUndo + 1
  BY DEF Orderly
<1>a. k.undo = Append(h.undo, Last(h.redos)) /\ k.redos = Front(h.redos)
  OBVIOUS
<1> HIDE DEF k
<1>b. /\ Len(k.redos) + Len(k.undo) = Len(h.redos) + Len(h.undo)
      /\ Distinct(k.undo) /\ Distinct(k.redos)
      /\ \A i \in DOMAIN k.redos, j \in DOMAIN k.undo : k.redos[i].id # k.undo[j].id
      /\ \A i \in DOMAIN k.redos : \E j \in DOMAIN h.redos : k.redos[i] = h.redos[j]
      /\ \A i \in DOMAIN k.undo : \/ \E j \in DOMAIN h.redos : k.undo[i] = h.redos[j]
                                 \/ \E j \in DOMAIN h.undo : k.undo[i] = h.undo[j]
  <2>1. h.redos # <<>> /\ \A i \in DOMAIN h.redos, j \in DOMAIN h.undo : h.redos[i].id # h.undo[j].id
    BY <1>2
  <2>2. /\ Len(Front(h.redos)) + Len(Append(h.undo, Last(h.redos))) = Len(h.redos) + Len(h.undo)
        /\ Distinct(Front(h.redos)) /\ Distinct(Append(h.undo, Last(h.redos)))
    BY <1>1, <1>2, <2>1, MovedFacts
  <2>3. \A i \in DOMAIN Front(h.redos), j \in DOMAIN Append(h.undo, Last(h.redos)) : Front(h.redos)[i].id # Append(h.undo, Last(h.redos))[j].id
    BY <1>1, <1>2, <2>1, MovedFacts
  <2>4. \A i \in DOMAIN Front(h.redos) : \E j \in DOMAIN h.redos : Front(h.redos)[i] = h.redos[j]
    BY <1>1, <1>2, <2>1, MovedFacts
  <2>5. \A i \in DOMAIN Append(h.undo, Last(h.redos)) : \/ \E j \in DOMAIN h.redos : Append(h.undo, Last(h.redos))[i] = h.redos[j]
                              \/ \E j \in DOMAIN h.undo : Append(h.undo, Last(h.redos))[i] = h.undo[j]
    BY <1>1, <1>2, <2>1, MovedFacts
  <2> DEFINE u == Front(h.redos)
             v == Append(h.undo, Last(h.redos))
  <2>6. /\ Len(u) + Len(v) = Len(h.redos) + Len(h.undo)
        /\ Distinct(u) /\ Distinct(v)
        /\ \A i \in DOMAIN u, j \in DOMAIN v : u[i].id # v[j].id
        /\ \A i \in DOMAIN u : \E j \in DOMAIN h.redos : u[i] = h.redos[j]
        /\ \A i \in DOMAIN v : \/ \E j \in DOMAIN h.redos : v[i] = h.redos[j]
                              \/ \E j \in DOMAIN h.undo : v[i] = h.undo[j]
    BY <2>2, <2>3, <2>4, <2>5
  <2>7. k.redos = u /\ k.undo = v
    BY <1>a
  <2> HIDE DEF u, v
  <2> QED BY <2>6, <2>7
<1>3. /\ Len(k.redos) + Len(k.undo) = Len(h.redos) + Len(h.undo) /\ Distinct(k.undo) /\ Distinct(k.redos)
      /\ \A i \in DOMAIN k.redos, j \in DOMAIN k.undo : k.redos[i].id # k.undo[j].id
      /\ \A i \in DOMAIN k.undo : k.undo[i] \in StackedIn(h)
      /\ \A i \in DOMAIN k.redos : k.redos[i] \in StackedIn(h)
  BY <1>b DEF StackedIn
<1>4. Len(k.undo) + Len(k.redos) <= MaxUndo + 1
  <2>1. Front(h.redos) \in Seq(Mods) /\ Last(h.redos) \in Mods
    BY <1>1, FrontFacts
  <2>2. Append(h.undo, Last(h.redos)) \in Seq(Mods)
    BY <1>1, <2>1, AppendFacts
  <2>3. Len(k.undo) \in Nat /\ Len(k.redos) \in Nat
    BY <1>a, <2>1, <2>2
  <2>4. MaxUndo \in Nat
    BY BoundAssumption
  <2>5. \A a, b, c, d, m \in Nat : b + a = d + c /\ c + d <= m + 1 => a + b <= m + 1
    OBVIOUS
  <2> QED BY <1>1, <1>2, <1>3, <2>3, <2>4, <2>5
<1>5. Last(h.redos) \in StackedIn(h)
  BY <1>1, FrontFacts, OrderlyFacts
<1>6. StackedIn(k) \subseteq StackedIn(h)
  BY <1>3 DEF StackedIn
<1>7. \A o \in StackedIn(h) \cup W : o.id \in Nat /\ o.id <= n
  BY OrderlyFacts, ModsAre, OpsAre DEF Orderly
<1>8. \A o, p \in StackedIn(k) \cup (W \cup {Last(h.redos)}) : o.id <= n + 1 /\ (o.id = p.id => o = p)
  BY <1>5, <1>6, <1>7 DEF Orderly
<1> QED BY <1>3, <1>4, <1>8 DEF Orderly, k

LEMMA OrderlyWithout ==
  ASSUME NEW h \in Histories, NEW W, NEW n, Orderly(h, W, n), NEW op
  PROVE  Orderly(WithoutUndo(h, op), W, n)
<1> DEFINE K == {i \in DOMAIN h.undo : h.undo[i].id # op.id}
           k == WithoutUndo(h, op)
           t == Keeping(h.undo, K)
<1>1. k \in Histories /\ k.undo = t /\ k.redos = h.redos /\ K \subseteq DOMAIN h.undo
  BY WithoutTypes
<1>2. /\ h.undo \in Seq(Mods) /\ Len(h.undo) \in Nat /\ Len(h.redos) \in Nat
      /\ Len(h.undo) + Len(h.redos) <= MaxUndo + 1
  BY OrderlyFacts DEF Orderly
<1> HIDE DEF K, k, t
<1>3. Len(t) \in Nat /\ Len(t) <= Len(h.undo) /\ DOMAIN t = 1 .. Len(t)
  BY <1>1, <1>2, KeepingFacts DEF t
<1>4. PICK f \in [1 .. Len(t) -> K] :
        /\ \A j \in 1 .. Len(t) : t[j] = h.undo[f[j]]
        /\ \A i, j \in 1 .. Len(t) : i < j => f[i] < f[j]
  <2>1. \E f \in [1 .. Len(Keeping(h.undo, K)) -> K] :
          /\ \A j \in 1 .. Len(Keeping(h.undo, K)) : Keeping(h.undo, K)[j] = h.undo[f[j]]
          /\ \A i, j \in 1 .. Len(Keeping(h.undo, K)) : i < j => f[i] < f[j]
    BY <1>1, <1>2, KeepingFacts
  <2> QED BY <2>1, Zenon DEF t
<1>5. \A j \in DOMAIN t : f[j] \in DOMAIN h.undo /\ t[j] = h.undo[f[j]] /\ f[j] \in Nat
  BY <1>1, <1>2, <1>3, <1>4
<1>6. \A i, j \in DOMAIN t : f[i] = f[j] => i = j
  <2> SUFFICES ASSUME NEW i \in DOMAIN t, NEW j \in DOMAIN t, i # j PROVE f[i] # f[j]
    OBVIOUS
  <2>1. i < j \/ j < i
    BY <1>3
  <2>2. f[i] < f[j] \/ f[j] < f[i]
    BY <1>3, <1>4, <2>1
  <2> QED BY <1>5, <2>2
<1>7. Distinct(t)
  BY <1>5, <1>6 DEF Distinct, Orderly
<1>8. StackedIn(k) \subseteq StackedIn(h)
  BY <1>1, <1>5 DEF StackedIn
<1>9. \A i \in DOMAIN t, j \in DOMAIN h.redos : t[i].id # h.redos[j].id
  BY <1>5 DEF Orderly
<1>10. Len(t) + Len(h.redos) <= MaxUndo + 1
  <2>1. MaxUndo \in Nat
    BY BoundAssumption
  <2>2. \A a, b, c, m \in Nat : a <= b /\ b + c <= m + 1 => a + c <= m + 1
    OBVIOUS
  <2> QED BY <1>2, <1>3, <2>1, <2>2
<1> QED BY <1>1, <1>7, <1>8, <1>9, <1>10 DEF Orderly, k

-----------------------------------------------------------------------------
(* The stacks follow the rows.                                             *)

\* What an operation makes of a row.
LEMMA AppliedRows ==
  ASSUME NEW d \in Tables, NEW op \in Ops, NEW r \in Rows
  PROVE  Applied(d, op).rows[r] =
           IF r \notin RowsOf(op) THEN d.rows[r]
           ELSE IF op.type = "modify" /\ d.rows[r] = Absent THEN Absent ELSE op.new[r]
<1>1. op.type \in {"modify", "delete", "deleteRows", "insert", "groupbys"}
  BY OpsAre DEF Types
<1>2. op.type \in {"delete", "deleteRows"} => \A s \in RowsOf(op) : op.new[s] = Absent
  BY DEF Ops
<1>3. op.type = "groupbys" => RowsOf(op) = {}
  BY DEF Ops
<1> QED BY <1>1, <1>2, <1>3 DEF Applied, Regrouped, ModifyRows, DeleteRows, RowsOf, Tables

LEMMA FollowsEmpty ==
  ASSUME NEW s, s = <<>>, NEW r, NEW v
  PROVE  Leads(Undone(s, r), v) /\ Leads(Redone(s, r), v)
<1>1. On(s, r) = {}
  BY DEF On
<1>2. DOMAIN Undone(s, r) = {} /\ DOMAIN Redone(s, r) = {}
  BY <1>1 DEF Undone, Redone
<1> HIDE DEF Undone, Redone
<1> QED BY <1>2 DEF Leads

LEMMA FollowsLocal ==
  ASSUME NEW h \in Histories, NEW r, NEW v, Follows(h, r, v)
  PROVE  Follows(HandleLocal(h), r, v)
<1>1. HandleLocal(h).undo = NewestUndo(h.undo) /\ HandleLocal(h).redos = <<>> /\ h.undo \in Seq(Mods)
  BY LocalHistory, OrderlyFacts
<1>2. Leads(Undone(NewestUndo(h.undo), r), v)
  BY <1>1, UndoneNewest DEF Follows
<1> QED BY <1>1, <1>2, FollowsEmpty DEF Follows

LEMMA FollowsDo ==
  ASSUME NEW h \in Histories, NEW op \in Mods, NEW r, NEW v, NEW w, Follows(h, r, v),
         IF r \in RowsOf(op) THEN op.old[r] = v /\ op.new[r] = w ELSE w = v
  PROVE  Follows(HandleDo(h, "modify", op), r, w)
<1> DEFINE k == HandleDo(h, "modify", op)
<1>1. k.undo = Append(NewestUndo(h.undo), op) /\ k.redos = <<>>
  BY DEF HandleDo, Undoable
<1>2. h.undo \in Seq(Mods) /\ NewestUndo(h.undo) \in Seq(Mods)
  BY OrderlyFacts, NewestFacts
<1>3. Leads(Undone(NewestUndo(h.undo), r), v)
  BY <1>2, UndoneNewest DEF Follows
<1>4. Leads(Undone(Append(NewestUndo(h.undo), op), r), w)
  BY <1>2, <1>3, UndoneAppend
<1> HIDE DEF k
<1>5. Follows(k, r, w)
  BY <1>1, <1>4, FollowsEmpty DEF Follows
<1> QED BY <1>5 DEF k

LEMMA FollowsUndo ==
  ASSUME NEW h \in Histories, h.undo # <<>>, NEW r, NEW v, Follows(h, r, v), NEW w,
         w = IF r \in RowsOf(Last(h.undo)) THEN Last(h.undo).old[r] ELSE v
  PROVE  /\ r \in RowsOf(Last(h.undo)) => Last(h.undo).new[r] = v
         /\ Follows([undo |-> Front(h.undo), redos |-> Append(h.redos, Last(h.undo))], r, w)
<1> DEFINE op == Last(h.undo)
           k == [undo |-> Front(h.undo), redos |-> Append(h.redos, op)]
<1>1. h.undo \in Seq(Mods) /\ h.redos \in Seq(Mods) /\ op \in Mods
  BY OrderlyFacts, FrontFacts
<1>2. /\ r \in RowsOf(op) => op.new[r] = v
      /\ Leads(Undone(Front(h.undo), r), w)
  BY <1>1, UndoneFront DEF Follows
<1>3. Leads(Redone(Append(h.redos, op), r), w)
  <2>1. Leads(Redone(h.redos, r), v)
    BY DEF Follows
  <2>2. IF r \in RowsOf(op) THEN op.new[r] = v /\ op.old[r] = w ELSE w = v
    BY <1>2
  <2> HIDE DEF op
  <2> QED BY <1>1, <2>1, <2>2, RedoneAppend
<1>4. k.undo = Front(h.undo) /\ k.redos = Append(h.redos, op)
  OBVIOUS
<1> HIDE DEF k
<1>5. Follows(k, r, w)
  BY <1>2, <1>3, <1>4 DEF Follows
<1> QED BY <1>2, <1>5 DEF k

LEMMA FollowsRedo ==
  ASSUME NEW h \in Histories, h.redos # <<>>, NEW r, NEW v, Follows(h, r, v), NEW w,
         w = IF r \in RowsOf(Last(h.redos)) THEN Last(h.redos).new[r] ELSE v
  PROVE  /\ r \in RowsOf(Last(h.redos)) => Last(h.redos).old[r] = v
         /\ Follows([undo |-> Append(h.undo, Last(h.redos)), redos |-> Front(h.redos)], r, w)
<1> DEFINE op == Last(h.redos)
           k == [undo |-> Append(h.undo, op), redos |-> Front(h.redos)]
<1>1. h.undo \in Seq(Mods) /\ h.redos \in Seq(Mods) /\ op \in Mods
  BY OrderlyFacts, FrontFacts
<1>2. /\ r \in RowsOf(op) => op.old[r] = v
      /\ Leads(Redone(Front(h.redos), r), w)
  BY <1>1, RedoneFront DEF Follows
<1>3. Leads(Undone(Append(h.undo, op), r), w)
  <2>1. Leads(Undone(h.undo, r), v)
    BY DEF Follows
  <2>2. IF r \in RowsOf(op) THEN op.old[r] = v /\ op.new[r] = w ELSE w = v
    BY <1>2
  <2> HIDE DEF op
  <2> QED BY <1>1, <2>1, <2>2, UndoneAppend
<1>4. k.undo = Append(h.undo, op) /\ k.redos = Front(h.redos)
  OBVIOUS
<1> HIDE DEF k
<1>5. Follows(k, r, w)
  BY <1>2, <1>3, <1>4 DEF Follows
<1> QED BY <1>2, <1>5 DEF k

\* The stacks stay, and so do the untouched rows and what waits.
LEMMA StacksStay ==
  ASSUME Typed, Stacks, crossed' = crossed, nops' = nops,
         history' = history \/ history' = HandleLocal(history),
         Operations(Waiting') \subseteq Operations(Waiting),
         \A r \in Rows \ touched' : r \notin touched /\ data'.rows[r] = data.rows[r]
  PROVE  Stacks'
<1> SUFFICES ASSUME ~crossed
             PROVE  /\ Orderly(history', Operations(Waiting'), nops)
                    /\ \A r \in Rows \ touched' : Follows(history', r, data'.rows[r])
  BY DEF Stacks
<1>1. history \in Histories
  BY DEF Typed
<1>2. /\ Orderly(history, Operations(Waiting'), nops)
      /\ \A r \in Rows \ touched : Follows(history, r, data.rows[r])
  BY OrderlyLess DEF Stacks
<1>3. Orderly(history', Operations(Waiting'), nops)
  BY <1>1, <1>2, OrderlyNewest
<1>4. ASSUME NEW r \in Rows \ touched' PROVE Follows(history', r, data'.rows[r])
  <2>1. Follows(history, r, data.rows[r]) /\ data'.rows[r] = data.rows[r]
    BY <1>2, <1>4
  <2>2. Follows(HandleLocal(history), r, data.rows[r])
    BY <1>1, <2>1, FollowsLocal
  <2> QED BY <2>1, <2>2
<1> QED BY <1>3, <1>4

LEMMA StacksEdit ==
  ASSUME Typed, Queue, Stacks, NEW op, NEW by, NEW h, Edits(op, by, h), ApplyOperation(op, by, h)
  PROVE  Stacks'
<1> DEFINE W == Operations(Waiting)
<1>1. /\ op \in Ops /\ by \in Handlers /\ nops \in Nat /\ nops' = nops + 1 /\ crossed' = crossed
      /\ history \in Histories /\ data \in Tables
  <2>1. nops' = nops + 1
    BY EditQueue
  <2>2. nops \in Nat
    BY BoundAssumption DEF Typed
  <2>3. op \in Ops /\ by \in Handlers
    BY DEF Edits
  <2>4. crossed' = crossed
    BY DEF ApplyOperation
  <2> QED BY <2>1, <2>2, <2>3, <2>4 DEF Typed
<1>2. W \subseteq Ops /\ Operations(Waiting') = W \cup {op}
  <2>1. Waiting \subseteq Entries /\ Waiting' = Waiting \cup {[op |-> op, n |-> nops + 1]}
    BY EditWaiting
  <2>2. \A e \in Waiting : e.op \in Ops
    BY <2>1, EntriesAre
  <2> DEFINE x == [op |-> op, n |-> nops + 1]
  <2>3. x.op = op /\ Waiting' = Waiting \cup {x}
    BY <2>1
  <2> HIDE DEF x
  <2>4. \A o : o \in Operations(Waiting') <=> o \in Operations(Waiting) \/ o = op
    BY <2>3 DEF Operations
  <2>5. Operations(Waiting) \subseteq Ops
    BY <2>2 DEF Operations
  <2> QED BY <2>4, <2>5
<1> HIDE DEF W
<1> SUFFICES ASSUME ~crossed
             PROVE  /\ Orderly(history', W \cup {op}, nops + 1)
                    /\ \A r \in Rows \ touched' : Follows(history', r, data'.rows[r])
  BY <1>1, <1>2 DEF Stacks
<1>3. /\ Orderly(history, W, nops)
      /\ \A r \in Rows \ touched : Follows(history, r, data.rows[r])
  BY DEF Stacks, W
<1>4. CASE by.kind = "do" /\ op.type \in AfterServer
  <2>1. history' = history /\ data' = data /\ touched' = touched /\ op.id = nops + 1
    BY <1>4 DEF ApplyOperation, Edits
  <2> QED BY <1>1, <1>2, <1>3, <2>1, OrderlyMore
<1>5. CASE op.type \notin AfterServer
  <2>1. /\ data' = Applied(data, op) /\ history' = HandleUndoRedos(h, by, op)
        /\ touched' = IF op.type \in Undoable THEN touched ELSE touched \cup Changed(Applied(data, op))
    BY <1>5 DEF ApplyOperation, ChangeBy
  <2>2. ASSUME NEW r \in Rows
        PROVE  data'.rows[r] = IF r \notin RowsOf(op) THEN data.rows[r]
                               ELSE IF op.type = "modify" /\ data.rows[r] = Absent THEN Absent
                               ELSE op.new[r]
    BY <1>1, <2>1, AppliedRows
  <2>3. CASE by.kind = "do" /\ op.type = "modify"
    <3>1. h = history /\ op.id = nops + 1 /\ op \in Mods /\ history' = HandleDo(history, "modify", op)
          /\ touched' = touched
          /\ \A r \in RowsOf(op) : data.rows[r] # Absent /\ op.old[r] = data.rows[r]
      BY <1>1, <2>1, <2>3, OpsAre DEF Edits, HandleUndoRedos, Undoable
    <3>2. Orderly(history', W \cup {op}, nops + 1)
      BY <1>1, <1>2, <1>3, <3>1, OrderlyDo
    <3>3. ASSUME NEW r \in Rows \ touched PROVE Follows(history', r, data'.rows[r])
      <4>1. Follows(history, r, data.rows[r])
        BY <1>3
      <4>2. IF r \in RowsOf(op) THEN op.old[r] = data.rows[r] /\ op.new[r] = data'.rows[r]
            ELSE data'.rows[r] = data.rows[r]
        BY <2>2, <3>1
      <4> QED BY <1>1, <3>1, <4>1, <4>2, FollowsDo
    <3> QED BY <3>1, <3>2, <3>3
  <2>4. CASE by.kind = "do" /\ op.type # "modify"
    <3>1. h = history /\ op.id = nops + 1 /\ history' = HandleLocal(history)
          /\ touched' = touched \cup Changed(Applied(data, op))
      BY <2>1, <2>4 DEF Edits, HandleUndoRedos, Undoable, HandleDo, HandleLocal
    <3>2. Orderly(history', W \cup {op}, nops + 1)
      BY <1>1, <1>2, <1>3, <3>1, OrderlyNewest, OrderlyMore, LocalHistory
    <3>3. ASSUME NEW r \in Rows \ touched' PROVE Follows(history', r, data'.rows[r])
      BY <1>1, <1>3, <2>1, <3>1, <3>3, FollowsLocal DEF Changed
    <3> QED BY <3>2, <3>3
  <2>5. CASE by.kind = "undo"
    <3>1. /\ op.id = nops + 1 /\ op.type = "modify" /\ history.undo # <<>> /\ by.op = Last(history.undo)
          /\ op.new = Last(history.undo).old /\ op.old = Last(history.undo).new
          /\ h = [history EXCEPT !.undo = Front(@)] /\ touched' = touched
      BY <2>1, <2>5 DEF Edits, Undoable
    <3>2. history' = [undo |-> Front(history.undo), redos |-> Append(history.redos, Last(history.undo))]
      BY <1>1, <2>1, <2>5, <3>1 DEF HandleUndoRedos, Histories
    <3>3. Orderly(history', W \cup {op}, nops + 1)
      BY <1>1, <1>2, <1>3, <3>1, <3>2, OrderlyUndo
    <3>4. Last(history.undo) \in Mods /\ op \in Mods
      BY <1>1, <3>1, OrderlyFacts, FrontFacts, OpsAre
    <3>5. ASSUME NEW r \in Rows \ touched PROVE Follows(history', r, data'.rows[r])
      <4> DEFINE w == IF r \in RowsOf(Last(history.undo)) THEN Last(history.undo).old[r] ELSE data.rows[r]
      <4>1. Follows(history, r, data.rows[r])
        BY <1>3
      <4>2. r \in RowsOf(Last(history.undo)) => Last(history.undo).new[r] = data.rows[r]
        BY <1>1, <3>1, <4>1, FollowsUndo
      <4>3. data'.rows[r] = w
        <5>1. RowsOf(op) = RowsOf(Last(history.undo))
          BY <3>1, <3>4, ModsAre
        <5>2. r \in RowsOf(op) => data.rows[r] # Absent
          BY <3>4, <4>2, <5>1, ModsAre, ValuesAssumption
        <5> QED BY <2>2, <3>1, <5>1, <5>2
      <4> HIDE DEF w
      <4>4. Follows([undo |-> Front(history.undo), redos |-> Append(history.redos, Last(history.undo))], r, w)
        BY <1>1, <3>1, <4>1, FollowsUndo DEF w
      <4> QED BY <3>2, <4>3, <4>4
    <3> QED BY <3>1, <3>3, <3>5
  <2>6. CASE by.kind = "redo"
    <3>1. /\ op.type = "modify" /\ history.redos # <<>> /\ by.op = Last(history.redos)
          /\ op = Last(history.redos)
          /\ h = [history EXCEPT !.redos = Front(@)] /\ touched' = touched
      BY <2>1, <2>6 DEF Edits, Undoable
    <3>2. history' = [undo |-> Append(history.undo, Last(history.redos)), redos |-> Front(history.redos)]
      BY <1>1, <2>1, <2>6, <3>1 DEF HandleUndoRedos, Histories
    <3>3. Orderly(history', W \cup {op}, nops + 1)
      BY <1>1, <1>2, <1>3, <3>1, <3>2, OrderlyRedo
    <3>4. op \in Mods
      BY <1>1, <3>1, OpsAre
    <3>5. ASSUME NEW r \in Rows \ touched PROVE Follows(history', r, data'.rows[r])
      <4> DEFINE w == IF r \in RowsOf(Last(history.redos)) THEN Last(history.redos).new[r] ELSE data.rows[r]
      <4>1. Follows(history, r, data.rows[r])
        BY <1>3
      <4>2. r \in RowsOf(Last(history.redos)) => Last(history.redos).old[r] = data.rows[r]
        BY <1>1, <3>1, <4>1, FollowsRedo
      <4>3. data'.rows[r] = w
        <5>1. r \in RowsOf(op) => data.rows[r] # Absent
          BY <3>1, <3>4, <4>2, ModsAre, ValuesAssumption
        <5> QED BY <2>2, <3>1, <5>1
      <4> HIDE DEF w
      <4>4. Follows([undo |-> Append(history.undo, Last(history.redos)), redos |-> Front(history.redos)], r, w)
        BY <1>1, <3>1, <4>1, FollowsRedo DEF w
      <4> QED BY <3>2, <4>3, <4>4
    <3> QED BY <3>1, <3>3, <3>5
  <2> QED BY <2>3, <2>4, <2>5, <2>6 DEF Edits
<1>6. by.kind = "do" \/ op.type \notin AfterServer
  BY DEF Edits, AfterServer
<1> QED BY <1>4, <1>5, <1>6

\* What is on top of the row stays there when old entries are dropped.
LEMMA TopStays ==
  ASSUME NEW s \in Seq(Mods), NEW r, NEW op, OnTop(s, r, op)
  PROVE  On(NewestUndo(s), r) = {} \/ OnTop(NewestUndo(s), r, op)
<1> DEFINE t == NewestUndo(s)
           d == Len(s) - Len(t)
<1>1. /\ t \in Seq(Mods) /\ Len(t) \in Nat /\ Len(t) <= Len(s) /\ Len(s) \in Nat /\ d \in Nat
      /\ DOMAIN t = 1 .. Len(t) /\ DOMAIN s = 1 .. Len(s)
      /\ \A j \in 1 .. Len(t) : t[j] = s[j + d]
  BY NewestFacts
<1> HIDE DEF t
<1>2. PICK m \in On(s, r) : (\A k \in On(s, r) : k <= m) /\ s[m] = op
  BY DEF OnTop
<1>3. ASSUME NEW j \in On(t, r) PROVE j + d <= m /\ j \in 1 .. Len(t)
  <2>1. j \in 1 .. Len(t) /\ r \in RowsOf(t[j])
    BY <1>1, <1>3 DEF On
  <2>2. j + d \in DOMAIN s /\ s[j + d] = t[j]
    BY <1>1, <2>1
  <2>3. j + d \in On(s, r)
    BY <2>1, <2>2 DEF On
  <2> QED BY <1>2, <2>1, <2>3
<1>4. m \in 1 .. Len(s) /\ r \in RowsOf(s[m])
  BY <1>1, <1>2 DEF On
<1>5. ASSUME NEW i \in On(t, r) PROVE OnTop(t, r, op)
  <2>1. i \in 1 .. Len(t) /\ i + d <= m
    BY <1>3
  <2>2. m - d \in 1 .. Len(t) /\ (m - d) + d = m
    BY <1>1, <1>4, <2>1
  <2>3. t[m - d] = s[m]
    BY <1>1, <2>2
  <2>4. m - d \in On(t, r)
    <3> HIDE DEF d
    <3> QED BY <1>1, <1>4, <2>2, <2>3 DEF On
  <2>5. \A j \in On(t, r) : j <= m - d
    BY <1>1, <1>3, <1>4
  <2> HIDE DEF d
  <2> QED BY <1>2, <2>3, <2>4, <2>5 DEF OnTop
<1> QED BY <1>5 DEF t

LEMMA StacksAnswer ==
  ASSUME Typed, Queue, Stacks, NEW e \in inflight, Answer(e)
  PROVE  Stacks'
<1>1. /\ e.op \in Ops /\ e.by \in Handlers /\ history \in Histories /\ data \in Tables
      /\ (e.op.type = "modify" => e.op \in Mods)
  BY OpsAre DEF Typed, InFlight
<1>2. Waiting' \subseteq Waiting /\ Operations(Waiting') \subseteq Operations(Waiting)
  <2>1. Waiting' = Waiting \ {[op |-> e.op, n |-> e.n]}
    BY AnswerWaiting
  <2> QED BY <2>1 DEF Operations
<1>3. nops' = nops
  BY AnswerSends
<1>4. CASE AnswerDeferred(e) /\ e.by.kind = "do"
  <2>1. history' = HandleLocal(history)
        /\ touched' = touched \cup Changed(data') /\ crossed' = crossed
    <3>1. /\ e.op.type \in AfterServer /\ history' = HandleUndoRedos(history, e.by, e.op)
          /\ ChangeBy(Succeeded(e)) /\ crossed' = (crossed \/ e.by.kind # "do")
      BY <1>4 DEF AnswerDeferred
    <3>2. crossed' = crossed
      BY <1>4, <3>1 DEF Typed
    <3>3. e.op.type \notin Undoable /\ Succeeded(e).type = e.op.type
      BY <3>1, SucceededIs DEF AfterServer, Undoable, Typed
    <3>4. history' = HandleLocal(history)
      BY <1>4, <3>1, <3>3 DEF HandleUndoRedos, HandleDo, HandleLocal
    <3> QED BY <3>1, <3>2, <3>3, <3>4 DEF ChangeBy
  <2>2. \A r \in Rows \ touched' : r \notin touched /\ data'.rows[r] = data.rows[r]
    BY <2>1 DEF Changed
  <2> QED BY <1>2, <1>3, <2>1, <2>2, StacksStay
<1>5. CASE AnswerDeferred(e) /\ e.by.kind # "do"
  BY <1>5 DEF AnswerDeferred, Stacks
<1>6. CASE AnswerEcho(e)
  <2>1. history' = HandleLocal(history) /\ data' = AppliedLocally(data, e.op.new) /\ crossed' = crossed
        /\ touched' = touched \cup Changed(AppliedLocally(data, e.op.new))
    BY <1>6 DEF AnswerEcho, ChangeLocally
  <2>2. \A r \in Rows \ touched' : r \notin touched /\ data'.rows[r] = data.rows[r]
    BY <2>1 DEF Changed
  <2> QED BY <1>2, <1>3, <2>1, <2>2, StacksStay
<1>7. CASE AnswerPlain(e) \/ AnswerError(e) \/ AnswerIgnored(e)
  <2>1. UNCHANGED <<data, history, touched, crossed>>
    BY <1>7 DEF AnswerPlain, AnswerError, AnswerIgnored
  <2> QED BY <1>2, <1>3, <2>1, StacksStay
<1>8. CASE AnswerRefused(e)
  <2> DEFINE lost == {r \in RowsOf(e.op) : \A o \in NewestOf(history.undo, r) : o.id # e.op.id}
             g == HandleLocal(history)
             s == NewestUndo(history.undo)
             K == {i \in DOMAIN s : s[i].id # e.op.id}
             t == Keeping(s, K)
  <2>1. /\ e.op.type = "modify" /\ e.op \in Mods /\ history' = WithoutUndo(g, e.op) /\ crossed' = crossed
        /\ data' = AppliedLocally(data, e.op.old) /\ touched' = touched \cup lost
    BY <1>1, <1>8 DEF AnswerRefused, ChangeLocally
  <2> SUFFICES ASSUME ~crossed
               PROVE  /\ Orderly(history', Operations(Waiting'), nops)
                      /\ \A r \in Rows \ touched' : Follows(history', r, data'.rows[r])
    BY <1>3, <2>1 DEF Stacks
  <2>2. /\ Orderly(history, Operations(Waiting), nops)
        /\ \A r \in Rows \ touched : Follows(history, r, data.rows[r])
    BY DEF Stacks
  <2>3. g \in Histories /\ g.undo = s /\ g.redos = <<>> /\ s \in Seq(Mods)
        /\ history.undo \in Seq(Mods)
    BY <1>1, LocalHistory, OrderlyFacts
  <2>4. history'.undo = t /\ history'.redos = <<>>
    <3>1. K = {i \in DOMAIN g.undo : g.undo[i].id # e.op.id}
      <4> HIDE DEF g, s
      <4> QED BY <2>3
    <3>2. history'.undo = Keeping(g.undo, K) /\ history'.redos = g.redos
      <4> HIDE DEF g, K
      <4> QED BY <2>1, <2>3, <3>1, WithoutTypes
    <3> HIDE DEF g, s, K
    <3> QED BY <2>3, <3>2
  <2> HIDE DEF g, s, t, lost
  <2>5. Orderly(g, Operations(Waiting), nops) /\ StackedIn(g) \subseteq StackedIn(history)
    BY <1>1, <2>2, OrderlyNewest DEF g
  <2>6. Orderly(history', Operations(Waiting'), nops)
    BY <1>2, <2>1, <2>3, <2>5, OrderlyWithout, OrderlyLess
  <2>7. Distinct(s)
    BY <2>3, <2>5 DEF Orderly
  <2>8. \A o \in StackedIn(history) : o.id = e.op.id => o = e.op
    <3>1. [op |-> e.op, n |-> e.n] \in Waiting
      BY InFlightFirst DEF Oldest
    <3>2. e.op \in Operations(Waiting)
      BY <3>1 DEF Operations
    <3> QED BY <2>2, <3>2 DEF Orderly
  <2>9. ASSUME NEW r \in Rows \ touched' PROVE Follows(history', r, data'.rows[r])
    <3> DEFINE w == IF r \in RowsOf(e.op) THEN e.op.old[r] ELSE data.rows[r]
    <3>1. r \notin touched /\ r \notin lost /\ Follows(history, r, data.rows[r])
      BY <2>1, <2>2
    <3>2. Leads(Undone(history.undo, r), data.rows[r]) /\ Leads(Undone(s, r), data.rows[r])
      BY <2>3, <3>1, UndoneNewest DEF Follows, s
    <3>3. CASE r \in RowsOf(e.op)
      <4>1. PICK o \in NewestOf(history.undo, r) : o.id = e.op.id
        BY <3>1, <3>3 DEF lost
      <4>2. PICK m \in On(history.undo, r) : (\A k \in On(history.undo, r) : k <= m) /\ history.undo[m] = o
        <5>1. PICK m \in On(history.undo, r) : (\A k \in On(history.undo, r) : k <= m) /\ o = history.undo[m]
          BY <4>1 DEF NewestOf
        <5> QED BY <5>1
      <4>3. o = e.op
        <5>1. m \in DOMAIN history.undo
          BY <4>2 DEF On
        <5> QED BY <2>8, <4>1, <4>2, <5>1 DEF StackedIn
      <4>4. OnTop(history.undo, r, e.op)
        BY <4>2, <4>3 DEF OnTop
      <4>5. On(s, r) = {} \/ OnTop(s, r, e.op)
        BY <2>3, <4>4, TopStays DEF s
      <4>6. e.op.new[r] = data.rows[r]
        <5>1. m \in DOMAIN Undone(history.undo, r) /\ Undone(history.undo, r)[m] = Made(e.op, r)
              /\ DOMAIN Undone(history.undo, r) = On(history.undo, r)
          BY <2>3, <4>2, <4>3, OnFacts
        <5>2. Undone(history.undo, r)[m].to = data.rows[r]
          BY <3>2, <4>2, <5>1 DEF Leads
        <5> QED BY <5>1, <5>2 DEF Made
      <4>7. data.rows[r] # Absent
        BY <2>1, <3>3, <4>6, ModsAre, ValuesAssumption
      <4>8. data'.rows[r] = e.op.old[r]
        <5>1. r \in DOMAIN e.op.old /\ CellsOf(e.op.old)
          BY <2>1, <3>3, ModsAre
        <5> QED BY <2>1, <4>7, <5>1, LocalRows
      <4>9. Leads(Undone(t, r), e.op.old[r])
        <5>1. Leads(Undone(t, r), IF r \in RowsOf(e.op) THEN e.op.old[r] ELSE data.rows[r])
          BY <2>1, <2>3, <2>7, <3>2, <3>3, <4>5, UndoneWithout DEF t
        <5> QED BY <3>3, <5>1
      <4> QED BY <2>4, <4>8, <4>9, FollowsEmpty DEF Follows
    <3>4. CASE r \notin RowsOf(e.op)
      <4>1. \A k \in On(s, r) : s[k].id # e.op.id
        <5> SUFFICES ASSUME NEW k \in On(s, r), s[k].id = e.op.id PROVE FALSE
          OBVIOUS
        <5>1. k \in DOMAIN g.undo /\ r \in RowsOf(s[k])
          BY <2>3 DEF On
        <5>2. s[k] \in StackedIn(history)
          BY <2>3, <2>5, <5>1 DEF StackedIn
        <5> QED BY <2>8, <3>4, <5>1, <5>2
      <4>2. Leads(Undone(t, r), data.rows[r])
        <5>1. Leads(Undone(t, r), IF r \in RowsOf(e.op) THEN e.op.old[r] ELSE data.rows[r])
          BY <2>1, <2>3, <2>7, <3>2, <3>4, <4>1, UndoneWithout DEF t
        <5> QED BY <3>4, <5>1
      <4>3. data'.rows[r] = data.rows[r]
        <5>1. r \notin DOMAIN e.op.old /\ CellsOf(e.op.old)
          BY <2>1, <3>4, ModsAre
        <5> QED BY <2>1, <5>1, LocalRows
      <4> QED BY <2>4, <4>2, <4>3, FollowsEmpty DEF Follows
    <3> QED BY <3>3, <3>4
  <2> QED BY <2>6, <2>9
<1> QED BY <1>4, <1>5, <1>6, <1>7, <1>8 DEF Answer, AnswerOk

LEMMA StackStep ==
  ASSUME Typed, Queue, Stacks, [Next]_vars
  PROVE  Stacks'
<1>1. CASE EditStep
  BY <1>1, StacksEdit DEF EditStep
<1>2. CASE AskReload \/ ServeReload \/ Confirm \/ Dismiss \/ UNCHANGED vars
  <2>1. UNCHANGED <<data, history, touched, crossed, nops, pending, inflight>>
    BY <1>2 DEF AskReload, ServeReload, Confirm, Dismiss, vars
  <2>2. Waiting' = Waiting
    BY <2>1 DEF Waiting
  <2> QED BY <2>1, <2>2, StacksStay
<1>3. CASE ApplyReload
  <2>1. /\ UNCHANGED <<history, crossed, nops, pending, inflight>>
        /\ touched' = touched \cup Changed(data')
    BY <1>3 DEF ApplyReload
  <2>2. Waiting' = Waiting
    BY <2>1 DEF Waiting
  <2>3. \A r \in Rows \ touched' : r \notin touched /\ data'.rows[r] = data.rows[r]
    BY <2>1 DEF Changed
  <2> QED BY <2>1, <2>2, <2>3, StacksStay
<1>4. CASE Destroy
  <2>1. /\ history'.undo = <<>> /\ history'.redos = <<>> /\ UNCHANGED <<crossed, nops, touched>>
        /\ pending' = <<>> /\ inflight' = inflight
    BY <1>4 DEF Destroy
  <2>2. Operations(Waiting') \subseteq Operations(Waiting)
    <3>1. Waiting' \subseteq Waiting
      BY <2>1 DEF Waiting, WaitingOf
    <3> QED BY <3>1 DEF Operations
  <2>3. ~crossed => Orderly(history', Operations(Waiting'), nops')
    <3>1. StackedIn(history') = {} /\ DOMAIN history'.undo = {} /\ DOMAIN history'.redos = {}
      BY <2>1 DEF StackedIn
    <3>2. Len(history'.undo) + Len(history'.redos) <= MaxUndo + 1
      BY <2>1, BoundAssumption
    <3> QED BY <2>1, <2>2, <3>1, <3>2 DEF Orderly, Distinct, Stacks
  <2>4. \A r \in Rows \ touched' : Follows(history', r, data'.rows[r])
    BY <2>1, FollowsEmpty DEF Follows
  <2> QED BY <2>1, <2>3, <2>4 DEF Stacks
<1>5. ASSUME NEW e \in inflight, Execute(e) PROVE Stacks'
  <2>1. UNCHANGED <<data, history, touched, crossed, nops>> /\ Waiting' = Waiting
    BY <1>5, ExecuteWaiting DEF Execute
  <2> QED BY <2>1, StacksStay
<1>6. ASSUME NEW e \in inflight, Answer(e) PROVE Stacks'
  BY <1>6, StacksAnswer
<1>7. ASSUME NEW w \in confirmed, ExecuteConfirmed(w) \/ FailConfirmed(w) PROVE Stacks'
  <2>1. UNCHANGED <<data, history, touched, crossed, nops, pending, inflight>>
    BY <1>7 DEF ExecuteConfirmed, FailConfirmed
  <2>2. Waiting' = Waiting
    BY <2>1 DEF Waiting
  <2> QED BY <2>1, <2>2, StacksStay
<1>8. ASSUME NEW w \in confirmed, AnswerConfirmed(w) PROVE Stacks'
  <2>1. /\ history' = HandleLocal(history) /\ UNCHANGED <<crossed, nops, pending, inflight>>
        /\ touched' = touched \cup Changed(data')
    BY <1>8 DEF AnswerConfirmed, ChangeLocally
  <2>2. Waiting' = Waiting
    BY <2>1 DEF Waiting
  <2>3. \A r \in Rows \ touched' : r \notin touched /\ data'.rows[r] = data.rows[r]
    BY <2>1 DEF Changed
  <2> QED BY <2>1, <2>2, <2>3, StacksStay
<1> QED BY <1>1, <1>2, <1>3, <1>4, <1>5, <1>6, <1>7, <1>8, Steps

-----------------------------------------------------------------------------
(* Rows that are in no entry.                                              *)

LEMMA StackedLess ==
  ASSUME NEW h \in Histories, NEW op
  PROVE  /\ StackedIn(HandleLocal(h)) \subseteq StackedIn(h)
         /\ StackedIn(WithoutUndo(h, op)) \subseteq StackedIn(h)
<1>1. h.undo \in Seq(Mods)
  BY OrderlyFacts
<1>2. StackedIn(HandleLocal(h)) \subseteq StackedIn(h)
  <2> DEFINE t == NewestUndo(h.undo)
             d == Len(h.undo) - Len(t)
  <2>1. /\ HandleLocal(h).undo = t /\ HandleLocal(h).redos = <<>>
        /\ Len(t) \in Nat /\ DOMAIN t = 1 .. Len(t) /\ Len(h.undo) \in Nat /\ DOMAIN h.undo = 1 .. Len(h.undo)
        /\ Len(t) <= Len(h.undo) /\ \A j \in 1 .. Len(t) : t[j] = h.undo[j + d]
    BY <1>1, LocalHistory, NewestFacts
  <2> HIDE DEF t
  <2>2. \A j \in 1 .. Len(t) : j + d \in DOMAIN h.undo
    BY <2>1
  <2> HIDE DEF d
  <2> QED BY <2>1, <2>2 DEF StackedIn
<1>3. StackedIn(WithoutUndo(h, op)) \subseteq StackedIn(h)
  <2> DEFINE K == {i \in DOMAIN h.undo : h.undo[i].id # op.id}
             t == Keeping(h.undo, K)
  <2>1. WithoutUndo(h, op).undo = t /\ WithoutUndo(h, op).redos = h.redos /\ K \subseteq DOMAIN h.undo
    BY WithoutTypes
  <2>2. \A j \in DOMAIN t : \E k \in DOMAIN h.undo : t[j] = h.undo[k]
    <3> HIDE DEF K
    <3>1. DOMAIN Keeping(h.undo, K) = 1 .. Len(Keeping(h.undo, K))
      BY <1>1, <2>1, KeepingFacts
    <3>2. PICK f \in [1 .. Len(Keeping(h.undo, K)) -> K] :
            \A j \in 1 .. Len(Keeping(h.undo, K)) : Keeping(h.undo, K)[j] = h.undo[f[j]]
      BY <1>1, <2>1, KeepingFacts
    <3> QED BY <2>1, <3>1, <3>2
  <2> HIDE DEF t
  <2> QED BY <2>1, <2>2 DEF StackedIn
<1> QED BY <1>2, <1>3

LEMMA MovedIn ==
  ASSUME NEW h \in Histories, NEW k,
         \/ h.undo # <<>> /\ k.undo = Front(h.undo) /\ k.redos = Append(h.redos, Last(h.undo))
         \/ h.redos # <<>> /\ k.redos = Front(h.redos) /\ k.undo = Append(h.undo, Last(h.redos))
  PROVE  StackedIn(k) \subseteq StackedIn(h)
<1>1. ASSUME NEW s \in Seq(Mods), s # <<>>, NEW t \in Seq(Mods)
      PROVE  /\ \A i \in DOMAIN Front(s) : \E j \in DOMAIN s : Front(s)[i] = s[j]
             /\ \A i \in DOMAIN Append(t, Last(s)) :
                  \/ \E j \in DOMAIN s : Append(t, Last(s))[i] = s[j]
                  \/ \E j \in DOMAIN t : Append(t, Last(s))[i] = t[j]
  <2>1. \A i \in DOMAIN Front(s) : \E j \in DOMAIN s : Front(s)[i] = s[j]
    <3> DEFINE u == Front(s)
    <3>1. /\ Len(s) \in Nat \ {0} /\ DOMAIN s = 1 .. Len(s) /\ DOMAIN u = 1 .. Len(s) - 1
          /\ \A i \in 1 .. Len(s) - 1 : u[i] = s[i]
      BY <1>1, FrontFacts
    <3> HIDE DEF u
    <3>2. \A i \in DOMAIN u : i \in DOMAIN s /\ u[i] = s[i]
      BY <3>1
    <3> QED BY <3>2 DEF u
  <2>2. Last(s) \in Mods /\ \E j \in DOMAIN s : Last(s) = s[j]
    BY <1>1, FrontFacts
  <2> DEFINE op == Last(s)
  <2> HIDE DEF op
  <2>3. /\ Len(t) \in Nat /\ DOMAIN t = 1 .. Len(t) /\ DOMAIN Append(t, op) = 1 .. Len(t) + 1
        /\ \A i \in 1 .. Len(t) : Append(t, op)[i] = t[i]
        /\ Append(t, op)[Len(t) + 1] = op
    BY <1>1, <2>2, AppendFacts DEF op
  <2>4. \A i \in 1 .. Len(t) + 1 : i = Len(t) + 1 \/ i \in 1 .. Len(t)
    BY <2>3
  <2>5. \A i \in DOMAIN Append(t, op) : \/ \E j \in DOMAIN s : Append(t, op)[i] = s[j]
                                        \/ \E j \in DOMAIN t : Append(t, op)[i] = t[j]
    BY <2>2, <2>3, <2>4 DEF op
  <2> QED BY <2>1, <2>5 DEF op
<1>2. h.undo \in Seq(Mods) /\ h.redos \in Seq(Mods)
  BY OrderlyFacts
<1>3. CASE h.undo # <<>> /\ k.undo = Front(h.undo) /\ k.redos = Append(h.redos, Last(h.undo))
  <2> DEFINE u == Front(h.undo)
             v == Append(h.redos, Last(h.undo))
  <2>1. /\ \A i \in DOMAIN u : u[i] \in StackedIn(h)
        /\ \A i \in DOMAIN v : v[i] \in StackedIn(h)
    BY <1>1, <1>2, <1>3 DEF StackedIn
  <2>2. k.undo = u /\ k.redos = v
    BY <1>3
  <2> HIDE DEF u, v
  <2> QED BY <2>1, <2>2 DEF StackedIn
<1>4. CASE h.redos # <<>> /\ k.redos = Front(h.redos) /\ k.undo = Append(h.undo, Last(h.redos))
  <2> DEFINE u == Front(h.redos)
             v == Append(h.undo, Last(h.redos))
  <2>1. /\ \A i \in DOMAIN u : u[i] \in StackedIn(h)
        /\ \A i \in DOMAIN v : v[i] \in StackedIn(h)
    BY <1>1, <1>2, <1>4 DEF StackedIn
  <2>2. k.redos = u /\ k.undo = v
    BY <1>4
  <2> HIDE DEF u, v
  <2> QED BY <2>1, <2>2 DEF StackedIn
<1> QED BY <1>3, <1>4

LEMMA UnusedStays ==
  ASSUME Unused, mounted' => mounted, Stacked' \subseteq Stacked,
         \A r \in Rows \ touched' :
           r \notin touched /\ (data'.rows[r] = Absent => data.rows[r] = Absent),
         \A f \in inflight' : f.by.kind # "do" =>
           f.by.op \in Stacked \/ \E e \in inflight : f.by = e.by
  PROVE  Unused'
<1> SUFFICES ASSUME mounted, NEW r \in Rows \ touched', data'.rows[r] = Absent
             PROVE  /\ \A o \in Stacked' : r \notin RowsOf(o)
                    /\ \A f \in inflight' : f.by.kind # "do" => r \notin RowsOf(f.by.op)
  BY DEF Unused
<1>1. /\ \A o \in Stacked : r \notin RowsOf(o)
      /\ \A e \in inflight : e.by.kind # "do" => r \notin RowsOf(e.by.op)
  BY DEF Unused
<1> QED BY <1>1

LEMMA UnusedEdit ==
  ASSUME Typed, Queue, Unused, NEW op, NEW by, NEW h, Edits(op, by, h), ApplyOperation(op, by, h)
  PROVE  Unused'
<1>1. /\ op \in Ops /\ by \in Handlers /\ mounted /\ mounted' = mounted
      /\ history \in Histories /\ data \in Tables
  BY DEF Edits, Typed, ApplyOperation, CanEdit
<1>2. \A f \in inflight' : f \in inflight \/ f.by = by
  BY EditWaiting
<1>3. CASE op.type \in AfterServer
  <2>1. by.kind = "do" /\ h = history
    BY <1>3 DEF Edits, AfterServer
  <2>2. history' = history /\ data' = data /\ touched' = touched
    BY <1>3, <2>1 DEF ApplyOperation
  <2> QED BY <1>1, <1>2, <2>1, <2>2, UnusedStays DEF Stacked
<1>4. CASE op.type \notin AfterServer
  <2>1. /\ data' = Applied(data, op) /\ history' = HandleUndoRedos(h, by, op)
        /\ touched' = IF op.type \in Undoable THEN touched ELSE touched \cup Changed(Applied(data, op))
    BY <1>4 DEF ApplyOperation, ChangeBy
  <2>2. ASSUME NEW r \in Rows
        PROVE  data'.rows[r] = IF r \notin RowsOf(op) THEN data.rows[r]
                               ELSE IF op.type = "modify" /\ data.rows[r] = Absent THEN Absent
                               ELSE op.new[r]
    BY <1>1, <2>1, AppliedRows
  <2>3. op.type = "modify" => \A r \in RowsOf(op) : op.new[r] # Absent
    BY <1>1, OpsAre, ModsAre, ValuesAssumption
  <2>4. CASE by.kind = "do" /\ op.type = "modify"
    <3>1. h = history /\ op \in Mods /\ history' = HandleDo(history, "modify", op) /\ touched' = touched
          /\ \A r \in RowsOf(op) : data.rows[r] # Absent
      BY <1>1, <2>1, <2>4, OpsAre DEF Edits, HandleUndoRedos, Undoable
    <3>2. Stacked' \subseteq Stacked \cup {op}
      <4>1. history'.undo = Append(HandleLocal(history).undo, op) /\ history'.redos = <<>>
        BY <1>1, <3>1, LocalHistory DEF HandleDo, Undoable
      <4> DEFINE s == HandleLocal(history).undo
      <4>2. s \in Seq(Mods)
        BY <1>1, LocalHistory, OrderlyFacts
      <4>3. /\ DOMAIN s = 1 .. Len(s) /\ Len(s) \in Nat
            /\ \A i \in DOMAIN Append(s, op) : i = Len(s) + 1 \/ i \in 1 .. Len(s)
            /\ \A i \in 1 .. Len(s) : Append(s, op)[i] = s[i]
            /\ Append(s, op)[Len(s) + 1] = op
        <5> HIDE DEF s
        <5> QED BY <3>1, <4>2, AppendFacts
      <4>4. \A i \in DOMAIN Append(s, op) : Append(s, op)[i] \in StackedIn(HandleLocal(history)) \cup {op}
        <5>1. \A i \in 1 .. Len(s) : s[i] \in StackedIn(HandleLocal(history))
          BY <4>3 DEF StackedIn
        <5> HIDE DEF s
        <5> QED BY <4>3, <5>1
      <4>5. StackedIn(HandleLocal(history)) \subseteq Stacked
        BY <1>1, StackedLess DEF Stacked
      <4> HIDE DEF s
      <4>6. history'.undo = Append(s, op)
        BY <4>1 DEF s
      <4>7. \A o \in StackedIn(history') : o \in StackedIn(HandleLocal(history)) \cup {op}
        <5>1. DOMAIN history'.redos = {}
          BY <4>1
        <5>2. \A o \in StackedIn(history') : \E i \in DOMAIN history'.undo : o = history'.undo[i]
          BY <5>1 DEF StackedIn
        <5> HIDE DEF StackedIn
        <5> QED BY <4>4, <4>6, <5>2
      <4> QED BY <4>5, <4>7 DEF Stacked
    <3>3. ASSUME NEW r \in Rows \ touched', data'.rows[r] = Absent
          PROVE  r \notin touched /\ data.rows[r] = Absent /\ r \notin RowsOf(op)
      BY <2>2, <2>3, <2>4, <3>1, <3>3
    <3>4. ASSUME NEW r \in Rows \ touched', data'.rows[r] = Absent
          PROVE  /\ \A o \in Stacked' : r \notin RowsOf(o)
                 /\ \A f \in inflight' : f.by.kind # "do" => r \notin RowsOf(f.by.op)
      <4>1. /\ \A o \in Stacked : r \notin RowsOf(o)
            /\ \A e \in inflight : e.by.kind # "do" => r \notin RowsOf(e.by.op)
        BY <1>1, <3>3, <3>4 DEF Unused
      <4> QED BY <1>2, <2>4, <3>2, <3>3, <3>4, <4>1
    <3> QED BY <3>4 DEF Unused
  <2>5. CASE by.kind = "do" /\ op.type # "modify"
    <3>1. h = history /\ history' = HandleLocal(history)
          /\ touched' = touched \cup Changed(Applied(data, op))
      BY <2>1, <2>5 DEF Edits, HandleUndoRedos, Undoable, HandleDo, HandleLocal
    <3>2. Stacked' \subseteq Stacked
      BY <1>1, <3>1, StackedLess DEF Stacked
    <3>3. \A r \in Rows \ touched' : r \notin touched /\ data'.rows[r] = data.rows[r]
      BY <2>1, <3>1 DEF Changed
    <3> QED BY <1>1, <1>2, <2>5, <3>2, <3>3, UnusedStays
  <2>6. CASE by.kind # "do"
    <3>1. op.type = "modify" /\ touched' = touched /\ by.op \in Stacked
      <4>1. op.type = "modify" /\ touched' = touched
        BY <2>1, <2>6 DEF Edits, Undoable
      <4>2. (history.undo # <<>> /\ by.op = Last(history.undo)) \/ (history.redos # <<>> /\ by.op = Last(history.redos))
        BY <2>6 DEF Edits
      <4>3. /\ history.undo # <<>> => Last(history.undo) \in Stacked
            /\ history.redos # <<>> => Last(history.redos) \in Stacked
        BY <1>1, OrderlyFacts, FrontFacts DEF Stacked
      <4> QED BY <4>1, <4>2, <4>3
    <3>2. Stacked' \subseteq Stacked
      <4>1. CASE by.kind = "undo"
        <5>1. /\ history.undo # <<>> /\ by.op = Last(history.undo)
              /\ history'.undo = Front(history.undo) /\ history'.redos = Append(history.redos, Last(history.undo))
          BY <1>1, <2>1, <4>1 DEF Edits, HandleUndoRedos, Histories
        <5> QED BY <1>1, <3>1, <5>1, MovedIn DEF Stacked
      <4>2. CASE by.kind = "redo"
        <5>1. /\ history.redos # <<>> /\ by.op = Last(history.redos)
              /\ history'.redos = Front(history.redos) /\ history'.undo = Append(history.undo, Last(history.redos))
          BY <1>1, <2>1, <4>2 DEF Edits, HandleUndoRedos, Histories
        <5> QED BY <1>1, <3>1, <5>1, MovedIn DEF Stacked
      <4> QED BY <1>1, <2>6, <4>1, <4>2 DEF Handlers
    <3>3. \A r \in Rows \ touched' : r \notin touched /\ (data'.rows[r] = Absent => data.rows[r] = Absent)
      BY <2>2, <2>3, <3>1
    <3> QED BY <1>1, <1>2, <3>1, <3>2, <3>3, UnusedStays
  <2> QED BY <2>4, <2>5, <2>6
<1> QED BY <1>3, <1>4

LEMMA UnusedStep ==
  ASSUME Typed, Queue, Unused, [Next]_vars
  PROVE  Unused'
<1>0. history \in Histories /\ data \in Tables
  BY DEF Typed
<1>1. CASE EditStep
  BY <1>1, UnusedEdit DEF EditStep
<1>2. CASE \/ AskReload \/ ServeReload \/ Confirm \/ Dismiss \/ UNCHANGED vars
           \/ \E w \in confirmed : ExecuteConfirmed(w) \/ FailConfirmed(w)
  <2>1. UNCHANGED <<data, history, touched, inflight, mounted>>
    BY <1>2 DEF AskReload, ServeReload, Confirm, Dismiss, vars, ExecuteConfirmed, FailConfirmed
  <2> QED BY <2>1 DEF Unused, Stacked
<1>3. CASE ApplyReload
  <2>1. UNCHANGED <<history, inflight, mounted>> /\ touched' = touched \cup Changed(data')
    BY <1>3 DEF ApplyReload
  <2>2. \A r \in Rows \ touched' : r \notin touched /\ data'.rows[r] = data.rows[r]
    BY <2>1 DEF Changed
  <2>3. Stacked' \subseteq Stacked
    BY <2>1 DEF Stacked
  <2> QED BY <2>1, <2>2, <2>3, UnusedStays
<1>4. CASE Destroy
  BY <1>4 DEF Destroy, Unused
<1>5. ASSUME NEW e \in inflight, Execute(e) PROVE Unused'
  <2>1. UNCHANGED <<data, history, touched, mounted>> /\ \A f \in inflight' : f.by = e.by
    BY <1>5, ExecuteWaiting DEF Execute
  <2>2. Stacked' \subseteq Stacked
    BY <2>1 DEF Stacked
  <2> QED BY <1>5, <2>1, <2>2, UnusedStays
<1>6. ASSUME NEW e \in inflight, Answer(e) PROVE Unused'
  <2>1. /\ e.op \in Ops /\ e.by \in Handlers /\ mounted' = mounted /\ \A f \in inflight' : f.by = e.by
        /\ e.op.type = "modify" => e.op \in Mods
    BY <1>6, AnswerWaiting, AnswerSends, OpsAre DEF Typed, InFlight
  <2>2. CASE AnswerDeferred(e)
    <3>1. /\ history' = HandleUndoRedos(history, e.by, e.op) /\ e.op.type \notin Undoable
          /\ touched' = touched \cup Changed(data')
      BY <1>6, <2>2, SucceededIs DEF AnswerDeferred, ChangeBy, AfterServer, Undoable, Typed
    <3>2. \A r \in Rows \ touched' : r \notin touched /\ data'.rows[r] = data.rows[r]
      BY <3>1 DEF Changed
    <3>3. CASE e.by.kind = "do"
      <4>1. history' = HandleLocal(history)
        BY <3>1, <3>3 DEF HandleUndoRedos, HandleDo, HandleLocal
      <4>2. Stacked' \subseteq Stacked
        BY <1>0, <4>1, StackedLess DEF Stacked
      <4> QED BY <1>6, <2>1, <3>2, <4>2, UnusedStays
    <3>4. CASE e.by.kind # "do"
      <4>1. e.by.kind \in {"undo", "redo"} /\ e.by.op \in Mods
        BY <2>1, <3>4 DEF Handlers
      <4>2. Stacked' \subseteq Stacked \cup {e.by.op}
        <5>1. \/ history'.undo = history.undo /\ history'.redos = Append(history.redos, e.by.op)
              \/ history'.redos = history.redos /\ history'.undo = Append(history.undo, e.by.op)
          BY <1>0, <3>1, <4>1 DEF HandleUndoRedos, Histories
        <5>2. ASSUME NEW s \in Seq(Mods), NEW i \in DOMAIN Append(s, e.by.op)
              PROVE  Append(s, e.by.op)[i] = e.by.op \/ \E j \in DOMAIN s : Append(s, e.by.op)[i] = s[j]
          <6>1. Len(s) \in Nat /\ DOMAIN s = 1 .. Len(s) /\ i \in 1 .. Len(s) + 1
                /\ Append(s, e.by.op)[Len(s) + 1] = e.by.op
                /\ \A j \in 1 .. Len(s) : Append(s, e.by.op)[j] = s[j]
            BY <4>1, <5>2, AppendFacts
          <6>2. i = Len(s) + 1 \/ i \in 1 .. Len(s)
            BY <6>1
          <6> QED BY <6>1, <6>2
        <5>3. history.undo \in Seq(Mods) /\ history.redos \in Seq(Mods)
          BY <1>0, OrderlyFacts
        <5>4. CASE history'.undo = history.undo /\ history'.redos = Append(history.redos, e.by.op)
          <6>1. \A i \in DOMAIN history'.redos : history'.redos[i] \in Stacked \cup {e.by.op}
            BY <5>2, <5>3, <5>4 DEF Stacked, StackedIn
          <6> QED BY <5>4, <6>1 DEF Stacked, StackedIn
        <5>5. CASE history'.redos = history.redos /\ history'.undo = Append(history.undo, e.by.op)
          <6>1. \A i \in DOMAIN history'.undo : history'.undo[i] \in Stacked \cup {e.by.op}
            BY <5>2, <5>3, <5>5 DEF Stacked, StackedIn
          <6> QED BY <5>5, <6>1 DEF Stacked, StackedIn
        <5> QED BY <5>1, <5>4, <5>5
      <4> QED BY <1>6, <2>1, <3>2, <3>4, <4>2 DEF Unused
    <3> QED BY <3>3, <3>4
  <2>3. CASE AnswerEcho(e)
    <3>1. history' = HandleLocal(history) /\ touched' = touched \cup Changed(data')
      BY <2>3 DEF AnswerEcho, ChangeLocally
    <3>2. \A r \in Rows \ touched' : r \notin touched /\ data'.rows[r] = data.rows[r]
      BY <3>1 DEF Changed
    <3>3. Stacked' \subseteq Stacked
      BY <1>0, <3>1, StackedLess DEF Stacked
    <3> QED BY <1>6, <2>1, <3>2, <3>3, UnusedStays
  <2>4. CASE AnswerPlain(e) \/ AnswerError(e) \/ AnswerIgnored(e)
    <3>1. UNCHANGED <<data, history, touched>>
      BY <2>4 DEF AnswerPlain, AnswerError, AnswerIgnored
    <3>2. Stacked' \subseteq Stacked
      BY <3>1 DEF Stacked
    <3> QED BY <1>6, <2>1, <3>1, <3>2, UnusedStays
  <2>5. CASE AnswerRefused(e)
    <3>1. /\ history' = WithoutUndo(HandleLocal(history), e.op) /\ touched \subseteq touched'
          /\ data' = AppliedLocally(data, e.op.old) /\ e.op.type = "modify"
      BY <2>5 DEF AnswerRefused, ChangeLocally
    <3>2. Stacked' \subseteq Stacked
      <4> DEFINE g == HandleLocal(history)
      <4>1. g \in Histories /\ StackedIn(g) \subseteq StackedIn(history)
        BY <1>0, LocalHistory, StackedLess
      <4> HIDE DEF g
      <4>2. StackedIn(WithoutUndo(g, e.op)) \subseteq StackedIn(g)
        BY <4>1, StackedLess
      <4> QED BY <3>1, <4>1, <4>2 DEF Stacked, g
    <3>3. CellsOf(e.op.old)
      BY <2>1, <3>1, ModsAre
    <3>4. \A r \in Rows : data'.rows[r] = Absent <=> data.rows[r] = Absent
      BY <3>1, <3>3, LocalRows
    <3> QED BY <1>6, <2>1, <3>1, <3>2, <3>4, UnusedStays
  <2> QED BY <1>6, <2>2, <2>3, <2>4, <2>5 DEF Answer, AnswerOk
<1>7. ASSUME NEW w \in confirmed, AnswerConfirmed(w) PROVE Unused'
  <2>1. history' = HandleLocal(history) /\ touched' = touched \cup Changed(data')
        /\ UNCHANGED <<inflight, mounted>>
    BY <1>7 DEF AnswerConfirmed, ChangeLocally
  <2>2. \A r \in Rows \ touched' : r \notin touched /\ data'.rows[r] = data.rows[r]
    BY <2>1 DEF Changed
  <2>3. Stacked' \subseteq Stacked
    BY <1>0, <2>1, StackedLess DEF Stacked
  <2> QED BY <2>1, <2>2, <2>3, UnusedStays
<1> QED BY <1>1, <1>2, <1>3, <1>4, <1>5, <1>6, <1>7, Steps

-----------------------------------------------------------------------------
(* Changes past the queue, and reloads.                                    *)

LEMMA RowKept ==
  ASSUME NEW r, NEW v, NEW sv, NEW W, NEW S, NEW M, NEW T, NEW c, RowFine(r, v, sv, W, S, M, T, c),
         NEW S2, NEW M2, NEW T2, NEW c2,
         \A e \in W : e.n \in S <=> e.n \in S2, M = {} <=> M2 = {}, r \in T <=> r \in T2, c => c2
  PROVE  RowFine(r, v, sv, W, S2, M2, T2, c2)
<1>1. Agrees(r, v, sv, W, S2, M, T) /\ (r \notin T /\ ~c => Chained(r, v, sv, W, S2, M))
  BY RowElsewhere DEF RowFine
<1>2. Agrees(r, v, sv, W, S2, M2, T) /\ (Chained(r, v, sv, W, S2, M) => Chained(r, v, sv, W, S2, M2))
  BY <1>1 DEF Agrees, Chained
<1>3. Agrees(r, v, sv, W, S2, M2, T2)
  BY <1>2, RowTouched
<1> QED BY <1>1, <1>2, <1>3 DEF RowFine

\* What waits on a row.
LEMMA OutstandingIs ==
  ASSUME Typed, NEW r
  PROVE  /\ IsOutstanding(r) <=> WaitOn(r) # {}
         /\ \A e \in inflight : ~Later(e, r) => \A y \in WaitOn(r) : y = [op |-> e.op, n |-> e.n]
<1>1. \A y : y \in Waiting <=> \/ \E i \in 1..Len(pending) : y = pending[i]
                               \/ \E e \in inflight : y = [op |-> e.op, n |-> e.n]
  BY WaitingIs DEF Waiting, Typed
<1>2. \A e : e \in Outstanding <=> \/ \E i \in 1..Len(pending) : e = pending[i]
                                   \/ e \in inflight
  BY DEF Outstanding
<1>3. \A e \in inflight : [op |-> e.op, n |-> e.n].op = e.op
  OBVIOUS
<1>4. IsOutstanding(r) <=> WaitOn(r) # {}
  <2>1. ASSUME NEW e \in Outstanding, r \in RowsOf(e.op) PROVE \E y \in Waiting : r \in RowsOf(y.op)
    <3>1. CASE \E i \in 1..Len(pending) : e = pending[i]
      BY <1>1, <2>1, <3>1
    <3>2. CASE e \in inflight
      <4>1. [op |-> e.op, n |-> e.n] \in Waiting
        BY <1>1, <3>2
      <4> QED BY <1>3, <2>1, <3>2, <4>1
    <3> QED BY <1>2, <2>1, <3>1, <3>2
  <2>2. ASSUME NEW y \in Waiting, r \in RowsOf(y.op) PROVE \E e \in Outstanding : r \in RowsOf(e.op)
    <3>1. CASE \E i \in 1..Len(pending) : y = pending[i]
      BY <1>2, <2>2, <3>1
    <3>2. CASE \E e \in inflight : y = [op |-> e.op, n |-> e.n]
      BY <1>2, <2>2, <3>2
    <3> QED BY <1>1, <2>2, <3>1, <3>2
  <2> QED BY <2>1, <2>2 DEF IsOutstanding, WaitOn
<1>5. ASSUME NEW e \in inflight, ~Later(e, r), NEW y \in WaitOn(r)
      PROVE  y = [op |-> e.op, n |-> e.n]
  <2>1. y \in Waiting /\ r \in RowsOf(y.op)
    BY <1>5 DEF WaitOn
  <2>2. \A f \in Outstanding : r \in RowsOf(f.op) => f = e
    BY <1>5 DEF Later
  <2>3. ASSUME NEW i \in 1..Len(pending), y = pending[i] PROVE y = [op |-> e.op, n |-> e.n]
    <3>1. pending[i] \in Entries
      BY <2>3 DEF Typed
    <3>2. pending[i] = e
      BY <1>2, <2>1, <2>2, <2>3
    <3> QED BY <2>3, <3>1, <3>2 DEF Entries
  <2>4. ASSUME NEW f \in inflight, y = [op |-> f.op, n |-> f.n] PROVE y = [op |-> e.op, n |-> e.n]
    <3>1. f = e
      BY <1>2, <2>1, <2>2, <2>4
    <3> QED BY <2>4, <3>1
  <2> QED BY <1>1, <2>1, <2>3, <2>4
<1> QED BY <1>4, <1>5

LEMMA WaitOnEdit ==
  ASSUME Typed, Queue, NEW op, NEW by, NEW h, Edits(op, by, h), ApplyOperation(op, by, h), NEW r
  PROVE  /\ r \notin RowsOf(op) => WaitOn(r)' = WaitOn(r)
         /\ r \in RowsOf(op) => WaitOn(r)' = WaitOn(r) \cup {[op |-> op, n |-> nops + 1]}
<1> DEFINE x == [op |-> op, n |-> nops + 1]
<1>1. Waiting' = Waiting \cup {x} /\ x.op = op
  BY EditWaiting
<1> HIDE DEF x
<1>2. WaitOn(r)' = {e \in Waiting' : r \in RowsOf(e.op)}
  BY DEF WaitOn
<1>3. WaitOn(r)' = IF r \in RowsOf(op) THEN WaitOn(r) \cup {x} ELSE WaitOn(r)
  BY <1>1, <1>2 DEF WaitOn
<1> QED BY <1>3 DEF x

LEMMA WaitOnAnswer ==
  ASSUME Typed, Queue, NEW e \in inflight, Answer(e), NEW r
  PROVE  /\ r \notin RowsOf(e.op) => WaitOn(r)' = WaitOn(r)
         /\ WaitOn(r)' = WaitOn(r) \ {[op |-> e.op, n |-> e.n]}
<1> DEFINE x == [op |-> e.op, n |-> e.n]
<1>1. Waiting' = Waiting \ {x} /\ x.op = e.op
  BY AnswerWaiting
<1> HIDE DEF x
<1>2. WaitOn(r)' = {y \in Waiting' : r \in RowsOf(y.op)}
  BY DEF WaitOn
<1>3. WaitOn(r)' = WaitOn(r) \ {x} /\ (r \notin RowsOf(e.op) => WaitOn(r)' = WaitOn(r))
  BY <1>1, <1>2 DEF WaitOn
<1> QED BY <1>3 DEF x

\* An edit marks the confirmed changes that it overlaps, one by one.
LEMMA CrossedChanges ==
  ASSUME Typed, NEW rs
  PROVE  /\ \A w \in confirmed : /\ Crossing(w, rs).new = w.new /\ Crossing(w, rs).phase = w.phase
                                 /\ Crossing(w, rs).busy = w.busy \cup (rs \cap DOMAIN w.new)
<1> SUFFICES ASSUME NEW w \in confirmed
             PROVE  /\ Crossing(w, rs).new = w.new /\ Crossing(w, rs).phase = w.phase
                    /\ Crossing(w, rs).busy = w.busy \cup (rs \cap DOMAIN w.new)
  OBVIOUS
<1>1. w \in Change
  BY DEF Typed
<1> QED BY <1>1, CrossingTypes

LEMMA ConfirmsEdit ==
  ASSUME Typed, Queue, Confirms, NEW op, NEW by, NEW h, Edits(op, by, h), ApplyOperation(op, by, h)
  PROVE  Confirms'
<1> DEFINE rs == RowsOf(op)
           C == {Crossing(w, rs) : w \in confirmed}
<1>1. confirmed' = C /\ server' = server
  BY DEF ApplyOperation
<1>2. \A w \in confirmed : /\ Crossing(w, rs).new = w.new /\ Crossing(w, rs).phase = w.phase
                           /\ Crossing(w, rs).busy = w.busy \cup (rs \cap DOMAIN w.new)
  BY CrossedChanges
<1>3. ASSUME NEW w \in C, NEW r \in DOMAIN w.new \ w.busy
      PROVE  /\ WaitOn(r)' = {}
             /\ \A v \in C : r \in DOMAIN v.new => v = w
             /\ w.phase = "stored" => server[r] = w.new[r]
  <2>1. PICK w0 \in confirmed : w = Crossing(w0, rs)
    OBVIOUS
  <2> HIDE DEF rs
  <2>2. r \in DOMAIN w0.new \ w0.busy /\ r \notin rs /\ w.phase = w0.phase /\ w.new = w0.new
    BY <1>2, <1>3, <2>1
  <2>3. /\ WaitOn(r) = {}
        /\ \A v \in confirmed : r \in DOMAIN v.new => v = w0
        /\ w0.phase = "stored" => server[r] = w0.new[r]
    BY <2>2 DEF Confirms
  <2>4. WaitOn(r)' = {}
    BY <2>2, <2>3, WaitOnEdit DEF rs
  <2>5. \A v \in C : r \in DOMAIN v.new => v = w
    <3> SUFFICES ASSUME NEW v0 \in confirmed, r \in DOMAIN Crossing(v0, rs).new PROVE Crossing(v0, rs) = w
      BY DEF rs
    <3>1. r \in DOMAIN v0.new
      BY <1>2
    <3> QED BY <2>1, <2>3, <3>1
  <2> QED BY <2>2, <2>3, <2>4, <2>5
<1> HIDE DEF C
<1> QED BY <1>1, <1>3 DEF Confirms

LEMMA ConfirmsStep ==
  ASSUME Typed, Queue, Confirms, [Next]_vars
  PROVE  Confirms'
<1>1. CASE EditStep
  BY <1>1, ConfirmsEdit DEF EditStep
<1>2. CASE AskReload \/ ServeReload \/ ApplyReload \/ Dismiss \/ UNCHANGED vars
  <2>1. UNCHANGED <<confirmed, server, pending, inflight>>
    BY <1>2 DEF AskReload, ServeReload, ApplyReload, Dismiss, vars
  <2>2. \A r : WaitOn(r)' = WaitOn(r)
    BY <2>1 DEF WaitOn, Waiting
  <2> QED BY <2>1, <2>2 DEF Confirms
<1>3. CASE Destroy
  <2>1. UNCHANGED <<confirmed, server>> /\ pending' = <<>> /\ inflight' = inflight
    BY <1>3 DEF Destroy
  <2>2. Waiting' \subseteq Waiting
    BY <2>1 DEF Waiting, WaitingOf
  <2>3. \A r : WaitOn(r)' \subseteq WaitOn(r)
    BY <2>2 DEF WaitOn
  <2> QED BY <2>1, <2>3 DEF Confirms
<1>4. CASE Confirm
  <2> DEFINE rs == DOMAIN dialog.new
             C == {Crossing(w, rs) : w \in confirmed}
             w1 == [new |-> dialog.new, n |-> dialog.n, opened |-> dialog.opened,
                    phase |-> "sent", busy |-> rs \cap BusyRows]
  <2>1. confirmed' = C \cup {w1} /\ UNCHANGED <<server, pending, inflight>> /\ rs \subseteq Rows
    BY <1>4 DEF Confirm, Typed, CellsOf, Updates
  <2>2. \A w \in confirmed : /\ Crossing(w, rs).new = w.new /\ Crossing(w, rs).phase = w.phase
                             /\ Crossing(w, rs).busy = w.busy \cup (rs \cap DOMAIN w.new)
    BY CrossedChanges
  <2>3. \A r : WaitOn(r)' = WaitOn(r)
    BY <2>1 DEF WaitOn, Waiting
  <2>4. DOMAIN w1.new = rs /\ w1.busy = rs \cap BusyRows /\ w1.phase = "sent"
    OBVIOUS
  <2> HIDE DEF rs, w1
  <2>5. ASSUME NEW r \in rs \ BusyRows PROVE WaitOn(r) = {} /\ \A v \in confirmed : r \notin DOMAIN v.new
    BY <2>1, <2>5, OutstandingIs DEF BusyRows, Confirming
  <2>6. ASSUME NEW w \in C \cup {w1}, NEW r \in DOMAIN w.new \ w.busy
        PROVE  /\ WaitOn(r) = {}
               /\ \A v \in C \cup {w1} : r \in DOMAIN v.new => v = w
               /\ w.phase = "stored" => server[r] = w.new[r]
    <3>1. CASE w = w1
      <4>1. r \in rs \ BusyRows
        BY <2>4, <2>6, <3>1
      <4>2. \A v \in C : r \notin DOMAIN v.new
        BY <2>2, <2>5, <4>1
      <4> HIDE DEF C
      <4> QED BY <2>4, <2>5, <3>1, <4>1, <4>2
    <3>2. CASE w # w1
      <4>1. PICK w0 \in confirmed : w = Crossing(w0, rs)
        BY <2>6, <3>2
      <4>2. r \in DOMAIN w0.new \ w0.busy /\ r \notin rs /\ w.phase = w0.phase /\ w.new = w0.new
        BY <2>2, <2>6, <4>1
      <4>3. /\ WaitOn(r) = {}
            /\ \A v \in confirmed : r \in DOMAIN v.new => v = w0
            /\ w0.phase = "stored" => server[r] = w0.new[r]
        BY <4>2 DEF Confirms
      <4>4. \A v \in C : r \in DOMAIN v.new => v = w
        <5> SUFFICES ASSUME NEW v0 \in confirmed, r \in DOMAIN Crossing(v0, rs).new PROVE Crossing(v0, rs) = w
          OBVIOUS
        <5>1. r \in DOMAIN v0.new
          BY <2>2
        <5> QED BY <4>1, <4>3, <5>1
      <4> HIDE DEF C
      <4> QED BY <2>4, <4>2, <4>3, <4>4
    <3> QED BY <3>1, <3>2
  <2> HIDE DEF C
  <2> QED BY <2>1, <2>3, <2>6 DEF Confirms
<1>5. ASSUME NEW e \in inflight, Execute(e) PROVE Confirms'
  <2>1. /\ confirmed' = confirmed /\ Waiting' = Waiting
        /\ server' = [r \in Rows |-> IF r \in RowsOf(e.op) THEN e.op.new[r] ELSE server[r]]
    BY <1>5, ExecuteWaiting DEF Execute
  <2>2. \A r : WaitOn(r)' = WaitOn(r)
    BY <2>1 DEF WaitOn
  <2>3. \A r : r \in RowsOf(e.op) => WaitOn(r) # {}
    <3> DEFINE x == [op |-> e.op, n |-> e.n]
    <3>1. x \in Waiting /\ x.op = e.op
      BY InFlightFirst DEF Oldest
    <3> HIDE DEF x
    <3> QED BY <3>1 DEF WaitOn
  <2>4. \A w \in confirmed : DOMAIN w.new \subseteq Rows
    BY UpdatesAre DEF Typed, CellsOf
  <2>5. ASSUME NEW w \in confirmed, NEW r \in DOMAIN w.new \ w.busy
        PROVE  /\ WaitOn(r)' = {}
               /\ \A v \in confirmed : r \in DOMAIN v.new => v = w
               /\ w.phase = "stored" => server'[r] = w.new[r]
    <3>1. /\ WaitOn(r) = {}
          /\ \A v \in confirmed : r \in DOMAIN v.new => v = w
          /\ w.phase = "stored" => server[r] = w.new[r]
      BY <2>5 DEF Confirms
    <3>2. r \in Rows /\ r \notin RowsOf(e.op)
      BY <2>3, <2>4, <3>1
    <3>3. server'[r] = server[r]
      BY <2>1, <3>2
    <3> QED BY <2>2, <3>1, <3>3
  <2> QED BY <2>1, <2>5 DEF Confirms
<1>6. ASSUME NEW e \in inflight, Answer(e) PROVE Confirms'
  <2>1. UNCHANGED <<confirmed, server>>
    BY <1>6, AnswerSends
  <2>2. \A r : WaitOn(r)' \subseteq WaitOn(r)
    BY <1>6, WaitOnAnswer
  <2> QED BY <2>1, <2>2 DEF Confirms
<1>7. ASSUME NEW w \in confirmed, ExecuteConfirmed(w) PROVE Confirms'
  <2> DEFINE w1 == [w EXCEPT !.phase = "stored"]
  <2>1. /\ confirmed' = (confirmed \ {w}) \cup {w1} /\ UNCHANGED <<pending, inflight>>
        /\ server' = [r \in Rows |-> IF r \in DOMAIN w.new THEN w.new[r] ELSE server[r]]
    BY <1>7 DEF ExecuteConfirmed
  <2>2. w1.new = w.new /\ w1.busy = w.busy /\ w1.phase = "stored"
    BY <1>7 DEF Typed, Change
  <2> HIDE DEF w1
  <2>3. \A r : WaitOn(r)' = WaitOn(r)
    BY <2>1 DEF WaitOn, Waiting
  <2>4. \A v \in confirmed : DOMAIN v.new \subseteq Rows
    BY UpdatesAre DEF Typed, CellsOf
  <2>5. ASSUME NEW v \in confirmed', NEW r \in DOMAIN v.new \ v.busy
        PROVE  /\ WaitOn(r)' = {}
               /\ \A u \in confirmed' : r \in DOMAIN u.new => u = v
               /\ v.phase = "stored" => server'[r] = v.new[r]
    <3>1. CASE v = w1
      <4>1. r \in DOMAIN w.new \ w.busy
        BY <2>2, <2>5, <3>1
      <4>2. WaitOn(r) = {} /\ \A u \in confirmed : r \in DOMAIN u.new => u = w
        BY <1>7, <4>1 DEF Confirms
      <4>3. server'[r] = w.new[r]
        BY <1>7, <2>1, <2>4, <4>1
      <4> QED BY <2>1, <2>2, <2>3, <3>1, <4>2, <4>3
    <3>2. CASE v # w1
      <4>1. v \in confirmed /\ v # w
        BY <2>1, <2>5, <3>2
      <4>2. /\ WaitOn(r) = {} /\ \A u \in confirmed : r \in DOMAIN u.new => u = v
            /\ v.phase = "stored" => server[r] = v.new[r]
        BY <2>5, <4>1 DEF Confirms
      <4>3. r \notin DOMAIN w.new
        BY <1>7, <4>1, <4>2
      <4>4. server'[r] = server[r]
        BY <2>1, <2>4, <2>5, <4>1, <4>3
      <4> QED BY <2>1, <2>2, <2>3, <4>2, <4>3, <4>4
    <3> QED BY <3>1, <3>2
  <2> QED BY <2>5 DEF Confirms
<1>8. ASSUME NEW w \in confirmed, AnswerConfirmed(w) \/ FailConfirmed(w) PROVE Confirms'
  <2>1. UNCHANGED <<server, pending, inflight>> /\ confirmed' \subseteq confirmed
    BY <1>8 DEF AnswerConfirmed, FailConfirmed
  <2>2. \A r : WaitOn(r)' = WaitOn(r)
    BY <2>1 DEF WaitOn, Waiting
  <2> QED BY <2>1, <2>2 DEF Confirms
<1> QED BY <1>1, <1>2, <1>3, <1>4, <1>5, <1>6, <1>7, <1>8, Steps

\* What the table does to a reload in flight.
LEMMA ReloadFacts ==
  ASSUME Typed
  PROVE  /\ \A d : ViewOfReload(d) # None =>
              /\ reload # None /\ ViewOfReload(d).busy = reload.busy
              /\ ViewOfReload(d).phase = reload.phase /\ ViewOfReload(d).rows = reload.rows
         /\ \A re \in Reload \cup {None} : \A rs : Overlap(re, rs) # None =>
              /\ re # None /\ Overlap(re, rs).busy = re.busy \cup rs
              /\ Overlap(re, rs).phase = re.phase /\ Overlap(re, rs).rows = re.rows
<1>1. reload # None => reload \in Reload
  BY DEF Typed
<1>2. ASSUME NEW d, ViewOfReload(d) # None
      PROVE  /\ reload # None /\ ViewOfReload(d).busy = reload.busy
             /\ ViewOfReload(d).phase = reload.phase /\ ViewOfReload(d).rows = reload.rows
  <2>1. reload \in Reload
    BY <1>1, <1>2 DEF ViewOfReload
  <2> QED BY <1>2, <2>1 DEF ViewOfReload, Reload
<1>3. ASSUME NEW re \in Reload \cup {None}, NEW rs, Overlap(re, rs) # None
      PROVE  /\ re # None /\ Overlap(re, rs).busy = re.busy \cup rs
             /\ Overlap(re, rs).phase = re.phase /\ Overlap(re, rs).rows = re.rows
  <2>1. re \in Reload /\ re # None
    BY <1>3 DEF Overlap
  <2> QED BY <2>1 DEF Overlap, Reload
<1> QED BY <1>2, <1>3

\* The reload goes on, and what happens elsewhere does not touch the rows it has for itself.
LEMMA ReloadGoesOn ==
  ASSUME Reloads,
         reload' # None => /\ reload # None /\ reload.busy \subseteq reload'.busy
                           /\ reload'.phase = reload.phase /\ reload'.rows = reload.rows,
         \A r \in Rows : reload' # None /\ r \notin reload'.busy /\ WaitOn(r) = {} /\ ~Confirming(r) =>
           WaitOn(r)' = {} /\ ~Confirming(r)' /\ server'[r] = server[r]
  PROVE  Reloads'
<1> SUFFICES ASSUME reload' # None, NEW r \in Rows \ reload'.busy
             PROVE  /\ WaitOn(r)' = {} /\ ~Confirming(r)'
                    /\ reload'.phase = "read" => reload'.rows[r] = server'[r]
  BY DEF Reloads
<1>1. /\ WaitOn(r) = {} /\ ~Confirming(r)
      /\ reload.phase = "read" => reload.rows[r] = server[r]
  BY DEF Reloads
<1> QED BY <1>1

LEMMA ReloadsStep ==
  ASSUME Typed, Queue, Reloads, [Next]_vars
  PROVE  Reloads'
<1>0. reload \in Reload \cup {None} /\ data \in Tables
  BY DEF Typed
<1>1. ASSUME NEW op, NEW by, NEW h, Edits(op, by, h), ApplyOperation(op, by, h) PROVE Reloads'
  <2> DEFINE rs == RowsOf(op)
  <2>1. /\ reload' = Overlap(reload, rs) \/ reload' = Overlap(ViewOfReload(Applied(data, op)), rs)
        /\ confirmed' = {Crossing(w, rs) : w \in confirmed} /\ server' = server
    BY <1>1 DEF ApplyOperation, ChangeBy
  <2>2. ViewOfReload(Applied(data, op)) \in Reload \cup {None}
    BY <1>0, <1>1, AppliedTypes, ReloadTypes DEF Edits
  <2>3. reload' # None => /\ reload # None /\ reload'.busy = reload.busy \cup rs
                          /\ reload'.phase = reload.phase /\ reload'.rows = reload.rows
    <3>1. CASE reload' = Overlap(reload, rs)
      BY <1>0, <3>1, ReloadFacts
    <3>2. CASE reload' = Overlap(ViewOfReload(Applied(data, op)), rs)
      <4> DEFINE re == ViewOfReload(Applied(data, op))
      <4>1. re # None => /\ reload # None /\ re.busy = reload.busy /\ re.phase = reload.phase
                         /\ re.rows = reload.rows
        BY ReloadFacts
      <4> HIDE DEF re
      <4>2. reload' # None => /\ re # None /\ reload'.busy = re.busy \cup rs
                              /\ reload'.phase = re.phase /\ reload'.rows = re.rows
        BY <2>2, <3>2, ReloadFacts DEF re
      <4> QED BY <4>1, <4>2
    <3> QED BY <2>1, <3>1, <3>2
  <2>4. \A r : ~Confirming(r) => ~Confirming(r)'
    BY <2>1, CrossedChanges DEF Confirming
  <2>5. \A r : r \notin rs => WaitOn(r)' = WaitOn(r)
    BY <1>1, WaitOnEdit
  <2> HIDE DEF rs
  <2> QED BY <2>1, <2>3, <2>4, <2>5, ReloadGoesOn
<1>2. CASE Dismiss \/ Destroy \/ UNCHANGED vars
  <2>1. UNCHANGED <<reload, confirmed, server, inflight>> /\ (pending' = pending \/ pending' = <<>>)
    BY <1>2 DEF Dismiss, Destroy, vars
  <2>2. \A r : WaitOn(r)' \subseteq WaitOn(r)
    BY <2>1 DEF WaitOn, Waiting, WaitingOf
  <2>3. \A r : Confirming(r)' <=> Confirming(r)
    BY <2>1 DEF Confirming
  <2> QED BY <2>1, <2>2, <2>3, ReloadGoesOn
<1>3. CASE AskReload
  <2> DEFINE re == [phase |-> "asked", shared |-> TRUE, grouped |-> data.grouped,
                    rows |-> data.rows, busy |-> BusyRows]
  <2>1. reload' = re /\ UNCHANGED <<pending, inflight, confirmed>>
    BY <1>3 DEF AskReload
  <2>2. re.phase = "asked" /\ re.busy = BusyRows
    OBVIOUS
  <2> HIDE DEF re
  <2>3. \A r \in Rows \ BusyRows : WaitOn(r) = {} /\ ~Confirming(r)
    BY OutstandingIs DEF BusyRows
  <2>4. \A r : WaitOn(r)' = WaitOn(r) /\ (Confirming(r)' <=> Confirming(r))
    BY <2>1 DEF WaitOn, Waiting, Confirming
  <2> QED BY <2>1, <2>2, <2>3, <2>4 DEF Reloads
<1>4. CASE ServeReload
  <2>1. /\ reload # None /\ reload' = [reload EXCEPT !.phase = "read", !.rows = server]
        /\ UNCHANGED <<pending, inflight, confirmed, server>>
    BY <1>4 DEF ServeReload
  <2>2. reload'.busy = reload.busy /\ reload'.rows = server'
    BY <1>0, <2>1 DEF Reload
  <2>3. \A r : WaitOn(r)' = WaitOn(r) /\ (Confirming(r)' <=> Confirming(r))
    BY <2>1 DEF WaitOn, Waiting, Confirming
  <2> QED BY <2>1, <2>2, <2>3 DEF Reloads
<1>5. CASE ApplyReload
  BY <1>5 DEF ApplyReload, Reloads
<1>6. CASE Confirm
  <2> DEFINE rs == DOMAIN dialog.new
             C == {Crossing(w, rs) : w \in confirmed}
             w1 == [new |-> dialog.new, n |-> dialog.n, opened |-> dialog.opened,
                    phase |-> "sent", busy |-> rs \cap BusyRows]
  <2>1. confirmed' = C \cup {w1} /\ UNCHANGED <<server, pending, inflight>> /\ reload' = Overlap(reload, rs)
    BY <1>6 DEF Confirm
  <2>2. DOMAIN w1.new = rs
    OBVIOUS
  <2> HIDE DEF rs, w1
  <2>3. \A r : r \notin rs /\ ~Confirming(r) => ~Confirming(r)'
    BY <2>1, <2>2, CrossedChanges DEF Confirming
  <2>4. \A r : WaitOn(r)' = WaitOn(r)
    BY <2>1 DEF WaitOn, Waiting
  <2>5. reload' # None => /\ reload # None /\ reload'.busy = reload.busy \cup rs
                          /\ reload'.phase = reload.phase /\ reload'.rows = reload.rows
    BY <1>0, <2>1, ReloadFacts
  <2> QED BY <2>1, <2>3, <2>4, <2>5, ReloadGoesOn
<1>7. ASSUME NEW e \in inflight, Execute(e) PROVE Reloads'
  <2>1. /\ UNCHANGED <<confirmed, reload>> /\ Waiting' = Waiting
        /\ server' = [r \in Rows |-> IF r \in RowsOf(e.op) THEN e.op.new[r] ELSE server[r]]
    BY <1>7, ExecuteWaiting DEF Execute
  <2>2. \A r : WaitOn(r)' = WaitOn(r) /\ (Confirming(r)' <=> Confirming(r))
    BY <2>1 DEF WaitOn, Confirming
  <2>3. \A r : r \in RowsOf(e.op) => WaitOn(r) # {}
    <3> DEFINE x == [op |-> e.op, n |-> e.n]
    <3>1. x \in Waiting /\ x.op = e.op
      BY <1>7, InFlightFirst DEF Oldest
    <3> HIDE DEF x
    <3> QED BY <3>1 DEF WaitOn
  <2> QED BY <2>1, <2>2, <2>3, ReloadGoesOn
<1>8. ASSUME NEW e \in inflight, Answer(e) PROVE Reloads'
  <2>1. UNCHANGED <<confirmed, server>>
    BY <1>8, AnswerSends
  <2>2. \A r : WaitOn(r)' \subseteq WaitOn(r)
    BY <1>8, WaitOnAnswer
  <2>3. \A r : Confirming(r)' <=> Confirming(r)
    BY <2>1 DEF Confirming
  <2>4. reload' # None => /\ reload # None /\ reload.busy \subseteq reload'.busy
                          /\ reload'.phase = reload.phase /\ reload'.rows = reload.rows
    <3>1. CASE reload' = reload
      BY <3>1
    <3>2. CASE \E d : reload' = ViewOfReload(d)
      BY <3>2, ReloadFacts
    <3>3. CASE ChangeBy(Succeeded(e))
      <4> DEFINE op == Succeeded(e)
                 re == ViewOfReload(Applied(data, op))
      <4>1. re # None => /\ reload # None /\ re.busy = reload.busy /\ re.phase = reload.phase
                         /\ re.rows = reload.rows
        BY ReloadFacts
      <4>2. re \in Reload \cup {None}
        <5>1. op \in Ops
          BY <1>8, SucceededIs DEF Typed
        <5> QED BY <1>0, <5>1, AppliedTypes, ReloadTypes
      <4>3. reload' = Overlap(re, RowsOf(op))
        BY <3>3 DEF ChangeBy
      <4> HIDE DEF re, op
      <4>4. reload' # None => /\ re # None /\ reload'.busy = re.busy \cup RowsOf(op)
                              /\ reload'.phase = re.phase /\ reload'.rows = re.rows
        BY <4>2, <4>3, ReloadFacts
      <4> QED BY <4>1, <4>4
    <3>4. reload' = reload \/ (\E d : reload' = ViewOfReload(d)) \/ ChangeBy(Succeeded(e))
      BY <1>8 DEF Answer, AnswerOk, AnswerDeferred, AnswerEcho, AnswerPlain, AnswerError,
                  AnswerRefused, AnswerIgnored, ChangeLocally
    <3> QED BY <3>1, <3>2, <3>3, <3>4
  <2> QED BY <2>1, <2>2, <2>3, <2>4, ReloadGoesOn
<1>9. ASSUME NEW w \in confirmed, ExecuteConfirmed(w) PROVE Reloads'
  <2> DEFINE w1 == [w EXCEPT !.phase = "stored"]
  <2>1. /\ confirmed' = (confirmed \ {w}) \cup {w1} /\ UNCHANGED <<pending, inflight, reload>>
        /\ server' = [r \in Rows |-> IF r \in DOMAIN w.new THEN w.new[r] ELSE server[r]]
    BY <1>9 DEF ExecuteConfirmed
  <2>2. w1.new = w.new
    BY <1>9 DEF Typed, Change
  <2> HIDE DEF w1
  <2>3. \A r : WaitOn(r)' = WaitOn(r)
    BY <2>1 DEF WaitOn, Waiting
  <2>4. \A r : ~Confirming(r) => ~Confirming(r)' /\ r \notin DOMAIN w.new
    BY <1>9, <2>1, <2>2 DEF Confirming
  <2> QED BY <2>1, <2>3, <2>4, ReloadGoesOn
<1>10. ASSUME NEW w \in confirmed, AnswerConfirmed(w) \/ FailConfirmed(w) PROVE Reloads'
  <2>1. /\ UNCHANGED <<server, pending, inflight>> /\ confirmed' \subseteq confirmed
        /\ reload' = reload \/ \E d : reload' = ViewOfReload(d)
    BY <1>10 DEF AnswerConfirmed, FailConfirmed, ChangeLocally
  <2>2. \A r : WaitOn(r)' = WaitOn(r) /\ (~Confirming(r) => ~Confirming(r)')
    BY <2>1 DEF WaitOn, Waiting, Confirming
  <2>3. reload' # None => /\ reload # None /\ reload.busy \subseteq reload'.busy
                          /\ reload'.phase = reload.phase /\ reload'.rows = reload.rows
    BY <2>1, ReloadFacts
  <2> QED BY <2>1, <2>2, <2>3, ReloadGoesOn
<1> QED BY <1>1, <1>2, <1>3, <1>4, <1>5, <1>6, <1>7, <1>8, <1>9, <1>10, Steps DEF EditStep

-----------------------------------------------------------------------------
(* Rows that are gone, step by step.                                       *)

\* What is shown does not come back, and nothing new is on its way.
LEMMA GoneKept ==
  ASSUME NEW r, NEW v, NEW sv, NEW W, NEW sent, RowGone(r, v, sv, W, sent),
         NEW v2, NEW sv2, NEW W2, v = Absent => v2 = Absent, sv2 = Absent => sv = Absent, W2 \subseteq W
  PROVE  RowGone(r, v2, sv2, W2, sent)
BY DEF RowGone

\* Nothing but what was just sent is in flight.
LEMMA GoneSent ==
  ASSUME NEW r, NEW v, NEW sv, NEW W, NEW sent, \A y \in W : y.op.type = "delete" => v = Absent,
         \A f \in sent : f.phase = "sent" /\ f.failed = {}, v # Absent => sv # Absent
  PROVE  RowGone(r, v, sv, W, sent)
BY DEF RowGone

LEMMA GoneEdit ==
  ASSUME Typed, Queue, Gone, NEW op, NEW by, NEW h, Edits(op, by, h), ApplyOperation(op, by, h)
  PROVE  Gone'
<1>1. op \in Ops /\ data \in Tables /\ UNCHANGED <<server, mounted, doubt>>
  BY DEF Edits, Typed, ApplyOperation
<1> SUFFICES ASSUME mounted, NEW r \in Rows \ doubt
             PROVE  RowGone(r, data'.rows[r], server[r], WaitOn(r)', inflight')
  BY <1>1 DEF Gone
<1>2. RowGone(r, data.rows[r], server[r], WaitOn(r), inflight)
  BY DEF Gone
<1>3. data' = data \/ (op.type \notin AfterServer /\ data' = Applied(data, op))
  BY DEF ApplyOperation, ChangeBy
<1>4. data.rows[r] = Absent => data'.rows[r] = Absent
  <2>1. CASE data' = data
    BY <2>1
  <2>2. CASE op.type \notin AfterServer /\ data' = Applied(data, op)
    <3>1. op.type \in {"modify", "delete", "groupbys"}
      BY <1>1, <2>2, OpsAre DEF Types, AfterServer
    <3>2. op.type = "delete" => \A q \in RowsOf(op) : op.new[q] = Absent
      BY <1>1 DEF Ops
    <3>3. op.type = "groupbys" => RowsOf(op) = {}
      BY <1>1 DEF Ops
    <3> QED BY <1>1, <2>2, <3>1, <3>2, <3>3, AppliedRows
  <2> QED BY <1>3, <2>1, <2>2
<1>5. op.type = "delete" /\ r \in RowsOf(op) => data'.rows[r] = Absent
  <2> SUFFICES ASSUME op.type = "delete", r \in RowsOf(op) PROVE data'.rows[r] = Absent
    OBVIOUS
  <2>1. data' = Applied(data, op)
    BY DEF ApplyOperation, ChangeBy, AfterServer
  <2>2. op.new[r] = Absent
    BY <1>1 DEF Ops
  <2> QED BY <1>1, <2>1, <2>2, AppliedRows
<1>6. \A y \in WaitOn(r)' : y.op.type = "delete" => data'.rows[r] = Absent
  <2> DEFINE x == [op |-> op, n |-> nops + 1]
  <2>1. x.op = op
    OBVIOUS
  <2>2. WaitOn(r)' = WaitOn(r) \/ (r \in RowsOf(op) /\ WaitOn(r)' = WaitOn(r) \cup {x})
    BY WaitOnEdit
  <2> HIDE DEF x
  <2> QED BY <1>2, <1>4, <1>5, <2>1, <2>2 DEF RowGone
<1>7. CASE inflight' = inflight
  <2>1. RowGone(r, data'.rows[r], server[r], WaitOn(r), inflight)
    BY <1>2, <1>4, GoneKept
  <2> QED BY <1>6, <1>7, <2>1 DEF RowGone
<1>8. CASE inflight = {} /\ \A f \in inflight' : f.phase = "sent" /\ f.failed = {}
  <2>1. data'.rows[r] # Absent => server[r] # Absent
    BY <1>2, <1>4, <1>8 DEF RowGone
  <2> QED BY <1>6, <1>8, <2>1, GoneSent
<1>9. inflight' = inflight \/ (inflight = {} /\ \A f \in inflight' : f.phase = "sent" /\ f.failed = {})
  <2> DEFINE g == [op |-> op, n |-> nops + 1, by |-> by, phase |-> "sent", failed |-> {}]
  <2>1. g.phase = "sent" /\ g.failed = {}
    OBVIOUS
  <2>2. inflight' = inflight \/ (inflight = {} /\ inflight' = {g})
    BY EditQueue
  <2> HIDE DEF g
  <2> QED BY <2>1, <2>2
<1> QED BY <1>7, <1>8, <1>9

LEMMA GoneExecute ==
  ASSUME Typed, Queue, Gone, NEW e \in inflight, Execute(e)
  PROVE  Gone'
<1>1. /\ e \in InFlight /\ e.op \in Ops /\ inflight = {e} /\ e.phase = "sent"
      /\ [op |-> e.op, n |-> e.n] \in Waiting
  BY InFlightFirst DEF Typed, InFlight, Execute, Oldest
<1>2. /\ server' = [q \in Rows |-> IF q \in RowsOf(e.op) THEN e.op.new[q] ELSE server[q]]
      /\ inflight' = {Executed(e)} /\ Waiting' = Waiting /\ UNCHANGED <<data, mounted, doubt>>
  BY <1>1, ExecuteWaiting DEF Execute
<1>3. /\ Executed(e).op = e.op /\ Executed(e).phase = "stored"
      /\ \A q \in Executed(e).failed : q \in RowsOf(e.op) /\ server[q] = Absent
  BY <1>1, ExecutedIs
<1> SUFFICES ASSUME mounted, NEW r \in Rows \ doubt
             PROVE  RowGone(r, data.rows[r], server'[r], WaitOn(r), inflight')
  BY <1>2 DEF Gone, WaitOn
<1>4. RowGone(r, data.rows[r], server[r], WaitOn(r), inflight)
  BY DEF Gone
<1>5. data.rows[r] # Absent => server[r] # Absent
  BY <1>1, <1>4 DEF RowGone
<1>6. r \in RowsOf(e.op) => [op |-> e.op, n |-> e.n] \in WaitOn(r)
  <2> DEFINE x == [op |-> e.op, n |-> e.n]
  <2>1. x \in Waiting /\ x.op = e.op
    BY <1>1
  <2> HIDE DEF x
  <2>2. r \in RowsOf(e.op) => x \in WaitOn(r)
    BY <2>1 DEF WaitOn
  <2> QED BY <2>2 DEF x
<1>7. r \in RowsOf(e.op) /\ e.op.type = "delete" => data.rows[r] = Absent
  <2> DEFINE x == [op |-> e.op, n |-> e.n]
  <2>1. x.op = e.op
    OBVIOUS
  <2> HIDE DEF x
  <2> QED BY <1>4, <1>6, <2>1 DEF RowGone, x
<1>8. r \in RowsOf(e.op) /\ e.op.type \in {"insert", "modify"} => server'[r] # Absent
  BY <1>1, <1>2, ModsAre, OpsAre, ValuesAssumption DEF Ops
<1>9. e.op.type = "groupbys" => r \notin RowsOf(e.op)
  BY <1>1 DEF Ops
<1>10. data.rows[r] # Absent /\ server'[r] = Absent => r \in RowsOf(e.op) /\ e.op.type = "deleteRows"
  <2>1. r \notin RowsOf(e.op) => server'[r] = server[r]
    BY <1>2
  <2>2. e.op.type \in {"modify", "delete", "deleteRows", "insert", "groupbys"}
    BY <1>1, OpsAre DEF Types
  <2> QED BY <1>5, <1>7, <1>8, <1>9, <2>1, <2>2
<1>11. \A y \in WaitOn(r) : y.op.type = "delete" => data.rows[r] = Absent
  BY <1>4 DEF RowGone
<1> QED BY <1>2, <1>3, <1>5, <1>8, <1>10, <1>11 DEF RowGone

LEMMA GoneAnswer ==
  ASSUME Typed, Queue, Table, Gone, NEW e \in inflight, Answer(e)
  PROVE  Gone'
<1>1. /\ e \in InFlight /\ e.op \in Ops /\ inflight = {e} /\ data \in Tables
      /\ (e.op.type = "modify" => e.op \in Mods)
      /\ Succeeded(e) \in Ops /\ Succeeded(e).type = e.op.type
      /\ \A q : q \in RowsOf(Succeeded(e)) <=>
                  q \in RowsOf(e.op) /\ (e.op.type = "deleteRows" => q \notin e.failed)
      /\ \A q \in RowsOf(Succeeded(e)) : Succeeded(e).new[q] = e.op.new[q]
  BY InFlightFirst, OpsAre, SucceededIs DEF Typed, InFlight
<1>2. UNCHANGED <<server, mounted>> /\ \A f \in inflight' : f.phase = "sent" /\ f.failed = {}
  <2> DEFINE g == [op |-> pending[1].op, n |-> pending[1].n, by |-> e.by, phase |-> "sent", failed |-> {}]
  <2>1. g.phase = "sent" /\ g.failed = {}
    OBVIOUS
  <2>2. inflight' \subseteq {g}
    BY AnswerQueue
  <2> HIDE DEF g
  <2> QED BY <2>1, <2>2, AnswerSends
<1>3. doubt \subseteq doubt'
  BY DEF Answer, AnswerOk, AnswerDeferred, AnswerEcho, AnswerPlain, AnswerError, AnswerRefused, AnswerIgnored
<1> SUFFICES ASSUME mounted, NEW r \in Rows \ doubt'
             PROVE  RowGone(r, data'.rows[r], server[r], WaitOn(r)', inflight')
  BY <1>2 DEF Gone
<1>4. /\ RowGone(r, data.rows[r], server[r], WaitOn(r), inflight)
      /\ Agrees(r, data.rows[r], server[r], WaitOn(r), Stored, Mixed(r), touched)
  BY <1>3 DEF Gone, Table, RowFine
<1>5. WaitOn(r)' \subseteq WaitOn(r)
  BY WaitOnAnswer
<1> DEFINE Leaves == data.rows[r] = Absent => data'.rows[r] = Absent
           Ends == ~(e.op.type = "deleteRows" /\ e.phase = "stored" /\ r \in RowsOf(e.op))
\* When the row does not come back and no deletion of it is answered, all is as it was.
<1>6. ASSUME Leaves, Ends PROVE RowGone(r, data'.rows[r], server[r], WaitOn(r)', inflight')
  <2>1. data.rows[r] # Absent => server[r] # Absent
    BY <1>1, <1>4, <1>6 DEF RowGone
  <2>2. \A y \in WaitOn(r)' : y.op.type = "delete" => data'.rows[r] = Absent
    BY <1>4, <1>5, <1>6 DEF RowGone
  <2> QED BY <1>2, <1>6, <2>1, <2>2, GoneSent
<1>7. CASE AnswerOk(e) /\ AnswerDeferred(e)
  <2>1. data' = Applied(data, Succeeded(e)) /\ e.phase = "stored" /\ e.op.type \in {"insert", "deleteRows"}
    BY <1>7 DEF AnswerOk, AnswerDeferred, ChangeBy, AfterServer
  <2>2. CASE r \notin RowsOf(e.op)
    <3>1. data'.rows[r] = data.rows[r]
      BY <1>1, <2>1, <2>2, AppliedRows
    <3> QED BY <1>6, <2>2, <3>1
  <2>3. CASE r \in RowsOf(e.op) /\ e.op.type = "insert"
    <3> DEFINE x == [op |-> e.op, n |-> e.n]
    <3>1. x \in Waiting /\ x.op = e.op /\ WaitOn(r)' = WaitOn(r) \ {x}
      BY InFlightFirst, WaitOnAnswer DEF Oldest
    <3> HIDE DEF x
    <3>2. x \in WaitOn(r)
      BY <2>3, <3>1 DEF WaitOn
    <3>3. WaitOn(r) = {x}
      BY <1>4, <2>3, <3>1, <3>2 DEF Agrees
    <3>4. server[r] # Absent
      BY <1>1, <1>4, <2>1, <2>3 DEF RowGone
    <3> QED BY <1>2, <3>1, <3>3, <3>4, GoneSent
  <2>4. CASE r \in RowsOf(e.op) /\ e.op.type = "deleteRows"
    <3>1. data'.rows[r] = Absent
      <4>1. CASE r \in RowsOf(Succeeded(e))
        <5>1. e.op.new[r] = Absent
          BY <1>1, <2>4 DEF Ops
        <5>2. Succeeded(e).new[r] = Absent
          BY <1>1, <4>1, <5>1
        <5> QED BY <1>1, <2>1, <2>4, <4>1, <5>2, AppliedRows
      <4>2. CASE r \notin RowsOf(Succeeded(e))
        <5>1. data.rows[r] = Absent
          BY <1>1, <1>4, <2>4, <4>2 DEF RowGone
        <5> QED BY <1>1, <2>1, <4>2, <5>1, AppliedRows
      <4> QED BY <4>1, <4>2
    <3> QED BY <1>2, <3>1, GoneSent
  <2> QED BY <2>1, <2>2, <2>3, <2>4
<1>8. CASE AnswerOk(e) /\ AnswerEcho(e)
  <2>1. data' = AppliedLocally(data, e.op.new) /\ e.op.type = "modify"
    BY <1>8 DEF AnswerEcho, ChangeLocally
  <2>2. CellsOf(e.op.new)
    BY <1>1, <2>1, ModsAre
  <2>3. Leaves
    BY <2>1, <2>2, LocalRows
  <2> QED BY <1>6, <2>1, <2>3
<1>9. CASE AnswerRefused(e)
  <2>1. data' = AppliedLocally(data, e.op.old) /\ e.op.type = "modify"
    BY <1>9 DEF AnswerRefused, ChangeLocally
  <2>2. CellsOf(e.op.old)
    BY <1>1, <2>1, ModsAre
  <2>3. Leaves
    BY <2>1, <2>2, LocalRows
  <2> QED BY <1>6, <2>1, <2>3
<1>10. CASE AnswerOk(e) /\ AnswerPlain(e)
  BY <1>6, <1>10 DEF AnswerPlain, AfterServer
<1>11. CASE AnswerError(e)
  <2>1. data' = data /\ (e.op.type = "deleteRows" /\ e.phase = "stored" => r \notin RowsOf(e.op))
    BY <1>11 DEF AnswerError, AfterServer
  <2> QED BY <1>6, <2>1
<1>12. ~AnswerIgnored(e)
  BY DEF AnswerIgnored
<1> QED BY <1>7, <1>8, <1>9, <1>10, <1>11, <1>12 DEF Answer, AnswerOk

LEMMA GoneStep ==
  ASSUME Typed, Queue, Table, Gone, Reloads, [Next]_vars
  PROVE  Gone'
<1>1. CASE EditStep
  BY <1>1, GoneEdit DEF EditStep
<1>2. CASE AskReload \/ ServeReload \/ Confirm \/ Dismiss \/ UNCHANGED vars
  <2>1. UNCHANGED <<data, doubt, mounted, server, pending, inflight>>
    BY <1>2 DEF AskReload, ServeReload, Confirm, Dismiss, vars
  <2> QED BY <2>1 DEF Gone, WaitOn, Waiting
<1>3. CASE ApplyReload
  <2>1. /\ reload # None /\ reload.phase = "read" /\ doubt' = reload.busy
        /\ data'.rows = reload.rows /\ UNCHANGED <<server, pending, inflight>>
    <3> DEFINE d == [data EXCEPT !.rows = reload.rows, !.grouped = reload.grouped]
    <3>1. d.rows = reload.rows /\ Regrouped(d).rows = d.rows
      BY DEF Typed, Tables, Regrouped
    <3>2. data' = Regrouped(d)
      BY <1>3 DEF ApplyReload
    <3> HIDE DEF d
    <3> QED BY <1>3, <3>1, <3>2 DEF ApplyReload
  <2> SUFFICES ASSUME NEW r \in Rows \ reload.busy
               PROVE  RowGone(r, data'.rows[r], server[r], WaitOn(r)', inflight)
    BY <2>1 DEF Gone
  <2>2. WaitOn(r) = {} /\ data'.rows[r] = server[r]
    BY <2>1 DEF Reloads
  <2>3. WaitOn(r)' = {}
    BY <2>1, <2>2 DEF WaitOn, Waiting
  <2>4. ASSUME NEW e \in inflight PROVE r \notin RowsOf(e.op)
    <3> DEFINE x == [op |-> e.op, n |-> e.n]
    <3>1. x \in Waiting /\ x.op = e.op
      BY <2>4, InFlightFirst DEF Oldest
    <3> HIDE DEF x
    <3> QED BY <2>2, <3>1 DEF WaitOn
  <2> QED BY <2>2, <2>3, <2>4 DEF RowGone
<1>4. CASE Destroy
  BY <1>4 DEF Destroy, Gone
<1>5. ASSUME NEW e \in inflight, Execute(e) \/ Answer(e) PROVE Gone'
  BY <1>5, GoneExecute, GoneAnswer
<1>6. ASSUME NEW w \in confirmed, ExecuteConfirmed(w) PROVE Gone'
  <2>1. /\ UNCHANGED <<data, doubt, mounted, pending, inflight>> /\ CellsOf(w.new)
        /\ server' = [r \in Rows |-> IF r \in DOMAIN w.new THEN w.new[r] ELSE server[r]]
    BY <1>6 DEF ExecuteConfirmed, Typed
  <2>2. \A r : WaitOn(r)' = WaitOn(r)
    BY <2>1 DEF WaitOn, Waiting
  <2>3. \A r \in Rows : server'[r] = Absent => server[r] = Absent
    BY <2>1, ValuesAssumption DEF CellsOf
  <2> QED BY <2>1, <2>2, <2>3, GoneKept DEF Gone
<1>7. ASSUME NEW w \in confirmed, AnswerConfirmed(w) \/ FailConfirmed(w) PROVE Gone'
  <2>1. /\ UNCHANGED <<server, mounted, pending, inflight>> /\ doubt \subseteq doubt'
        /\ data' = data \/ data' = AppliedLocally(data, w.new)
    BY <1>7 DEF AnswerConfirmed, FailConfirmed, ChangeLocally
  <2>2. \A r : WaitOn(r)' = WaitOn(r)
    BY <2>1 DEF WaitOn, Waiting
  <2>3. \A r \in Rows : data.rows[r] = Absent => data'.rows[r] = Absent
    <3>1. CellsOf(w.new)
      BY <1>7 DEF Typed
    <3> QED BY <2>1, <3>1, LocalRows
  <2> QED BY <2>1, <2>2, <2>3, GoneKept DEF Gone
<1> QED BY <1>1, <1>2, <1>3, <1>4, <1>5, <1>6, <1>7, Steps

-----------------------------------------------------------------------------
(* The table and the server, step by step.                                 *)

LEMMA TableEdit ==
  ASSUME Typed, Queue, Stacks, Unused, Table, NEW op, NEW by, NEW h,
         Edits(op, by, h), ApplyOperation(op, by, h)
  PROVE  Table'
<1> DEFINE x == [op |-> op, n |-> nops + 1]
<1>1. /\ op \in Ops /\ by \in Handlers /\ mounted
      /\ history \in Histories /\ data \in Tables
      /\ UNCHANGED <<server, doubt, crossed, mounted>>
  BY DEF Edits, Typed, ApplyOperation, CanEdit
<1>2. /\ x \in Entries /\ x.op = op /\ x.n = nops + 1 /\ x.n \notin Stored /\ Stored' = Stored
      /\ Waiting \subseteq Entries /\ \A f \in Waiting : f.n < x.n
  BY EditWaiting
<1>3. \A r : /\ r \notin RowsOf(op) => WaitOn(r)' = WaitOn(r)
             /\ r \in RowsOf(op) => WaitOn(r)' = WaitOn(r) \cup {x}
  BY WaitOnEdit
<1> HIDE DEF x
<1>4. \A r : Mixed(r) = {} <=> Mixed(r)' = {}
  <2>1. confirmed' = {Crossing(w, RowsOf(op)) : w \in confirmed}
    BY DEF ApplyOperation
  <2> QED BY <2>1, CrossedChanges DEF Mixed
<1>5. \/ /\ op.type \in AfterServer /\ by.kind = "do" /\ data' = data /\ touched' = touched
      \/ /\ op.type \notin AfterServer /\ data' = Applied(data, op)
         /\ touched' = IF op.type \in Undoable THEN touched ELSE touched \cup Changed(Applied(data, op))
  BY DEF ApplyOperation, ChangeBy, Edits, AfterServer
<1>6. ASSUME NEW r \in Rows, op.type \notin AfterServer
      PROVE  data'.rows[r] = IF r \notin RowsOf(op) THEN data.rows[r]
                             ELSE IF op.type = "modify" /\ data.rows[r] = Absent THEN Absent
                             ELSE op.new[r]
  BY <1>1, <1>5, <1>6, AppliedRows
<1> SUFFICES ASSUME NEW r \in Rows \ doubt
             PROVE  RowFine(r, data'.rows[r], server[r], WaitOn(r)', Stored, Mixed(r)', touched', crossed)
  BY <1>1, <1>2 DEF Table
<1> DEFINE v == data.rows[r]
           W == WaitOn(r)
           M == Mixed(r)
<1>7. RowFine(r, v, server[r], W, Stored, M, touched, crossed) /\ W \subseteq Entries
      /\ \A f \in W : f.n < x.n
  BY <1>1, <1>2 DEF Table, WaitOn
<1>8. CASE r \notin RowsOf(op)
  <2>1. data'.rows[r] = v /\ (r \in touched <=> r \in touched') /\ WaitOn(r)' = W
    BY <1>3, <1>5, <1>6, <1>8 DEF Changed
  <2> HIDE DEF v, W, M
  <2> QED BY <1>4, <1>7, <2>1, RowKept DEF M
<1>9. CASE r \in RowsOf(op)
  <2>1. WaitOn(r)' = W \cup {x}
    BY <1>3, <1>9
  <2>2. ASSUME NEW v2, NEW T2, RowFine(r, v2, server[r], W \cup {x}, Stored, M, T2, crossed),
               data'.rows[r] = v2, touched' = T2
        PROVE  RowFine(r, data'.rows[r], server[r], WaitOn(r)', Stored, Mixed(r)', touched', crossed)
    <3> HIDE DEF v, W, M
    <3> QED BY <1>4, <2>1, <2>2, RowKept DEF M
  <2>3. CASE op.type = "modify"
    <3>1. /\ op \in Mods /\ op.new[r] # Absent /\ op.old[r] # Absent /\ touched' = touched
          /\ data'.rows[r] = IF v # Absent THEN op.new[r] ELSE v
      <4>1. op \in Mods
        BY <1>1, <2>3, OpsAre
      <4>2. op.new[r] # Absent /\ op.old[r] # Absent
        BY <1>9, <4>1, ModsAre, ValuesAssumption
      <4>3. touched' = touched /\ op.type \notin AfterServer
        BY <1>5, <2>3 DEF Undoable, AfterServer
      <4> QED BY <1>6, <1>9, <2>3, <4>1, <4>2, <4>3
    <3>2. v = Absent => \A f \in W : f.op.type # "insert"
      <4> SUFFICES ASSUME v = Absent, NEW f \in W, f.op.type = "insert" PROVE FALSE
        OBVIOUS
      <4>1. r \notin touched
        BY <1>7 DEF RowFine, Agrees
      <4>2. \A o \in Stacked : r \notin RowsOf(o)
        BY <1>1, <4>1 DEF Unused
      <4>3. by.kind # "do"
        BY <1>9, <2>3 DEF Edits
      <4>4. by.op \in Stacked
        <5>1. (history.undo # <<>> /\ by.op = Last(history.undo)) \/ (history.redos # <<>> /\ by.op = Last(history.redos))
          BY <4>3 DEF Edits
        <5> QED BY <1>1, <5>1, OrderlyFacts, FrontFacts DEF Stacked
      <4>5. r \in RowsOf(by.op)
        BY <1>1, <1>9, <3>1, <4>3, ModsAre DEF Edits, Handlers
      <4> QED BY <4>2, <4>4, <4>5
    <3>3. r \notin touched /\ ~crossed => op.old[r] = v
      <4> SUFFICES ASSUME r \notin touched, ~crossed PROVE op.old[r] = v
        OBVIOUS
      <4>1. Follows(history, r, v)
        BY DEF Stacks
      <4> HIDE DEF v
      <4>2. CASE by.kind = "do"
        BY <1>9, <2>3, <4>2 DEF Edits, v
      <4>3. CASE by.kind = "undo"
        <5>1. history.undo # <<>> /\ op.old = Last(history.undo).new /\ op.new = Last(history.undo).old
              /\ Last(history.undo) = by.op /\ by.op \in Mods
          BY <1>1, <4>3 DEF Edits, Handlers
        <5>2. r \in RowsOf(Last(history.undo))
          BY <1>9, <3>1, <5>1, ModsAre
        <5>3. Last(history.undo).new[r] = v
          BY <1>1, <4>1, <5>1, <5>2, FollowsUndo
        <5> QED BY <5>1, <5>3
      <4>4. CASE by.kind = "redo"
        <5>1. history.redos # <<>> /\ op = Last(history.redos)
          BY <4>4 DEF Edits
        <5>2. Last(history.redos).old[r] = v
          BY <1>1, <1>9, <4>1, <5>1, FollowsRedo
        <5> QED BY <5>1, <5>2
      <4> QED BY <4>2, <4>3, <4>4 DEF Edits
    <3> HIDE DEF v, W, M
    <3>4. Agrees(r, data'.rows[r], server[r], W \cup {x}, Stored, M, touched)
      BY <1>2, <1>7, <2>3, <3>1, <3>2, RowModified DEF RowFine
    <3>5. r \notin touched /\ ~crossed => Chained(r, data'.rows[r], server[r], W \cup {x}, Stored, M)
      <4> SUFFICES ASSUME r \notin touched, ~crossed
                   PROVE  Chained(r, data'.rows[r], server[r], W \cup {x}, Stored, M)
        OBVIOUS
      <4>1. v # Absent /\ op.old[r] = v /\ data'.rows[r] = op.new[r]
        BY <3>1, <3>3
      <4>2. Agrees(r, v, server[r], W, Stored, M, touched) /\ Chained(r, v, server[r], W, Stored, M)
        BY <1>7 DEF RowFine
      <4> QED BY <1>2, <1>7, <2>3, <3>1, <4>1, <4>2, RowModifiedChain
    <3> QED BY <2>2, <3>1, <3>4, <3>5 DEF RowFine
  <2>4. CASE op.type \in {"delete", "deleteRows"}
    <3>1. v # Absent /\ op.new[r] = Absent
      BY <1>1, <1>9, <2>4 DEF Edits, Ops
    <3>2. CASE op.type = "delete"
      <4>1. data'.rows[r] = Absent /\ r \in touched'
        BY <1>5, <1>6, <1>9, <3>1, <3>2 DEF AfterServer, Undoable, Changed
      <4> HIDE DEF v, W, M
      <4>2. Agrees(r, Absent, server[r], W \cup {x}, Stored, M, touched')
        BY <1>2, <1>7, <2>4, <3>1, <3>2, RowDeleted DEF RowFine
      <4> QED BY <2>2, <4>1, <4>2 DEF RowFine
    <3>3. CASE op.type = "deleteRows"
      <4>1. data' = data /\ touched' = touched /\ op.type \in AfterServer
        BY <1>5, <3>3 DEF AfterServer
      <4>2. data'.rows[r] = v
        BY <4>1
      <4> HIDE DEF v, W, M
      <4>3. Agrees(r, v, server[r], W \cup {x}, Stored, M, touched)
        BY <1>2, <1>7, <2>4, <3>1, <3>3, RowDeleted DEF RowFine
      <4>4. Chained(r, v, server[r], W, Stored, M) => Chained(r, v, server[r], W \cup {x}, Stored, M)
        BY <1>2, <4>1, RowDeferredChain
      <4> QED BY <1>7, <2>2, <4>1, <4>2, <4>3, <4>4 DEF RowFine
    <3> QED BY <2>4, <3>2, <3>3
  <2>5. CASE op.type = "insert"
    <3>1. v = Absent /\ server[r] = Absent /\ ~IsOutstanding(r) /\ r \notin touched
      BY <1>9, <2>5 DEF Edits
    <3>2. W = {}
      BY <3>1, OutstandingIs
    <3>3. data' = data /\ touched' = touched /\ op.type \in AfterServer
      BY <1>5, <2>5 DEF AfterServer
    <3>4. data'.rows[r] = v
      BY <3>3
    <3> HIDE DEF v, W, M
    <3>5. Agrees(r, v, server[r], W \cup {x}, Stored, M, touched)
      <4>1. Agrees(r, Absent, Absent, {x}, Stored, M, touched)
        BY <1>2, <2>5, <3>1, RowInserted
      <4> QED BY <3>1, <3>2, <4>1
    <3>6. Chained(r, v, server[r], W, Stored, M) => Chained(r, v, server[r], W \cup {x}, Stored, M)
      BY <1>2, <3>3, RowDeferredChain
    <3> QED BY <1>7, <2>2, <3>3, <3>4, <3>5, <3>6 DEF RowFine
  <2>6. op.type # "groupbys"
    BY <1>1, <1>9 DEF Ops
  <2> QED BY <1>1, <2>3, <2>4, <2>5, <2>6, OpsAre DEF Types
<1> QED BY <1>8, <1>9

LEMMA TableExecute ==
  ASSUME Typed, Queue, Table, NEW e \in inflight, Execute(e)
  PROVE  Table'
<1> DEFINE x == [op |-> e.op, n |-> e.n]
<1>1. /\ UNCHANGED <<data, touched, crossed, doubt, mounted, confirmed>>
      /\ Accepts(e.op)
      /\ server' = [r \in Rows |-> IF r \in RowsOf(e.op) THEN e.op.new[r] ELSE server[r]]
  BY DEF Execute
<1>2. /\ Waiting' = Waiting /\ Stored = {} /\ Stored' = {e.n}
      /\ x \in Entries /\ Oldest(x, Waiting) /\ Waiting \subseteq Entries /\ x.op = e.op /\ x.n = e.n
  BY ExecuteWaiting, InFlightFirst
<1>3. e.op \in Ops
  BY DEF Typed, InFlight
<1> HIDE DEF x
<1> SUFFICES ASSUME mounted, NEW r \in Rows \ doubt
             PROVE  RowFine(r, data.rows[r], server'[r], WaitOn(r), {e.n}, Mixed(r), touched, crossed)
  <2>1. \A r : WaitOn(r)' = WaitOn(r) /\ Mixed(r)' = Mixed(r)
    BY <1>1, <1>2 DEF WaitOn, Mixed
  <2> QED BY <1>1, <1>2, <2>1 DEF Table
<1> DEFINE v == data.rows[r]
           W == WaitOn(r)
           M == Mixed(r)
<1>4. RowFine(r, v, server[r], W, {}, M, touched, crossed) /\ W \subseteq Entries
  BY <1>2 DEF Table, WaitOn
<1>5. CASE r \notin RowsOf(e.op)
  <2>1. server'[r] = server[r]
    BY <1>1, <1>5
  <2>2. \A f \in W : f.n # e.n
    BY <1>2, <1>5 DEF WaitOn, Oldest
  <2> HIDE DEF v, W, M
  <2>3. RowFine(r, v, server[r], W, {e.n}, M, touched, crossed)
    BY <1>4, <2>2, RowKept
  <2> QED BY <2>1, <2>3 DEF v, W, M
<1>6. CASE r \in RowsOf(e.op)
  <2>1. server'[r] = x.op.new[r]
    BY <1>1, <1>2, <1>6
  <2>2. Oldest(x, W)
    BY <1>2, <1>6 DEF Oldest, WaitOn
  <2>3. x.op.type = "modify" => server[r] # Absent /\ x.op.new[r] # Absent
    <3>1. e.op.type = "modify" => e.op \in Mods
      BY <1>3, OpsAre
    <3>2. e.op.type = "modify" => e.op.new[r] # Absent
      BY <1>6, <3>1, ModsAre, ValuesAssumption
    <3> QED BY <1>1, <1>2, <1>6, <3>2 DEF Accepts, OnServer
  <2>4. x.op.type \in {"delete", "deleteRows"} => x.op.new[r] = Absent
    BY <1>2, <1>3, <1>6 DEF Ops
  <2>5. x.op.type # "groupbys"
    BY <1>2, <1>3, <1>6 DEF Ops
  <2> HIDE DEF v, W, M
  <2>6. Agrees(r, v, server[r], W, {}, M, touched)
    BY <1>4 DEF RowFine
  <2>7. /\ Agrees(r, v, x.op.new[r], W, {x.n}, M, touched)
        /\ Chained(r, v, server[r], W, {}, M) => Chained(r, v, x.op.new[r], W, {x.n}, M)
    BY <1>4, <2>2, <2>3, <2>4, <2>5, <2>6, RowStored
  <2>8. RowFine(r, v, server'[r], W, {e.n}, M, touched, crossed)
    BY <1>2, <1>4, <2>1, <2>7 DEF RowFine
  <2> QED BY <2>8 DEF v, W, M
<1> QED BY <1>5, <1>6

LEMMA TableAnswer ==
  ASSUME Typed, Queue, Table, Gone, NEW e \in inflight, Answer(e)
  PROVE  Table'
<1> DEFINE x == [op |-> e.op, n |-> e.n]
<1>1. /\ e.op \in Ops /\ data \in Tables /\ RowsOf(e.op) \subseteq Rows
      /\ (e.op.type = "modify" => e.op \in Mods)
      /\ Succeeded(e) \in Ops /\ Succeeded(e).type = e.op.type
      /\ \A r : r \in RowsOf(Succeeded(e)) <=>
                  r \in RowsOf(e.op) /\ (e.op.type = "deleteRows" => r \notin e.failed)
      /\ \A r \in RowsOf(Succeeded(e)) : Succeeded(e).new[r] = e.op.new[r]
  BY OpsAre, SucceededIs DEF Typed, InFlight
<1>2. /\ UNCHANGED <<server, confirmed, mounted>> /\ Stored' = {}
      /\ x \in Entries /\ Oldest(x, Waiting) /\ Waiting \subseteq Entries /\ x.op = e.op /\ x.n = e.n
      /\ Stored = IF e.phase = "stored" THEN {x.n} ELSE {}
  BY AnswerSends, AnswerWaiting, InFlightFirst
<1>3. \A r : /\ r \notin RowsOf(e.op) => WaitOn(r)' = WaitOn(r)
             /\ WaitOn(r)' = WaitOn(r) \ {x}
             /\ ~Later(e, r) => \A y \in WaitOn(r) : y = x
  BY WaitOnAnswer, OutstandingIs
<1> HIDE DEF x
<1>4. \A r : Mixed(r)' = Mixed(r)
  BY <1>2 DEF Mixed
<1>5. doubt \subseteq doubt' /\ (crossed => crossed')
  <2>1. doubt \subseteq doubt'
    BY DEF Answer, AnswerOk, AnswerDeferred, AnswerEcho, AnswerPlain, AnswerError, AnswerRefused, AnswerIgnored
  <2>2. crossed => crossed'
    BY Zenon DEF Answer, AnswerOk, AnswerDeferred, AnswerEcho, AnswerPlain, AnswerError, AnswerRefused, AnswerIgnored
  <2> QED BY <2>1, <2>2
<1> SUFFICES ASSUME mounted, NEW r \in Rows \ doubt'
             PROVE  RowFine(r, data'.rows[r], server[r], WaitOn(r) \ {x}, {}, Mixed(r), touched', crossed')
  BY <1>2, <1>3, <1>4 DEF Table
<1> DEFINE v == data.rows[r]
           W == WaitOn(r)
           M == Mixed(r)
<1>6. RowFine(r, v, server[r], W, Stored, M, touched, crossed) /\ W \subseteq Entries
  BY <1>2, <1>5 DEF Table, WaitOn
<1>7. CASE r \notin RowsOf(e.op)
  <2>1. data'.rows[r] = v /\ (r \in touched <=> r \in touched')
    <3>1. CASE AnswerDeferred(e)
      <4>1. /\ data' = Applied(data, Succeeded(e)) /\ touched' = touched \cup Changed(data')
        BY <1>1, <3>1 DEF AnswerDeferred, ChangeBy, AfterServer, Undoable
      <4>2. r \notin RowsOf(Succeeded(e))
        BY <1>1, <1>7
      <4>3. Applied(data, Succeeded(e)).rows[r] = v
        BY <1>1, <4>2, AppliedRows
      <4> QED BY <4>1, <4>3 DEF Changed
    <3>2. CASE AnswerEcho(e)
      <4>1. /\ data' = AppliedLocally(data, e.op.new) /\ e.op.type = "modify"
            /\ touched' = touched \cup Changed(AppliedLocally(data, e.op.new))
        BY <3>2 DEF AnswerEcho, ChangeLocally
      <4>2. CellsOf(e.op.new) /\ r \notin DOMAIN e.op.new
        BY <1>1, <1>7, <4>1, ModsAre
      <4>3. AppliedLocally(data, e.op.new).rows[r] = v
        BY <4>2, LocalRows
      <4> QED BY <4>1, <4>3 DEF Changed
    <3>3. CASE AnswerPlain(e) \/ AnswerError(e) \/ AnswerIgnored(e)
      BY <3>3 DEF AnswerPlain, AnswerError, AnswerIgnored
    <3>4. CASE AnswerRefused(e)
      <4>1. /\ data' = AppliedLocally(data, e.op.old) /\ e.op.type = "modify"
            /\ r \in touched <=> r \in touched'
        BY <1>7, <3>4 DEF AnswerRefused, ChangeLocally
      <4>2. CellsOf(e.op.old) /\ r \notin DOMAIN e.op.old
        BY <1>1, <1>7, <4>1, ModsAre
      <4> QED BY <4>1, <4>2, LocalRows
    <3> QED BY <3>1, <3>2, <3>3, <3>4 DEF Answer, AnswerOk
  <2>2. WaitOn(r) \ {x} = W
    BY <1>3, <1>7
  <2>3. \A f \in W : f.n \notin Stored
    BY <1>2, <1>7 DEF WaitOn, Oldest
  <2> HIDE DEF v, W, M
  <2>4. RowFine(r, v, server[r], W, {}, M, touched', crossed')
    BY <1>5, <1>6, <2>1, <2>3, RowKept
  <2> QED BY <2>1, <2>2, <2>4 DEF W, M
<1>8. CASE r \in RowsOf(e.op)
  <2>1. Oldest(x, W) /\ x \in W
    BY <1>2, <1>8 DEF Oldest, WaitOn
  <2>2. /\ Agrees(r, v, server[r], W, Stored, M, touched)
        /\ r \notin touched /\ ~crossed => Chained(r, v, server[r], W, Stored, M)
    BY <1>6 DEF RowFine
  <2>3. x.op.type = "delete" => x.op.new[r] = Absent
    BY <1>1, <1>2, <1>8 DEF Ops
  <2>4. x.op.type # "groupbys" /\ (x.op.type = "modify" => x.op.new[r] # Absent /\ x.op.old[r] # Absent)
    BY <1>1, <1>2, <1>8, ModsAre, ValuesAssumption DEF Ops
  \* Nothing changes in the table when a change that it shows is stored and answered.
  <2>5. ASSUME e.phase = "stored", x.op.type \notin AfterServer,
               data'.rows[r] = v, r \in touched <=> r \in touched'
        PROVE  RowFine(r, data'.rows[r], server[r], WaitOn(r) \ {x}, {}, Mixed(r), touched', crossed')
    <3>1. x.op.type \in {"modify", "delete"}
      BY <1>1, <1>2, <2>4, <2>5, OpsAre DEF Types, AfterServer
    <3> HIDE DEF v, W, M
    <3>2. /\ Agrees(r, v, server[r], W \ {x}, {}, M, touched)
          /\ Chained(r, v, server[r], W, Stored, M) => Chained(r, v, server[r], W \ {x}, {}, M)
      BY <1>2, <1>6, <2>1, <2>2, <2>3, <2>5, <3>1, RowAnswered
    <3>3. RowFine(r, v, server[r], W \ {x}, {}, M, touched, crossed)
      BY <2>2, <3>2 DEF RowFine
    <3>4. RowFine(r, v, server[r], W \ {x}, {}, M, touched', crossed')
      BY <1>5, <2>5, <3>3, RowKept
    <3> QED BY <2>5, <3>4 DEF W, M
  <2>6. CASE AnswerOk(e) /\ AnswerDeferred(e)
    <3>1. /\ data' = Applied(data, Succeeded(e)) /\ e.op.type \in AfterServer /\ e.phase = "stored"
          /\ touched' = touched \cup Changed(data') /\ doubt' = doubt
      BY <1>1, <2>6 DEF AnswerOk, AnswerDeferred, ChangeBy, AfterServer, Undoable
    <3>2. data'.rows[r] = x.op.new[r]
      <4>1. CASE r \in RowsOf(Succeeded(e))
        BY <1>1, <1>2, <1>8, <3>1, <4>1, AppliedRows DEF AfterServer
      \* A row that was gone when the server was to delete it is gone in the table too.
      <4>2. CASE r \notin RowsOf(Succeeded(e))
        <5>1. e.op.type = "deleteRows" /\ r \in e.failed
          BY <1>1, <1>8, <4>2
        <5>2. data.rows[r] = Absent
          BY <1>8, <3>1, <5>1 DEF Gone, RowGone
        <5>3. e.op.new[r] = Absent
          BY <1>1, <1>8, <5>1 DEF Ops
        <5> QED BY <1>1, <1>2, <3>1, <4>2, <5>2, <5>3, AppliedRows
      <4> QED BY <4>1, <4>2
    <3>3. x.op.type = "deleteRows" <=> x.op.new[r] = Absent
      BY <1>1, <1>2, <1>8, <3>1, ValuesAssumption DEF Ops, AfterServer
    <3>4. r \notin touched' => r \notin touched /\ x.op.new[r] = v
      BY <3>1, <3>2 DEF Changed
    <3> HIDE DEF v, W, M
    <3>5. /\ Agrees(r, x.op.new[r], server[r], W \ {x}, {}, M, touched')
          /\ x.op.new[r] = v /\ Chained(r, v, server[r], W, {x.n}, M)
               => Chained(r, v, server[r], W \ {x}, {}, M)
      BY <1>2, <1>6, <2>1, <2>2, <3>1, <3>3, RowDone
    <3>6. RowFine(r, x.op.new[r], server[r], W \ {x}, {}, M, touched', crossed')
      BY <1>2, <1>5, <2>2, <3>1, <3>4, <3>5 DEF RowFine
    <3> QED BY <3>2, <3>6 DEF W, M
  <2>7. CASE AnswerOk(e) /\ AnswerEcho(e)
    <3>1. /\ data' = AppliedLocally(data, e.op.new) /\ e.op.type = "modify" /\ e.phase = "stored"
          /\ touched' = touched \cup Changed(AppliedLocally(data, e.op.new))
          /\ ~Later(e, r)
      BY <1>8, <2>7 DEF AnswerOk, AnswerEcho, ChangeLocally
    <3>2. W = {x}
      BY <1>3, <2>1, <3>1
    <3>3. v # Absent => v = x.op.new[r]
      <4>1. Shown(W) = {x}
        BY <1>2, <3>1, <3>2 DEF Shown, AfterServer
      <4>2. x \in LastOf(Shown(W))
        BY <1>2, <4>1, EntriesAre DEF LastOf
      <4> HIDE DEF v, W, M
      <4> QED BY <2>2, <4>2 DEF Agrees
    <3>4. data'.rows[r] = v
      <4>1. CellsOf(e.op.new) /\ r \in DOMAIN e.op.new
        BY <1>1, <1>8, <3>1, ModsAre
      <4> QED BY <1>2, <3>1, <3>3, <4>1, LocalRows
    <3>5. r \in touched <=> r \in touched'
      BY <3>1, <3>4 DEF Changed
    <3> QED BY <1>2, <2>5, <3>1, <3>4, <3>5 DEF AfterServer
  <2>8. CASE AnswerOk(e) /\ AnswerPlain(e)
    <3>1. e.phase = "stored" /\ e.op.type \notin AfterServer /\ UNCHANGED <<data, touched>>
      BY <2>8 DEF AnswerOk, AnswerPlain
    <3> QED BY <1>2, <2>5, <3>1
  <2>9. CASE AnswerError(e)
    <3>1. ~((e.op.type \in AfterServer) = (e.phase = "stored")) /\ UNCHANGED <<data, touched, crossed>>
      BY <1>8, <2>9 DEF AnswerError
    <3>2. CASE e.phase = "stored" /\ e.op.type \notin AfterServer
      BY <1>2, <2>5, <3>1, <3>2
    <3>3. CASE e.phase # "stored" /\ e.op.type \in AfterServer
      <4>1. data'.rows[r] = v /\ touched' = touched /\ crossed' = crossed /\ Stored = {}
        BY <1>2, <3>1, <3>3
      <4> HIDE DEF v, W, M
      <4>2. /\ Agrees(r, v, server[r], W \ {x}, {}, M, touched)
            /\ Chained(r, v, server[r], W, {}, M) => Chained(r, v, server[r], W \ {x}, {}, M)
        BY <1>2, <2>1, <2>2, <3>3, <4>1, RowDropped
      <4>3. RowFine(r, v, server[r], W \ {x}, {}, M, touched, crossed)
        BY <2>2, <4>1, <4>2 DEF RowFine
      <4> QED BY <4>1, <4>3 DEF W, M
    <3> QED BY <3>1, <3>2, <3>3
  <2>10. CASE AnswerRefused(e)
    <3>1. /\ e.op.type = "modify" /\ e.phase = "sent" /\ data' = AppliedLocally(data, e.op.old)
          /\ ~Later(e, r) /\ r \notin touched /\ ~crossed
      BY <1>8, <2>10 DEF AnswerRefused, ChangeLocally
    <3>2. W = {x} /\ Stored = {}
      BY <1>2, <1>3, <2>1, <3>1
    <3>3. Chained(r, v, server[r], {x}, {}, M)
      BY <2>2, <3>1, <3>2
    <3> HIDE DEF M
    <3>4. v # Absent
      BY <1>2, <2>4, <3>1, <3>3, RowRefused
    <3>5. data'.rows[r] = x.op.old[r]
      <4>1. CellsOf(e.op.old) /\ r \in DOMAIN e.op.old
        BY <1>1, <1>8, <3>1, ModsAre
      <4> QED BY <1>2, <3>1, <3>4, <4>1, LocalRows
    <3>6. /\ Agrees(r, x.op.old[r], server[r], {}, {}, M, touched')
          /\ Chained(r, x.op.old[r], server[r], {}, {}, M)
      BY <1>2, <2>4, <3>1, <3>3, RowRefused
    <3>7. WaitOn(r) \ {x} = {}
      BY <3>2
    <3> QED BY <3>5, <3>6, <3>7 DEF RowFine, M
  <2>11. ~AnswerIgnored(e)
    BY DEF AnswerIgnored
  <2> QED BY <2>6, <2>7, <2>8, <2>9, <2>10, <2>11 DEF Answer, AnswerOk
<1> QED BY <1>7, <1>8

LEMMA TableStep ==
  ASSUME Typed, Queue, Stacks, Unused, Table, Gone, Confirms, Reloads, [Next]_vars
  PROVE  Table'
<1>0. data \in Tables
  BY DEF Typed
<1>1. CASE EditStep
  BY <1>1, TableEdit DEF EditStep
<1>2. CASE AskReload \/ ServeReload \/ Dismiss \/ UNCHANGED vars
  <2>1. UNCHANGED <<data, touched, crossed, doubt, mounted, confirmed, server, pending, inflight>>
    BY <1>2 DEF AskReload, ServeReload, Dismiss, vars
  <2>2. \A r : WaitOn(r)' = WaitOn(r) /\ Mixed(r)' = Mixed(r)
    BY <2>1 DEF WaitOn, Waiting, Mixed
  <2>3. Stored' = Stored
    BY <2>1 DEF Stored
  <2> QED BY <2>1, <2>2, <2>3 DEF Table
<1>3. CASE ApplyReload
  <2>1. /\ reload # None /\ reload.phase = "read" /\ doubt' = reload.busy
        /\ data'.rows = reload.rows /\ server' = server /\ UNCHANGED <<pending, inflight, confirmed>>
    <3> DEFINE d == [data EXCEPT !.rows = reload.rows, !.grouped = reload.grouped]
    <3>1. d.rows = reload.rows
      BY <1>0 DEF Tables
    <3>2. Regrouped(d).rows = d.rows
      BY <1>0 DEF Tables, Regrouped
    <3>3. data' = Regrouped(d)
      BY <1>3 DEF ApplyReload
    <3> HIDE DEF d
    <3> QED BY <1>3, <3>1, <3>2, <3>3 DEF ApplyReload
  <2>2. ASSUME NEW r \in Rows \ doubt'
        PROVE  RowFine(r, data'.rows[r], server'[r], WaitOn(r)', Stored', Mixed(r)', touched', crossed')
    <3>1. WaitOn(r) = {} /\ reload.rows[r] = server[r]
      BY <2>1 DEF Reloads
    <3>2. WaitOn(r)' = {}
      BY <2>1, <3>1 DEF WaitOn, Waiting
    <3>3. data'.rows[r] = server[r] /\ server'[r] = server[r]
      BY <2>1, <3>1
    <3> QED BY <3>2, <3>3, RowAlone DEF RowFine
  <2> QED BY <2>2 DEF Table
<1>4. CASE Destroy
  BY <1>4 DEF Destroy, Table
<1>5. CASE Confirm
  <2> DEFINE rs == DOMAIN dialog.new
             w1 == [new |-> dialog.new, n |-> dialog.n, opened |-> dialog.opened,
                    phase |-> "sent", busy |-> rs \cap BusyRows]
  <2>1. /\ UNCHANGED <<data, touched, crossed, doubt, mounted, server, pending, inflight>>
        /\ confirmed' = {Crossing(w, rs) : w \in confirmed} \cup {w1}
    BY <1>5 DEF Confirm
  <2>2. w1.phase = "sent"
    OBVIOUS
  <2> HIDE DEF rs, w1
  <2>3. \A r : WaitOn(r)' = WaitOn(r) /\ (Mixed(r) = {} <=> Mixed(r)' = {})
    <3>1. \A r : WaitOn(r)' = WaitOn(r)
      BY <2>1 DEF WaitOn, Waiting
    <3>2. \A r : Mixed(r) = {} <=> Mixed(r)' = {}
      BY <2>1, <2>2, CrossedChanges DEF Mixed
    <3> QED BY <3>1, <3>2
  <2>4. Stored' = Stored
    BY <2>1 DEF Stored
  <2> SUFFICES ASSUME mounted, NEW r \in Rows \ doubt
               PROVE  RowFine(r, data.rows[r], server[r], WaitOn(r), Stored, Mixed(r)', touched, crossed)
    BY <2>1, <2>3, <2>4 DEF Table
  <2>5. RowFine(r, data.rows[r], server[r], WaitOn(r), Stored, Mixed(r), touched, crossed)
    BY DEF Table
  <2> QED BY <2>3, <2>5, RowKept
<1>6. ASSUME NEW e \in inflight, Execute(e) \/ Answer(e) PROVE Table'
  BY <1>6, TableExecute, TableAnswer
<1>7. ASSUME NEW w \in confirmed, ExecuteConfirmed(w) PROVE Table'
  <2> DEFINE w1 == [w EXCEPT !.phase = "stored"]
  <2>1. /\ confirmed' = (confirmed \ {w}) \cup {w1} /\ OnServer(DOMAIN w.new) /\ w.phase = "sent"
        /\ UNCHANGED <<data, touched, crossed, doubt, mounted, pending, inflight>>
        /\ server' = [r \in Rows |-> IF r \in DOMAIN w.new THEN w.new[r] ELSE server[r]]
    BY <1>7 DEF ExecuteConfirmed
  <2>2. w1.new = w.new /\ w1.phase = "stored"
    BY <1>7 DEF Typed, Change
  <2> HIDE DEF w1
  <2>3. \A r : WaitOn(r)' = WaitOn(r)
    BY <2>1 DEF WaitOn, Waiting
  <2>4. Stored' = Stored
    BY <2>1 DEF Stored
  <2> SUFFICES ASSUME mounted, NEW r \in Rows \ doubt
               PROVE  RowFine(r, data.rows[r], server'[r], WaitOn(r), Stored, Mixed(r)', touched, crossed)
    BY <2>1, <2>3, <2>4 DEF Table
  <2>5. RowFine(r, data.rows[r], server[r], WaitOn(r), Stored, Mixed(r), touched, crossed)
    BY DEF Table
  <2>6. CASE r \in DOMAIN w.new
    <3>1. server[r] # Absent /\ Mixed(r)' # {}
      BY <2>1, <2>2, <2>6 DEF OnServer, Mixed
    <3> QED BY <2>5, <3>1, RowConfirmed DEF RowFine
  <2>7. CASE r \notin DOMAIN w.new
    <3>1. server'[r] = server[r] /\ (Mixed(r) = {} <=> Mixed(r)' = {})
      BY <2>1, <2>2, <2>7 DEF Mixed
    <3> QED BY <2>5, <3>1, RowKept
  <2> QED BY <2>6, <2>7
<1>8. ASSUME NEW w \in confirmed, AnswerConfirmed(w) PROVE Table'
  <2>1. /\ data' = AppliedLocally(data, w.new) /\ touched' = touched \cup Changed(AppliedLocally(data, w.new))
        /\ doubt' = doubt \cup w.busy /\ confirmed' = confirmed \ {w} /\ mounted /\ mounted' = mounted
        /\ UNCHANGED <<pending, inflight, server, crossed>> /\ w.phase = "stored"
    BY <1>8 DEF AnswerConfirmed, ChangeLocally
  <2>2. CellsOf(w.new)
    BY <1>8 DEF Typed
  <2>3. \A r : WaitOn(r)' = WaitOn(r)
    BY <2>1 DEF WaitOn, Waiting
  <2>4. Stored' = Stored
    BY <2>1 DEF Stored
  <2> SUFFICES ASSUME NEW r \in Rows \ doubt'
               PROVE  RowFine(r, data'.rows[r], server[r], WaitOn(r), Stored, Mixed(r)', touched', crossed)
    BY <2>1, <2>3, <2>4 DEF Table
  <2>5. RowFine(r, data.rows[r], server[r], WaitOn(r), Stored, Mixed(r), touched, crossed)
    BY <2>1 DEF Table
  <2>6. CASE r \in DOMAIN w.new
    <3>1. WaitOn(r) = {} /\ server[r] = w.new[r]
      BY <1>8, <2>1, <2>6 DEF Confirms
    <3>2. w.new[r] # Absent
      BY <2>2, <2>6, ValuesAssumption DEF CellsOf
    <3>3. data.rows[r] # Absent
      BY <2>5, <3>1, <3>2 DEF RowFine, Agrees
    <3>4. data'.rows[r] = server[r]
      BY <2>1, <2>2, <2>6, <3>1, <3>3, LocalRows
    <3> QED BY <3>1, <3>4, RowAlone DEF RowFine
  <2>7. CASE r \notin DOMAIN w.new
    <3>1. AppliedLocally(data, w.new).rows[r] = data.rows[r]
      BY <2>2, <2>7, LocalRows
    <3>2. data'.rows[r] = data.rows[r] /\ (r \in touched <=> r \in touched')
      BY <2>1, <3>1 DEF Changed
    <3>3. Mixed(r) = {} <=> Mixed(r)' = {}
      BY <2>1, <2>7 DEF Mixed
    <3> QED BY <2>5, <3>2, <3>3, RowKept
  <2> QED BY <2>6, <2>7
<1>9. ASSUME NEW w \in confirmed, FailConfirmed(w) PROVE Table'
  <2>1. /\ confirmed' = confirmed \ {w} /\ UNCHANGED <<data, touched, crossed, mounted, server, pending, inflight>>
        /\ doubt' = IF w.phase = "stored" THEN doubt \cup DOMAIN w.new ELSE doubt
    BY <1>9 DEF FailConfirmed
  <2>2. \A r : WaitOn(r)' = WaitOn(r)
    BY <2>1 DEF WaitOn, Waiting
  <2>3. Stored' = Stored
    BY <2>1 DEF Stored
  <2> SUFFICES ASSUME mounted, NEW r \in Rows \ doubt'
               PROVE  RowFine(r, data.rows[r], server[r], WaitOn(r), Stored, Mixed(r)', touched, crossed)
    BY <2>1, <2>2, <2>3 DEF Table
  <2>4. RowFine(r, data.rows[r], server[r], WaitOn(r), Stored, Mixed(r), touched, crossed)
    BY <2>1 DEF Table
  <2>5. Mixed(r) = {} <=> Mixed(r)' = {}
    BY <2>1 DEF Mixed
  <2> QED BY <2>4, <2>5, RowKept
<1> QED BY <1>1, <1>2, <1>3, <1>4, <1>5, <1>6, <1>7, <1>8, <1>9, Steps

-----------------------------------------------------------------------------
(* The invariant, and what follows.                                        *)

LEMMA InitHolds ==
  ASSUME Init
  PROVE  MInv
<1>1. Initial \subseteq Rows /\ Default \in Cell /\ Absent \in Cell
  BY RowsAssumption, ValuesAssumption DEF Cell
<1>2. Typed
  <2>1. server \in [Rows -> Cell] /\ data \in Tables
    BY <1>1 DEF Init, Opened, Tables
  <2>2. history \in Histories /\ pending \in Seq(Entries) /\ log \in Seq(1..MaxOps)
    BY DEF Init, Histories
  <2>3. nops \in 0..MaxOps /\ nreloads \in 0..MaxReloads
    BY BoundAssumption DEF Init
  <2> QED BY <2>1, <2>2, <2>3 DEF Init, Typed
<1>3. Queue /\ Logged
  <2>1. DOMAIN pending = {} /\ DOMAIN log = {} /\ inflight = {} /\ ~sending /\ pending = <<>>
    BY DEF Init
  <2> QED BY <2>1 DEF Queue, Logged
<1>4. GroupsFollowValues
  BY DEF Init, Opened, GroupsFollowValues
<1>5. Waiting = {} /\ Stacked = {}
  <2>1. history.undo = <<>> /\ history.redos = <<>> /\ pending = <<>> /\ inflight = {}
    BY DEF Init
  <2> QED BY <2>1 DEF Waiting, WaitingOf, Stacked, StackedIn
<1>6. Stacks
  <2>1. history.undo = <<>> /\ history.redos = <<>>
    BY DEF Init
  <2>2. DOMAIN history.undo = {} /\ DOMAIN history.redos = {} /\ Operations(Waiting) = {}
        /\ StackedIn(history) = {}
    BY <1>5, <2>1 DEF Operations, Stacked
  <2>3. Len(history.undo) + Len(history.redos) <= MaxUndo + 1
    BY <2>1, BoundAssumption
  <2>4. Orderly(history, Operations(Waiting), nops)
    BY <2>2, <2>3 DEF Orderly, Distinct
  <2>5. \A r \in Rows : Follows(history, r, data.rows[r])
    BY <2>1, FollowsEmpty DEF Follows
  <2> QED BY <2>4, <2>5 DEF Stacks
<1>7. Unused
  BY <1>5 DEF Init, Unused
<1>8. Table
  <2>1. \A r \in Rows : WaitOn(r) = {} /\ data.rows[r] = server[r]
    BY <1>5 DEF WaitOn, Init, Opened
  <2> QED BY <2>1, RowAlone DEF Table, RowFine
<1>9. Confirms /\ Reloads
  BY DEF Init, Confirms, Reloads
<1>10. Gone
  <2>1. inflight = {} /\ \A r \in Rows : WaitOn(r) = {} /\ data.rows[r] = server[r]
    BY <1>5 DEF WaitOn, Init, Opened
  <2> QED BY <2>1 DEF Gone, RowGone
<1> QED BY <1>2, <1>3, <1>4, <1>6, <1>7, <1>8, <1>9, <1>10 DEF MInv

\* The invariant of the store: what it must never lose while answers, refusals, reloads and
\* the dialog cross the operations of the user (store/index.js:189-326).
THEOREM MetadataInvariance == Spec => []MInv
<1>1. Init => MInv
  BY InitHolds
<1>2. MInv /\ [Next]_vars => MInv'
  <2> SUFFICES ASSUME MInv, [Next]_vars PROVE MInv'
    OBVIOUS
  <2>1. Typed /\ Queue /\ Logged /\ GroupsFollowValues /\ Stacks /\ Unused
        /\ Table /\ Gone /\ Confirms /\ Reloads
    BY DEF MInv
  <2>2. Typed' /\ Queue' /\ Logged' /\ GroupsFollowValues'
    BY <2>1, TypedStep, QueueStep, GroupsStep
  <2>3. Stacks' /\ Unused'
    BY <2>1, StackStep, UnusedStep
  <2>4. Table' /\ Gone' /\ Confirms' /\ Reloads'
    BY <2>1, TableStep, GoneStep, ConfirmsStep, ReloadsStep
  <2> QED BY <2>2, <2>3, <2>4 DEF MInv
<1> QED BY <1>1, <1>2, PTL DEF Spec

\* Every variable of the store keeps its type.
THEOREM MetadataTypes == Spec => []TypeOK
<1>1. MInv => TypeOK
  BY TypedIsTyped DEF MInv
<1> QED BY <1>1, MetadataInvariance, PTL

\* The server executes the operations in the order in which the user made them, and none
\* of them twice (store/index.js:216-238).
THEOREM SentOnce == Spec => []SentInOrder
<1>1. MInv => SentInOrder
  <2> SUFFICES ASSUME MInv, NEW i \in 1..(Len(log) - 1) PROVE log[i] < log[i + 1]
    BY DEF SentInOrder
  <2>1. log \in Seq(1..MaxOps) /\ \A j, k \in DOMAIN log : j < k => log[j] < log[k]
    BY DEF MInv, Logged, Typed
  <2>2. i \in DOMAIN log /\ i + 1 \in DOMAIN log /\ i < i + 1
    BY <2>1
  <2> QED BY <2>1, <2>2
<1> QED BY <1>1, MetadataInvariance, PTL

\* Every row stands in the group of its value, and no deleted row in any, but for the rows
\* that a refusal, an answer or the dialog changed (store/data-processor.js:276-458).
THEOREM GroupsHold == Spec => []GroupsFollowValues
<1>1. MInv => GroupsFollowValues
  BY DEF MInv
<1> QED BY <1>1, MetadataInvariance, PTL

\* Undo and redo start from the value that is shown, for any number of operations, and at
\* most one operation more than the limit can be undone (store/index.js:295-326).
THEOREM UndoStartsFromShown == Spec => []UndoFits
<1>1. MInv => UndoFits
  <2> SUFFICES ASSUME MInv, ~crossed
               PROVE  /\ Len(history.undo) <= MaxUndo + 1
                      /\ \A r \in Rows \ touched :
                        /\ \A o \in NewestOf(history.undo, r) : o.new[r] = data.rows[r]
                        /\ \A o \in NewestOf(history.redos, r) : o.old[r] = data.rows[r]
    BY DEF UndoFits
  <2>1. /\ Orderly(history, Operations(Waiting), nops)
        /\ \A r \in Rows \ touched : Follows(history, r, data.rows[r])
        /\ history \in Histories
    BY DEF MInv, Stacks, Typed
  <2>2. Len(history.undo) <= MaxUndo + 1
    <3>1. MaxUndo \in Nat
      BY BoundAssumption
    <3>2. Len(history.undo) \in Nat /\ Len(history.redos) \in Nat
      BY <2>1, OrderlyFacts
    <3>3. Len(history.undo) + Len(history.redos) <= MaxUndo + 1
      BY <2>1 DEF Orderly
    <3>4. \A a, b, m \in Nat : a + b <= m + 1 => a <= m + 1
      OBVIOUS
    <3> QED BY <3>1, <3>2, <3>3, <3>4
  <2>3. ASSUME NEW s \in Seq(Mods), NEW r, NEW o \in NewestOf(s, r)
        PROVE  \E k \in On(s, r) : (\A j \in On(s, r) : j <= k) /\ o = s[k]
    BY <2>3 DEF NewestOf
  <2>4. ASSUME NEW r \in Rows \ touched, NEW o \in NewestOf(history.undo, r)
        PROVE  o.new[r] = data.rows[r]
    <3>1. history.undo \in Seq(Mods) /\ Leads(Undone(history.undo, r), data.rows[r])
      BY <2>1, OrderlyFacts DEF Follows
    <3>2. PICK k \in On(history.undo, r) : (\A j \in On(history.undo, r) : j <= k) /\ o = history.undo[k]
      BY <2>3, <2>4, <3>1
    <3>3. DOMAIN Undone(history.undo, r) = On(history.undo, r) /\ Undone(history.undo, r)[k] = Made(o, r)
      BY <3>1, <3>2, OnFacts
    <3>4. Undone(history.undo, r)[k].to = data.rows[r]
      BY <3>1, <3>2, <3>3 DEF Leads
    <3> QED BY <3>3, <3>4 DEF Made
  <2>5. ASSUME NEW r \in Rows \ touched, NEW o \in NewestOf(history.redos, r)
        PROVE  o.old[r] = data.rows[r]
    <3>1. history.redos \in Seq(Mods) /\ Leads(Redone(history.redos, r), data.rows[r])
      BY <2>1, OrderlyFacts DEF Follows
    <3>2. PICK k \in On(history.redos, r) : (\A j \in On(history.redos, r) : j <= k) /\ o = history.redos[k]
      BY <2>3, <2>5, <3>1
    <3>3. DOMAIN Redone(history.redos, r) = On(history.redos, r) /\ Redone(history.redos, r)[k] = TakenBack(o, r)
      BY <3>1, <3>2, OnFacts
    <3>4. Redone(history.redos, r)[k].to = data.rows[r]
      BY <3>1, <3>2, <3>3 DEF Leads
    <3> QED BY <3>3, <3>4 DEF TakenBack
  <2> QED BY <2>2, <2>4, <2>5
<1> QED BY <1>1, MetadataInvariance, PTL

\* While changes of a row are on their way the table shows the newest of them, and when none
\* is it shows what the server stores, outside the races that the model marks
\* (store/index.js:189-282).
THEOREM TableAgrees == Spec => []Agreement
<1>1. MInv => Agreement
  <2> SUFFICES ASSUME MInv, mounted, NEW r \in Rows \ doubt
               PROVE  /\ \A e \in NewestOn(r) : e.op.type \notin AfterServer /\ data.rows[r] # Absent
                                                 => data.rows[r] = e.op.new[r]
                      /\ ~IsOutstanding(r) /\ ~Confirming(r) => data.rows[r] = server[r]
    BY DEF Agreement
  <2>1. Agrees(r, data.rows[r], server[r], WaitOn(r), Stored, Mixed(r), touched) /\ Typed
    BY DEF MInv, Table, RowFine
  <2>2. \A y : y \in Waiting <=> \/ \E i \in 1..Len(pending) : y = pending[i]
                                 \/ \E e \in inflight : y = [op |-> e.op, n |-> e.n]
    BY <2>1, WaitingIs DEF Waiting, Typed
  <2>3. \A e : e \in Outstanding <=> (\E i \in 1..Len(pending) : e = pending[i]) \/ e \in inflight
    BY DEF Outstanding
  <2>4. ASSUME NEW e \in NewestOn(r), e.op.type \notin AfterServer, data.rows[r] # Absent
        PROVE  data.rows[r] = e.op.new[r]
    <3>1. /\ e \in Outstanding /\ r \in RowsOf(e.op)
          /\ \A f \in Outstanding : r \in RowsOf(f.op) => f.n <= e.n
      BY <2>4 DEF NewestOn
    <3>2. PICK y \in Waiting : y.op = e.op /\ y.n = e.n
      <4>1. CASE \E i \in 1..Len(pending) : e = pending[i]
        BY <2>2, <4>1
      <4>2. CASE e \in inflight
        <5>1. [op |-> e.op, n |-> e.n] \in Waiting
          BY <2>2, <4>2
        <5> QED BY <5>1
      <4> QED BY <2>3, <3>1, <4>1, <4>2
    <3>3. y \in Shown(WaitOn(r))
      BY <2>4, <3>1, <3>2 DEF Shown, WaitOn
    <3>4. ASSUME NEW f \in Shown(WaitOn(r)) PROVE f.n <= y.n
      <4>1. f \in Waiting /\ r \in RowsOf(f.op)
        BY <3>4 DEF Shown, WaitOn
      <4>2. \E g \in Outstanding : g.op = f.op /\ g.n = f.n
        <5>1. CASE \E i \in 1..Len(pending) : f = pending[i]
          BY <2>3, <5>1
        <5>2. CASE \E g \in inflight : f = [op |-> g.op, n |-> g.n]
          BY <2>3, <5>2
        <5> QED BY <2>2, <4>1, <5>1, <5>2
      <4> QED BY <3>1, <3>2, <4>1, <4>2
    <3>5. y \in LastOf(Shown(WaitOn(r)))
      BY <3>3, <3>4 DEF LastOf
    <3> QED BY <2>1, <2>4, <3>2, <3>5 DEF Agrees
  <2>5. ASSUME ~IsOutstanding(r), ~Confirming(r) PROVE data.rows[r] = server[r]
    <3>1. WaitOn(r) = {}
      BY <2>1, <2>5, OutstandingIs
    <3>2. Mixed(r) = {}
      BY <2>5 DEF Confirming, Mixed
    <3> QED BY <2>1, <3>1, <3>2 DEF Agrees, Shown, NoneStored
  <2> QED BY <2>4, <2>5
<1> QED BY <1>1, MetadataInvariance, PTL
=============================================================================
