---------------------------- MODULE CollabProofs ----------------------------
(***************************************************************************)
(* The plan, the mailbox and the blackboard keep what they promise, for    *)
(* any number of agents, delegates, tasks and restarts.                    *)
(*                                                                         *)
(* Every change of the plan is one of four operations under its mutex, and *)
(* all of them do what Advances says: the version grows by one, nobody     *)
(* loses a task and what is over stays over.  The proofs about the plan    *)
(* rest on that fact alone.  The proofs about the messages rest on the     *)
(* order of the numbers in an inbox.                                       *)
(***************************************************************************)
EXTENDS Collab, FiniteSetTheorems, SequenceTheorems, NaturalsInduction, TLAPS

-----------------------------------------------------------------------------
(***************************************************************************)
(* Numbers and sequences.                                                  *)
(***************************************************************************)

(* A set of numbers has a least one. *)
LEMMA LeastNumber ==
    ASSUME NEW T, T \subseteq Nat, T # {}
    PROVE  \E m \in T : \A n \in T : m <= n
<1>1. IsWellFoundedOn(OpToRel(<, Nat), Nat)
  BY NatLessThanWellFounded, Zenon
<1>2. PICK m \in T : \A n \in T : ~(<<n, m>> \in OpToRel(<, Nat))
  BY <1>1, WFMin, Zenon
<1>3. \A n \in T : ~(n < m)
  BY <1>2 DEF OpToRel
<1> QED BY <1>3

(* Induction, as a fact about sets. *)
LEMMA Induction ==
    ASSUME NEW T, T \subseteq Nat, 0 \in T, \A n \in T : n + 1 \in T
    PROVE  T = Nat
<1> SUFFICES ASSUME Nat \ T # {} PROVE FALSE
  OBVIOUS
<1>1. PICK m \in Nat \ T : \A n \in Nat \ T : m <= n
  BY LeastNumber
<1>2. m - 1 \in T
  BY <1>1
<1> QED BY <1>1, <1>2

(* One step of the filter. *)
KeepStep(g, s, S, i) ==
    IF i = 0 THEN << >>
    ELSE IF s[i] \in S THEN Append(g[i - 1], s[i]) ELSE g[i - 1]

Kept(s, S, n) == CHOOSE g : g = [i \in 0..n |-> KeepStep(g, s, S, i)]

(* The recursive function of Among exists. *)
LEMMA KeptExists ==
    ASSUME NEW s, NEW S, NEW n \in Nat
    PROVE  Kept(s, S, n) = [i \in 0..n |-> KeepStep(Kept(s, S, n), s, S, i)]
<1> DEFINE P == {k \in Nat : \E g : g = [i \in 0..k |-> KeepStep(g, s, S, i)]}
<1>1. 0 \in P
  <2> DEFINE g == [i \in 0..0 |-> << >>]
  <2>1. g = [i \in 0..0 |-> KeepStep(g, s, S, i)]
    BY DEF KeepStep
  <2> HIDE DEF g
  <2> QED BY <2>1
<1>2. ASSUME NEW k \in P PROVE k + 1 \in P
  <2>1. k \in Nat /\ k + 1 \in Nat
    OBVIOUS
  <2>2. PICK g : g = [i \in 0..k |-> KeepStep(g, s, S, i)]
    OBVIOUS
  <2> DEFINE h == [i \in 0..(k + 1) |-> KeepStep(g, s, S, i)]
  <2>3. \A i \in 0..k : h[i] = g[i]
    BY <2>1, <2>2
  <2> HIDE DEF P
  <2>4. ASSUME NEW i \in 0..(k + 1) PROVE KeepStep(g, s, S, i) = KeepStep(h, s, S, i)
    <3> HIDE DEF h
    <3>1. CASE i = 0
      BY <3>1 DEF KeepStep
    <3>2. CASE i # 0
      <4>1. i - 1 \in 0..k
        BY <3>2, <2>1
      <4> QED BY <4>1, <2>3 DEF KeepStep
    <3> QED BY <3>1, <3>2
  <2>5. h = [i \in 0..(k + 1) |-> KeepStep(h, s, S, i)]
    BY <2>4
  <2> HIDE DEF h
  <2> QED BY <2>1, <2>5 DEF P
<1>3. P = Nat
  <2>1. P \subseteq Nat
    OBVIOUS
  <2> HIDE DEF P
  <2> QED BY <1>1, <1>2, <2>1, Induction
<1> QED BY <1>3 DEF Kept

(* Among looks at one element after the other. *)
LEMMA AmongStepwise ==
    ASSUME NEW s \in Seq(Nat), NEW S
    PROVE  \E g : /\ Among(s, S) = g[Len(s)]
                  /\ g[0] = << >>
                  /\ \A i \in 1..Len(s) :
                        g[i] = IF s[i] \in S THEN Append(g[i - 1], s[i]) ELSE g[i - 1]
<1> DEFINE g == Kept(s, S, Len(s))
<1>1. Among(s, S) = g[Len(s)]
  BY DEF Among, Kept, KeepStep
<1>2. Len(s) \in Nat
  OBVIOUS
<1>3. g = [i \in 0..Len(s) |-> KeepStep(g, s, S, i)]
  BY <1>2, KeptExists
<1> HIDE DEF g
<1>4. g[0] = << >>
  BY <1>2, <1>3 DEF KeepStep
<1>5. \A i \in 1..Len(s) :
          g[i] = IF s[i] \in S THEN Append(g[i - 1], s[i]) ELSE g[i - 1]
  <2> TAKE i \in 1..Len(s)
  <2>1. i \in 0..Len(s) /\ i # 0
    BY <1>2
  <2>2. g[i] = KeepStep(g, s, S, i)
    BY <1>3, <2>1
  <2> QED BY <2>1, <2>2 DEF KeepStep
<1> QED BY <1>1, <1>4, <1>5

(* When the first k elements are in the set and no others, Among is a prefix. *)
LEMMA AmongPrefix ==
    ASSUME NEW s \in Seq(Nat), NEW S, NEW k \in 0..Len(s),
           \A i \in 1..k : s[i] \in S, \A i \in (k + 1)..Len(s) : s[i] \notin S
    PROVE  Among(s, S) = SubSeq(s, 1, k)
<1>1. PICK g : /\ Among(s, S) = g[Len(s)]
               /\ g[0] = << >>
               /\ \A i \in 1..Len(s) :
                      g[i] = IF s[i] \in S THEN Append(g[i - 1], s[i]) ELSE g[i - 1]
  BY AmongStepwise
<1> DEFINE P == {n \in Nat : n <= Len(s) =>
                    g[n] = IF n <= k THEN SubSeq(s, 1, n) ELSE SubSeq(s, 1, k)}
<1>2. 0 \in P
  <2>1. SubSeq(s, 1, 0) = << >> /\ 0 <= k
    BY SubSeqEmpty
  <2> QED BY <1>1, <2>1
<1>3. ASSUME NEW n \in P, n + 1 <= Len(s)
      PROVE  g[n + 1] = IF n + 1 <= k THEN SubSeq(s, 1, n + 1) ELSE SubSeq(s, 1, k)
  <2>1. n \in Nat /\ n <= Len(s) /\ n + 1 \in 1..Len(s) /\ (n + 1) - 1 = n
    BY <1>3
  <2>2. g[n] = IF n <= k THEN SubSeq(s, 1, n) ELSE SubSeq(s, 1, k)
    BY <2>1
  <2> HIDE DEF P
  <2>3. g[n + 1] = IF s[n + 1] \in S THEN Append(g[n], s[n + 1]) ELSE g[n]
    BY <1>1, <2>1
  <2>4. CASE n + 1 <= k
    <3>1. s[n + 1] \in S /\ n <= k
      BY <2>1, <2>4
    <3>2. SubSeq(s, 1, n + 1) = Append(SubSeq(s, 1, n), s[n + 1])
      BY <2>1
    <3> QED BY <2>2, <2>3, <2>4, <3>1, <3>2
  <2>5. CASE ~(n + 1 <= k)
    <3>1. s[n + 1] \notin S /\ k <= n
      BY <2>1, <2>5
    <3> QED BY <2>1, <2>2, <2>3, <2>5, <3>1
  <2> QED BY <2>4, <2>5
<1>4. P = Nat
  <2>1. P \subseteq Nat
    OBVIOUS
  <2>2. \A n \in P : n + 1 \in P
    BY <1>3
  <2> HIDE DEF P
  <2> QED BY <1>2, <2>1, <2>2, Induction
<1>5. Len(s) \in P /\ Len(s) \in Nat
  BY <1>4
<1>6. g[Len(s)] = IF Len(s) <= k THEN SubSeq(s, 1, Len(s)) ELSE SubSeq(s, 1, k)
  BY <1>5
<1> HIDE DEF P
<1>7. Len(s) <= k => k = Len(s)
  BY <1>5
<1> QED BY <1>1, <1>6, <1>7

(* When all but the first k elements are in the set, Among is a suffix. *)
LEMMA AmongSuffix ==
    ASSUME NEW s \in Seq(Nat), NEW S, NEW k \in 0..Len(s),
           \A i \in 1..k : s[i] \notin S, \A i \in (k + 1)..Len(s) : s[i] \in S
    PROVE  Among(s, S) = SubSeq(s, k + 1, Len(s))
<1>1. PICK g : /\ Among(s, S) = g[Len(s)]
               /\ g[0] = << >>
               /\ \A i \in 1..Len(s) :
                      g[i] = IF s[i] \in S THEN Append(g[i - 1], s[i]) ELSE g[i - 1]
  BY AmongStepwise
<1> DEFINE P == {n \in Nat : n <= Len(s) => g[n] = SubSeq(s, k + 1, n)}
<1>2. 0 \in P
  <2>1. SubSeq(s, k + 1, 0) = << >>
    BY SubSeqEmpty
  <2> QED BY <1>1, <2>1
<1>3. ASSUME NEW n \in P, n + 1 <= Len(s)
      PROVE  g[n + 1] = SubSeq(s, k + 1, n + 1)
  <2>1. n \in Nat /\ n <= Len(s) /\ n + 1 \in 1..Len(s) /\ (n + 1) - 1 = n
    BY <1>3
  <2>2. g[n] = SubSeq(s, k + 1, n)
    BY <2>1
  <2> HIDE DEF P
  <2>3. g[n + 1] = IF s[n + 1] \in S THEN Append(g[n], s[n + 1]) ELSE g[n]
    BY <1>1, <2>1
  <2>4. CASE k + 1 <= n + 1
    <3>1. s[n + 1] \in S
      BY <2>1, <2>4
    <3>2. SubSeq(s, k + 1, n + 1) = Append(SubSeq(s, k + 1, n), s[n + 1])
      BY <2>1, <2>4
    <3> QED BY <2>2, <2>3, <3>1, <3>2
  <2>5. CASE ~(k + 1 <= n + 1)
    <3>1. s[n + 1] \notin S
      BY <2>1, <2>5
    <3>2. SubSeq(s, k + 1, n) = << >> /\ SubSeq(s, k + 1, n + 1) = << >>
      BY <2>1, <2>5
    <3> QED BY <2>2, <2>3, <3>1, <3>2
  <2> QED BY <2>4, <2>5
<1>4. P = Nat
  <2>1. P \subseteq Nat
    OBVIOUS
  <2>2. \A n \in P : n + 1 \in P
    BY <1>3
  <2> HIDE DEF P
  <2> QED BY <1>2, <2>1, <2>2, Induction
<1>5. Len(s) \in P
  BY <1>4
<1> QED BY <1>1, <1>5

-----------------------------------------------------------------------------
(***************************************************************************)
(* The operations on a plan.                                               *)
(***************************************************************************)
TaskRecord == [status: Statuses, owner: Agents \cup {Nobody}, deps: SUBSET Tasks]

(* A plan: every task is in the stable order, once. *)
PlanType(p) ==
    /\ p \in [version: Nat, order: Seq(Tasks), tasks: UNION {[D -> TaskRecord] : D \in SUBSET Tasks}]
    /\ DOMAIN p.tasks = {p.order[i] : i \in DOMAIN p.order}
    /\ IsFiniteSet(DOMAIN p.tasks) /\ Cardinality(DOMAIN p.tasks) = Len(p.order)

(* A task gets its owner after what it depends on, and has not begun before. *)
HadTheirTurn(p) ==
    \A t \in DOMAIN p.tasks :
        /\ p.tasks[t].owner # Nobody => unfinished_dependencies(p, p.tasks[t].deps) = {}
        /\ p.tasks[t].owner = Nobody => p.tasks[t].status = "Todo"

(* What the plan may become under its mutex. *)
Advances(p, q) ==
    /\ q.version = p.version + 1
    /\ DOMAIN p.tasks \subseteq DOMAIN q.tasks
    /\ \A t \in DOMAIN p.tasks :
        /\ q.tasks[t].deps = p.tasks[t].deps
        /\ p.tasks[t].owner # Nobody => q.tasks[t].owner = p.tasks[t].owner
        /\ p.tasks[t].status \in Final => q.tasks[t].status = p.tasks[t].status

GoodStep(p, q) == PlanType(q) /\ HadTheirTurn(q) /\ Advances(p, q)

LEMMA TasksOfAPlan ==
    ASSUME NEW p, PlanType(p)
    PROVE  /\ p.version \in Nat /\ p.order \in Seq(Tasks)
           /\ DOMAIN p.tasks \subseteq Tasks
           /\ \A t \in DOMAIN p.tasks : p.tasks[t] \in TaskRecord
           /\ p = [version |-> p.version, order |-> p.order, tasks |-> p.tasks]
<1>1. p.tasks \in UNION {[D -> TaskRecord] : D \in SUBSET Tasks}
  BY DEF PlanType
<1>2. PICK D \in SUBSET Tasks : p.tasks \in [D -> TaskRecord]
  BY <1>1
<1> QED BY <1>2 DEF PlanType

(* A new record for a task of the plan. *)
LEMMA PutOld ==
    ASSUME NEW p, PlanType(p), NEW t \in DOMAIN p.tasks, NEW r \in TaskRecord
    PROVE  /\ PlanType(Put(p, t, r))
           /\ Put(p, t, r).version = p.version + 1
           /\ DOMAIN Put(p, t, r).tasks = DOMAIN p.tasks
           /\ Put(p, t, r).tasks[t] = r
           /\ \A u \in DOMAIN p.tasks \ {t} : Put(p, t, r).tasks[u] = p.tasks[u]
<1> DEFINE D == DOMAIN p.tasks
           f == [u \in D |-> IF u = t THEN r ELSE p.tasks[u]]
<1>1. /\ p.version \in Nat /\ p.order \in Seq(Tasks) /\ D \in SUBSET Tasks
      /\ \A u \in D : p.tasks[u] \in TaskRecord
      /\ p = [version |-> p.version, order |-> p.order, tasks |-> p.tasks]
  BY TasksOfAPlan
<1>2. D \cup {t} = D
  OBVIOUS
<1>3. f \in [D -> TaskRecord]
  BY <1>1
<1>4. f \in UNION {[E -> TaskRecord] : E \in SUBSET Tasks}
  BY <1>1, <1>3
<1>5. Put(p, t, r) = [version |-> p.version + 1, order |-> p.order, tasks |-> f]
  BY <1>1, <1>2 DEF Put
<1>6. DOMAIN f = D /\ f[t] = r /\ \A u \in D \ {t} : f[u] = p.tasks[u]
  OBVIOUS
<1> HIDE DEF f
<1>7. PlanType(Put(p, t, r))
  <2> DEFINE q == Put(p, t, r)
  <2>1. q.version = p.version + 1 /\ q.order = p.order /\ q.tasks = f
    BY <1>5
  <2>2. q \in [version: Nat, order: Seq(Tasks), tasks: UNION {[E -> TaskRecord] : E \in SUBSET Tasks}]
    BY <1>1, <1>4, <1>5
  <2> HIDE DEF q
  <2>3. PlanType(q)
    BY <1>6, <2>1, <2>2 DEF PlanType
  <2> QED BY <2>3 DEF q
<1> QED BY <1>5, <1>6, <1>7

(* A change of one task that is not final and gives it to an owner, or to   *)
(* the one it has, advances the plan.                                       *)
LEMMA PutAdvances ==
    ASSUME NEW p, PlanType(p), HadTheirTurn(p), NEW t \in DOMAIN p.tasks, NEW r \in TaskRecord,
           r.deps = p.tasks[t].deps,
           p.tasks[t].owner # Nobody => r.owner = p.tasks[t].owner,
           p.tasks[t].status \in Final => r.status = p.tasks[t].status,
           r.owner # Nobody => unfinished_dependencies(p, r.deps) = {},
           r.owner = Nobody => r.status = "Todo"
    PROVE  GoodStep(p, Put(p, t, r))
<1> DEFINE q == Put(p, t, r)
<1>1. /\ PlanType(q) /\ q.version = p.version + 1 /\ DOMAIN q.tasks = DOMAIN p.tasks
      /\ q.tasks[t] = r
      /\ \A u \in DOMAIN p.tasks \ {t} : q.tasks[u] = p.tasks[u]
  BY PutOld
<1> HIDE DEF q
<1>2. Advances(p, q)
  BY <1>1 DEF Advances
<1>3. ASSUME NEW deps, unfinished_dependencies(p, deps) = {}
      PROVE  unfinished_dependencies(q, deps) = {}
  BY <1>2, <1>3 DEF unfinished_dependencies, Advances, Final
<1>4. ASSUME NEW u \in DOMAIN q.tasks
      PROVE  /\ q.tasks[u].owner # Nobody => unfinished_dependencies(q, q.tasks[u].deps) = {}
             /\ q.tasks[u].owner = Nobody => q.tasks[u].status = "Todo"
  <2>1. CASE u = t
    BY <1>1, <1>3, <2>1
  <2>2. CASE u # t
    BY <1>1, <1>3, <2>2 DEF HadTheirTurn
  <2> QED BY <2>1, <2>2
<1>5. HadTheirTurn(q)
  BY <1>4 DEF HadTheirTurn
<1> QED BY <1>1, <1>2, <1>5 DEF GoodStep, q

LEMMA AddTask ==
    ASSUME NEW p, PlanType(p), HadTheirTurn(p), NEW t \in Tasks, NEW deps \in SUBSET Tasks
    PROVE  add_task(p, t, deps) = p \/ GoodStep(p, add_task(p, t, deps))
<1> SUFFICES ASSUME AddAccepted(p, t, deps)
             PROVE  GoodStep(p, add_task(p, t, deps))
  BY DEF add_task
<1> DEFINE D == DOMAIN p.tasks
           r == [status |-> "Todo", owner |-> Nobody, deps |-> deps]
           f == [u \in D \cup {t} |-> IF u = t THEN r ELSE p.tasks[u]]
           q == [version |-> p.version + 1, order |-> Append(p.order, t), tasks |-> f]
<1>1. /\ p.version \in Nat /\ p.order \in Seq(Tasks) /\ D \in SUBSET Tasks
      /\ \A u \in D : p.tasks[u] \in TaskRecord
      /\ p = [version |-> p.version, order |-> p.order, tasks |-> p.tasks]
  BY TasksOfAPlan
<1>2. add_task(p, t, deps) = q
  BY <1>1 DEF add_task, Put
<1>3. t \notin D
  BY DEF AddAccepted
<1>4. PlanType(q)
  <2>1. r \in TaskRecord
    BY DEF TaskRecord, Statuses
  <2>2. f \in [D \cup {t} -> TaskRecord]
    BY <1>1, <2>1
  <2>3. f \in UNION {[E -> TaskRecord] : E \in SUBSET Tasks}
    BY <1>1, <2>2
  <2>4. q \in [version: Nat, order: Seq(Tasks), tasks: UNION {[E -> TaskRecord] : E \in SUBSET Tasks}]
    <3> HIDE DEF f
    <3> QED BY <1>1, <2>3
  <2>5. D = {p.order[i] : i \in DOMAIN p.order}
    BY DEF PlanType
  <2>6. D \cup {t} = {q.order[i] : i \in DOMAIN q.order}
    <3>1. DOMAIN q.order = 1..(Len(p.order) + 1) /\ DOMAIN p.order = 1..Len(p.order)
      BY <1>1
    <3>2. \A i \in DOMAIN p.order : i \in DOMAIN q.order /\ q.order[i] = p.order[i]
      BY <1>1, <3>1
    <3>3. Len(p.order) + 1 \in DOMAIN q.order /\ q.order[Len(p.order) + 1] = t
      BY <1>1, <3>1
    <3>4. \A i \in DOMAIN q.order : i \in DOMAIN p.order \/ i = Len(p.order) + 1
      BY <1>1, <3>1
    <3> HIDE DEF q
    <3> QED BY <2>5, <3>2, <3>3, <3>4
  <2>7. IsFiniteSet(D \cup {t}) /\ Cardinality(D \cup {t}) = Cardinality(D) + 1
    BY <1>3, FS_AddElement DEF PlanType
  <2>8. Cardinality(D \cup {t}) = Len(q.order)
    BY <1>1, <2>7 DEF PlanType
  <2> QED BY <2>4, <2>6, <2>7, <2>8 DEF PlanType
<1>5. Advances(p, q)
  BY <1>1, <1>3 DEF Advances
<1>6. ASSUME NEW d, unfinished_dependencies(p, d) = {}
      PROVE  unfinished_dependencies(q, d) = {}
  <2> HIDE DEF q
  <2> QED BY <1>5, <1>6 DEF unfinished_dependencies, Advances, Final
<1>7. ASSUME NEW u \in DOMAIN q.tasks
      PROVE  /\ q.tasks[u].owner # Nobody => unfinished_dependencies(q, q.tasks[u].deps) = {}
             /\ q.tasks[u].owner = Nobody => q.tasks[u].status = "Todo"
  <2>1. CASE u = t
    <3>1. q.tasks[u] = r
      BY <2>1
    <3> QED BY <3>1
  <2>2. CASE u # t
    <3>1. u \in D /\ q.tasks[u] = p.tasks[u]
      BY <2>2
    <3> HIDE DEF q
    <3> QED BY <1>6, <3>1 DEF HadTheirTurn
  <2> QED BY <2>1, <2>2
<1>8. HadTheirTurn(q)
  <2> HIDE DEF q
  <2> QED BY <1>7 DEF HadTheirTurn
<1> QED BY <1>2, <1>4, <1>5, <1>8 DEF GoodStep

LEMMA Claim ==
    ASSUME NEW p, PlanType(p), HadTheirTurn(p), NEW t \in Tasks, NEW who \in Agents, NEW v
    PROVE  claim(p, t, who, v) # p =>
               /\ ClaimAccepted(p, t, who, v)
               /\ GoodStep(p, claim(p, t, who, v))
               /\ claim(p, t, who, v).tasks[t].owner = who
<1> SUFFICES ASSUME ClaimAccepted(p, t, who, v)
             PROVE  GoodStep(p, claim(p, t, who, v)) /\ claim(p, t, who, v).tasks[t].owner = who
  <2>1. ~ClaimAccepted(p, t, who, v) => claim(p, t, who, v) = p
    BY DEF claim
  <2> QED BY <2>1
<1> DEFINE r == Owned(p.tasks[t], who)
<1>1. t \in DOMAIN p.tasks /\ p.tasks[t] \in TaskRecord
  BY TasksOfAPlan DEF ClaimAccepted
<1>2. r \in TaskRecord /\ r.owner = who /\ r.deps = p.tasks[t].deps /\ r.status = "InProgress"
  BY <1>1 DEF TaskRecord, Statuses, Owned
<1>3. /\ p.tasks[t].owner # Nobody => r.owner = p.tasks[t].owner
      /\ p.tasks[t].status \in Final => r.status = p.tasks[t].status
      /\ unfinished_dependencies(p, r.deps) = {}
  BY <1>1, <1>2 DEF ClaimAccepted, can_transition_to, Final
<1>4. claim(p, t, who, v) = Put(p, t, r)
  BY DEF claim
<1> HIDE DEF r
<1>5. Put(p, t, r).tasks[t] = r
  BY <1>1, <1>2, PutOld
<1>6. who # Nobody
  BY AgentsAssumption
<1> QED BY <1>1, <1>2, <1>3, <1>4, <1>5, <1>6, PutAdvances

LEMMA ClaimFirstAvailable ==
    ASSUME NEW p, PlanType(p), HadTheirTurn(p), NEW who \in Agents, NEW v
    PROVE  claim_first_available(p, who, v) = p \/ GoodStep(p, claim_first_available(p, who, v))
<1> SUFFICES ASSUME p.version = v, Available(p) # {}
             PROVE  GoodStep(p, claim_first_available(p, who, v))
  BY DEF claim_first_available
<1> DEFINE i == CHOOSE i \in Available(p) : \A j \in Available(p) : i <= j
           t == p.order[i]
           r == Owned(p.tasks[t], who)
<1>1. p.order \in Seq(Tasks) /\ \A u \in DOMAIN p.tasks : p.tasks[u] \in TaskRecord
  BY TasksOfAPlan
<1>2. Available(p) \subseteq Nat
  BY <1>1 DEF Available
<1>3. \E k \in Available(p) : \A j \in Available(p) : k <= j
  BY <1>2, LeastNumber
<1>4. i \in Available(p)
  BY <1>3
<1>5. claim_first_available(p, who, v) = Put(p, t, r)
  BY DEF claim_first_available
<1> HIDE DEF i
<1>6. t \in DOMAIN p.tasks
  BY <1>4 DEF Available, PlanType
<1>7. /\ p.tasks[t].status = "Todo" /\ p.tasks[t].owner = Nobody
      /\ unfinished_dependencies(p, p.tasks[t].deps) = {}
  BY <1>4 DEF Available
<1>8. r \in TaskRecord /\ r.deps = p.tasks[t].deps /\ r.owner = who /\ who # Nobody
  BY <1>1, <1>6, AgentsAssumption DEF TaskRecord, Statuses, Owned
<1>9. p.tasks[t].status \notin Final
  BY <1>7 DEF Final
<1> HIDE DEF t, r
<1> QED BY <1>5, <1>6, <1>7, <1>8, <1>9, PutAdvances

LEMMA UpdateStatus ==
    ASSUME NEW p, PlanType(p), HadTheirTurn(p), NEW t \in Tasks, NEW who \in Agents,
           NEW s \in Statuses, NEW v
    PROVE  update_status(p, t, who, s, v) # p =>
               /\ GoodStep(p, update_status(p, t, who, s, v))
               /\ update_status(p, t, who, s, v).tasks[t].status = s
<1> SUFFICES ASSUME UpdateAccepted(p, t, who, s, v)
             PROVE  GoodStep(p, update_status(p, t, who, s, v))
                    /\ update_status(p, t, who, s, v).tasks[t].status = s
  <2>1. ~UpdateAccepted(p, t, who, s, v) => update_status(p, t, who, s, v) = p
    BY DEF update_status
  <2> QED BY <2>1
<1> DEFINE r == [p.tasks[t] EXCEPT !.status = s]
<1>1. t \in DOMAIN p.tasks /\ p.tasks[t] \in TaskRecord /\ p.tasks[t].owner = who
  BY TasksOfAPlan DEF UpdateAccepted
<1>2. who # Nobody
  BY AgentsAssumption
<1>3. r \in TaskRecord /\ r.owner = who /\ r.deps = p.tasks[t].deps /\ r.status = s
  BY <1>1 DEF TaskRecord
<1>4. p.tasks[t].status \in Final => r.status = p.tasks[t].status
  BY <1>3 DEF UpdateAccepted, can_transition_to, Final
<1>5. unfinished_dependencies(p, r.deps) = {}
  BY <1>1, <1>2, <1>3 DEF HadTheirTurn
<1>6. update_status(p, t, who, s, v) = Put(p, t, r)
  BY DEF update_status
<1> HIDE DEF r
<1>7. Put(p, t, r).tasks[t] = r
  BY <1>1, <1>3, PutOld
<1> QED BY <1>1, <1>2, <1>3, <1>4, <1>5, <1>6, <1>7, PutAdvances

-----------------------------------------------------------------------------
(***************************************************************************)
(* The inductive invariant.                                                *)
(***************************************************************************)
TaskMaps == UNION {[D -> TaskRecord] : D \in SUBSET Tasks}
Busy == {"look", "add", "read", "claim", "reread", "update"}
Reflection ==
    [pc: Busy, task: Tasks, status: Statuses, alone: BOOLEAN,
     snap: [version: Nat, order: Seq(Tasks), tasks: TaskMaps]]
Knowledge ==
    [version: Nat, tasks: TaskMaps, mailAt: Nat, mail: Seq(Nat), boardAt: Nat, board: Seq(Nat)]

StateType ==
    /\ config \subseteq Parts
    /\ PlanType(plan)
    /\ mail \in [next: Nat, inbox: [Locals -> Seq(Nat)]]
    /\ board \in Seq(Agents)
    /\ bridge \in [Externals -> Reflection \cup {Quiet}]
    /\ known \in [Locals -> Knowledge]
    /\ restores \in 0..MaxRestores

(* A copy of the plan is not newer than the plan, and is the plan when it   *)
(* has its version.                                                         *)
KnownInv ==
    \A a \in Locals :
        /\ known[a].version <= plan.version
        /\ known[a].version = plan.version => known[a].tasks = plan.tasks

(* What reflect_plan_update has found out and may rely on. *)
ReflectInv(x, b, p) ==
    /\ b.pc # "quiet" => b.snap.version <= p.version
    /\ b.pc \in {"read", "claim", "reread", "update"} => b.task \in DOMAIN p.tasks
    /\ b.pc \in {"reread", "update"} => p.tasks[b.task].owner = x
    /\ b.pc \in {"claim", "update"} /\ b.alone => b.snap.version = p.version
    /\ b.pc \in {"claim", "update"} /\ b.snap.version = p.version =>
          /\ b.snap.tasks = p.tasks
          /\ b.pc = "claim" => p.tasks[b.task].owner = Nobody
          /\ b.pc = "update" => can_transition_to(p.tasks[b.task].status, b.status)

BridgeInv ==
    \A x \in Externals :
        /\ ReflectInv(x, bridge[x], plan)
        /\ bridge[x].pc # "quiet" => "plan" \in config

(* The numbers in an inbox grow, and the last number given is in some inbox. *)
InboxInv ==
    /\ \A a \in Locals : \A i \in DOMAIN mail.inbox[a] :
          /\ mail.inbox[a][i] < mail.next
          /\ \A j \in DOMAIN mail.inbox[a] : i < j => mail.inbox[a][i] < mail.inbox[a][j]
    /\ mail.next > 0 =>
          \E a \in Locals : \E i \in DOMAIN mail.inbox[a] : mail.inbox[a][i] = mail.next - 1

CursorInv ==
    \A a \in Locals : known[a].mailAt <= mail.next /\ known[a].boardAt <= Len(board)

IInv ==
    /\ StateType /\ HadTheirTurn(plan) /\ KnownInv /\ BridgeInv
    /\ InboxInv /\ CursorInv /\ ReadersMissNothing /\ PartsInUseAreEnabled

LEMMA InitIInv == Init => IInv
<1> SUFFICES ASSUME Init PROVE IInv
  OBVIOUS
<1>1. PlanType(NewPlan) /\ NewPlan.tasks \in TaskMaps
  <2>1. << >> \in [{} -> TaskRecord]
    OBVIOUS
  <2>2. << >> \in TaskMaps
    BY <2>1 DEF TaskMaps
  <2>3. Cardinality({}) = 0 /\ IsFiniteSet({})
    BY FS_EmptySet
  <2>4. NewPlan.order = << >> /\ NewPlan.tasks = << >> /\ NewPlan.version = 0
    BY DEF NewPlan
  <2>5. NewPlan \in [version: Nat, order: Seq(Tasks), tasks: TaskMaps]
    BY <2>2 DEF NewPlan
  <2>6. DOMAIN NewPlan.tasks = {} /\ DOMAIN NewPlan.order = {} /\ Len(NewPlan.order) = 0
    BY <2>4
  <2> QED BY <2>2, <2>3, <2>4, <2>5, <2>6 DEF PlanType, TaskMaps
<1>2. config \subseteq Parts
  BY ConfigsAssumption DEF Init, derive_default, Parts
<1>3. NothingKnown \in Knowledge
  BY <1>1 DEF NothingKnown, Knowledge, NewPlan
<1>4. StateType
  BY <1>1, <1>2, <1>3, BoundsAssumption DEF Init, StateType, NewMailbox
<1>5. HadTheirTurn(plan)
  BY DEF Init, HadTheirTurn, NewPlan
<1>6. KnownInv /\ BridgeInv /\ CursorInv
  BY DEF Init, KnownInv, BridgeInv, CursorInv, ReflectInv, Quiet, NewPlan, NothingKnown, NewMailbox
<1>7. InboxInv /\ PartsInUseAreEnabled
  BY DEF Init, InboxInv, PartsInUseAreEnabled, NewMailbox, NewPlan
<1>8. ReadersMissNothing
  <2>1. \A S : Among(<< >>, S) = << >>
    <3> TAKE S
    <3> DEFINE e == << >>
    <3>1. e \in Seq(Nat) /\ Len(e) = 0 /\ SubSeq(e, 1, 0) = << >>
      OBVIOUS
    <3> HIDE DEF e
    <3>2. 0 \in 0..Len(e) /\ 1..0 = {} /\ (0 + 1)..Len(e) = {}
      BY <3>1
    <3>3. Among(e, S) = SubSeq(e, 1, 0)
      BY <3>1, <3>2, AmongPrefix
    <3> QED BY <3>1, <3>3 DEF e
  <2>2. Offsets(0) = << >>
    BY DEF Offsets
  <2> QED BY <2>1, <2>2 DEF Init, ReadersMissNothing, NewMailbox, NothingKnown
<1> QED BY <1>4, <1>5, <1>6, <1>7, <1>8 DEF IInv

(* The plan advances; a reflection that is not the one that changed it goes on. *)
LEMMA OthersGoOn ==
    ASSUME StateType, BridgeInv, plan' = plan \/ Advances(plan, plan'), NEW x \in Externals
    PROVE  ReflectInv(x, Disturbed(bridge[x]), plan')
<1>1. CASE bridge[x] = Quiet
  BY <1>1 DEF ReflectInv, Disturbed, Quiet
<1>2. CASE bridge[x] \in Reflection
  <2> DEFINE b == bridge[x]
             d == Disturbed(bridge[x])
  <2>1. b.pc # "quiet" /\ ReflectInv(x, b, plan) /\ b.snap.version \in Nat
    BY <1>2 DEF Reflection, Busy, BridgeInv
  <2>2. /\ d.pc = b.pc /\ d.task = b.task /\ d.status = b.status /\ d.snap = b.snap
        /\ d.alone = FALSE
    BY <1>2, <2>1 DEF Disturbed, Reflection
  <2>3. x # Nobody
    BY AgentsAssumption DEF Agents
  <2>4. plan.version \in Nat /\ (Advances(plan, plan') => plan'.version = plan.version + 1)
    BY TasksOfAPlan DEF StateType, Advances
  <2> HIDE DEF b, d
  <2>5. CASE Advances(plan, plan')
    <3>1. ReflectInv(x, d, plan')
      BY <2>1, <2>2, <2>3, <2>4, <2>5 DEF ReflectInv, Advances
    <3> QED BY <3>1 DEF d
  <2>6. CASE plan' = plan
    <3>1. ReflectInv(x, d, plan')
      BY <2>1, <2>2, <2>4, <2>6 DEF ReflectInv
    <3> QED BY <3>1 DEF d
  <2> QED BY <2>5, <2>6
<1> QED BY <1>1, <1>2 DEF StateType

LEMMA DisturbedType ==
    ASSUME StateType, NEW x \in Externals
    PROVE  Disturbed(bridge[x]) \in Reflection \cup {Quiet} /\ Disturbed(bridge[x]).pc = bridge[x].pc
<1>1. CASE bridge[x] = Quiet
  BY <1>1 DEF Disturbed, Quiet
<1>2. CASE bridge[x] \in Reflection
  BY <1>2 DEF Disturbed, Reflection, Busy
<1> QED BY <1>1, <1>2 DEF StateType

(* A tool call changes the plan. *)
LEMMA ToolStep ==
    ASSUME IInv, NEW a \in Locals, NEW p, GoodStep(plan, p), ChangesPlan(a, p)
    PROVE  IInv'
<1> USE DEF IInv, ChangesPlan, GoodStep
<1>1. plan' = p /\ PlanType(plan') /\ HadTheirTurn(plan') /\ Advances(plan, plan')
  OBVIOUS
<1>2. plan'.version \in Nat /\ plan'.tasks \in TaskMaps /\ plan.version \in Nat
  BY <1>1 DEF PlanType, TaskMaps, StateType
<1>3. known' = [known EXCEPT ![a] = [known[a] EXCEPT !.version = plan'.version, !.tasks = plan'.tasks]]
  BY <1>1 DEF Learn
<1>4. /\ known' \in [Locals -> Knowledge]
      /\ known'[a].version = plan'.version /\ known'[a].tasks = plan'.tasks
      /\ \A c \in Locals :
            /\ c # a => known'[c] = known[c]
            /\ known'[c].mailAt = known[c].mailAt /\ known'[c].mail = known[c].mail
            /\ known'[c].boardAt = known[c].boardAt /\ known'[c].board = known[c].board
  BY <1>2, <1>3 DEF StateType, Knowledge
<1>5. StateType'
  BY <1>1, <1>4, DisturbedType DEF StateType
<1>6. KnownInv'
  <2>1. \A c \in Locals : known[c].version \in Nat /\ known[c].version <= plan.version
    BY DEF KnownInv, StateType, Knowledge
  <2>2. plan'.version = plan.version + 1
    BY <1>1 DEF Advances
  <2> QED BY <1>2, <1>4, <2>1, <2>2 DEF KnownInv
<1>7. BridgeInv'
  BY <1>1, <1>5, OthersGoOn, DisturbedType DEF BridgeInv
<1>8. InboxInv' /\ CursorInv' /\ ReadersMissNothing' /\ PartsInUseAreEnabled'
  BY <1>4 DEF InboxInv, CursorInv, ReadersMissNothing, PartsInUseAreEnabled
<1> QED BY <1>1, <1>5, <1>6, <1>7, <1>8

LEMMA ReadPlanStep ==
    ASSUME IInv, NEW a \in Locals, plan_read(a)
    PROVE  IInv'
<1> USE DEF IInv, plan_read
<1>1. plan.version \in Nat /\ plan.tasks \in TaskMaps
  BY DEF PlanType, TaskMaps, StateType
<1>2. known' = [known EXCEPT ![a] = [known[a] EXCEPT !.version = plan.version, !.tasks = plan.tasks]]
  BY DEF Learn
<1>3. /\ known' \in [Locals -> Knowledge]
      /\ known'[a].version = plan.version /\ known'[a].tasks = plan.tasks
      /\ \A c \in Locals :
            /\ c # a => known'[c] = known[c]
            /\ known'[c].mailAt = known[c].mailAt /\ known'[c].mail = known[c].mail
            /\ known'[c].boardAt = known[c].boardAt /\ known'[c].board = known[c].board
  BY <1>1, <1>2 DEF StateType, Knowledge
<1>4. StateType' /\ HadTheirTurn(plan')
  BY <1>3 DEF StateType
<1>5. KnownInv'
  BY <1>1, <1>3 DEF KnownInv
<1>6. BridgeInv' /\ InboxInv' /\ CursorInv' /\ ReadersMissNothing' /\ PartsInUseAreEnabled'
  BY <1>3 DEF BridgeInv, InboxInv, CursorInv, ReadersMissNothing, PartsInUseAreEnabled
<1> QED BY <1>4, <1>5, <1>6

(* A post, by an agent or a bridge. *)
LEMMA PostStep ==
    ASSUME IInv, NEW who \in Agents, "blackboard" \in config, board' = Append(board, who),
           UNCHANGED <<config, plan, mail, bridge, known, restores>>
    PROVE  IInv'
<1> USE DEF IInv
<1>1. board' \in Seq(Agents) /\ Len(board') = Len(board) + 1 /\ Len(board) \in Nat
  BY DEF StateType
<1>2. StateType' /\ HadTheirTurn(plan')
  BY <1>1 DEF StateType
<1>3. KnownInv' /\ BridgeInv' /\ InboxInv' /\ ReadersMissNothing' /\ PartsInUseAreEnabled'
  BY DEF KnownInv, BridgeInv, InboxInv, ReadersMissNothing, PartsInUseAreEnabled
<1>4. CursorInv'
  BY <1>1 DEF CursorInv, StateType, Knowledge
<1> QED BY <1>2, <1>3, <1>4

(* Where the cursor of a reader cuts its inbox. *)
LEMMA Cut ==
    ASSUME NEW s \in Seq(Nat), NEW v \in Nat,
           \A i \in DOMAIN s : \A j \in DOMAIN s : i < j => s[i] < s[j]
    PROVE  \E k \in 0..Len(s) :
               /\ \A i \in 1..k : s[i] < v
               /\ \A i \in (k + 1)..Len(s) : s[i] >= v
<1> DEFINE T == {i \in 1..Len(s) : s[i] >= v} \cup {Len(s) + 1}
<1>1. T \subseteq Nat /\ T # {}
  OBVIOUS
<1>2. PICK m \in T : \A n \in T : m <= n
  BY <1>1, LeastNumber
<1>3. m \in 1..(Len(s) + 1) /\ m - 1 \in 0..Len(s) /\ (m - 1) + 1 = m
  BY <1>2
<1>4. \A i \in 1..(m - 1) : s[i] < v
  BY <1>2, <1>3
<1>5. ASSUME NEW i \in m..Len(s) PROVE s[i] >= v
  <2>1. m \in 1..Len(s) /\ s[m] >= v /\ i \in 1..Len(s)
    BY <1>2, <1>3
  <2>2. DOMAIN s = 1..Len(s) /\ s[m] \in Nat /\ s[i] \in Nat
    BY <2>1
  <2>3. m = i \/ s[m] < s[i]
    BY <2>1, <2>2
  <2> QED BY <2>1, <2>2, <2>3
<1> QED BY <1>3, <1>4, <1>5

(* A message, from an agent or a bridge, gets a number no cursor has passed. *)
LEMMA SendStep ==
    ASSUME IInv, NEW to \in Locals, "mailbox" \in config, mail' = send(mail, to),
           UNCHANGED <<config, plan, board, bridge, known, restores>>
    PROVE  IInv'
<1> USE DEF IInv
<1>1. mail.next \in Nat /\ mail.inbox \in [Locals -> Seq(Nat)]
  BY DEF StateType
<1>2. mail' = [next |-> mail.next + 1, inbox |-> [mail.inbox EXCEPT ![to] = Append(mail.inbox[to], mail.next)]]
  BY DEF send
<1>3. /\ mail'.next = mail.next + 1
      /\ mail'.inbox[to] = Append(mail.inbox[to], mail.next)
      /\ \A c \in Locals \ {to} : mail'.inbox[c] = mail.inbox[c]
      /\ mail' \in [next: Nat, inbox: [Locals -> Seq(Nat)]]
  BY <1>1, <1>2
<1>4. StateType' /\ HadTheirTurn(plan')
  <2>1. /\ config' \subseteq Parts /\ PlanType(plan') /\ HadTheirTurn(plan')
    BY DEF StateType
  <2>2. /\ board' \in Seq(Agents) /\ bridge' \in [Externals -> Reflection \cup {Quiet}]
        /\ known' \in [Locals -> Knowledge] /\ restores' \in 0..MaxRestores
    BY DEF StateType
  <2> QED BY <1>3, <2>1, <2>2 DEF StateType
<1>5. KnownInv' /\ BridgeInv' /\ PartsInUseAreEnabled'
  BY DEF KnownInv, BridgeInv, PartsInUseAreEnabled
<1>6. CursorInv'
  <2>1. ASSUME NEW a \in Locals
        PROVE  known[a].mailAt <= mail'.next /\ known[a].boardAt <= Len(board)
    <3>1. known[a].mailAt <= mail.next /\ known[a].boardAt <= Len(board)
      BY DEF CursorInv
    <3>2. known[a].mailAt \in Nat
      BY DEF StateType, Knowledge
    <3>3. mail.next <= mail.next + 1 /\ known[a].mailAt <= mail.next + 1
      BY <1>1, <3>1, <3>2
    <3> QED BY <1>3, <3>1, <3>3
  <2> QED BY <2>1 DEF CursorInv
<1> DEFINE s == mail.inbox[to]
           t == mail'.inbox[to]
<1>7. /\ s \in Seq(Nat) /\ t \in Seq(Nat) /\ Len(t) = Len(s) + 1 /\ Len(s) \in Nat
      /\ DOMAIN s = 1..Len(s) /\ DOMAIN t = 1..(Len(s) + 1)
      /\ t[Len(s) + 1] = mail.next /\ \A i \in 1..Len(s) : t[i] = s[i] /\ s[i] \in Nat
  <2>1. s \in Seq(Nat) /\ mail.next \in Nat /\ t = Append(s, mail.next)
    BY <1>1, <1>3
  <2> HIDE DEF s, t
  <2>2. /\ t \in Seq(Nat) /\ Len(t) = Len(s) + 1 /\ t[Len(s) + 1] = mail.next
        /\ \A i \in 1..Len(s) : t[i] = s[i]
    BY <2>1, AppendProperties
  <2>3. /\ Len(s) \in Nat /\ DOMAIN s = 1..Len(s) /\ \A i \in 1..Len(s) : s[i] \in Nat
        /\ DOMAIN t = 1..Len(t)
    BY <2>1, <2>2
  <2> QED BY <2>1, <2>2, <2>3
<1>8. /\ \A i \in DOMAIN s : s[i] < mail.next
      /\ \A i \in DOMAIN s : \A j \in DOMAIN s : i < j => s[i] < s[j]
  BY DEF InboxInv
<1>9. InboxInv'
  <2>1. ASSUME NEW i \in DOMAIN t
        PROVE  t[i] < mail'.next /\ \A j \in DOMAIN t : i < j => t[i] < t[j]
    <3> HIDE DEF s, t
    <3>1. CASE i = Len(s) + 1
      BY <1>1, <1>3, <1>7, <3>1
    <3>2. CASE i # Len(s) + 1
      <4>1. i \in DOMAIN s /\ t[i] = s[i] /\ s[i] < mail.next /\ s[i] \in Nat
        BY <1>7, <1>8, <3>2
      <4>2. ASSUME NEW j \in DOMAIN t, i < j PROVE t[i] < t[j]
        <5>1. CASE j = Len(s) + 1
          BY <1>7, <4>1, <5>1
        <5>2. CASE j # Len(s) + 1
          <6>1. j \in DOMAIN s /\ t[j] = s[j]
            BY <1>7, <4>2, <5>2
          <6> QED BY <1>8, <4>1, <4>2, <6>1
        <5> QED BY <5>1, <5>2
      <4> QED BY <1>1, <1>3, <4>1, <4>2
    <3> QED BY <3>1, <3>2
  <2>2. ASSUME NEW c \in Locals \ {to}, NEW i \in DOMAIN mail'.inbox[c]
        PROVE  mail'.inbox[c][i] < mail'.next
               /\ \A j \in DOMAIN mail'.inbox[c] : i < j => mail'.inbox[c][i] < mail'.inbox[c][j]
    <3>1. mail'.inbox[c] = mail.inbox[c]
      BY <1>3
    <3>2. i \in DOMAIN mail.inbox[c] /\ mail.inbox[c] \in Seq(Nat)
      BY <1>1, <2>2, <3>1
    <3>3. mail.inbox[c][i] \in Nat
      BY <3>2
    <3>4. /\ mail.inbox[c][i] < mail.next
          /\ \A j \in DOMAIN mail.inbox[c] : i < j => mail.inbox[c][i] < mail.inbox[c][j]
      BY <3>2 DEF InboxInv
    <3> QED BY <1>1, <1>3, <3>1, <3>3, <3>4
  <2>3. Len(s) + 1 \in DOMAIN t /\ t[Len(s) + 1] = mail'.next - 1
    BY <1>1, <1>3, <1>7
  <2> QED BY <2>1, <2>2, <2>3 DEF InboxInv
<1>10. ASSUME NEW c \in Locals PROVE known[c].mail = Among(mail'.inbox[c], Below(known[c].mailAt))
  <2> DEFINE v == known[c].mailAt
  <2>1. known[c].mail = Among(mail.inbox[c], Below(v)) /\ v \in Nat /\ v <= mail.next
    BY DEF ReadersMissNothing, CursorInv, StateType, Knowledge
  <2>2. CASE c # to
    BY <1>3, <2>1, <2>2
  <2>3. CASE c = to
    <3> HIDE DEF s, t, v
    <3>1. PICK k \in 0..Len(s) : (\A i \in 1..k : s[i] < v) /\ (\A i \in (k + 1)..Len(s) : s[i] >= v)
      BY <1>7, <1>8, <2>1, Cut
    <3>2. Among(s, Below(v)) = SubSeq(s, 1, k)
      <4>1. \A i \in 1..k : s[i] \in Below(v)
        BY <1>7, <3>1 DEF Below
      <4>2. \A i \in (k + 1)..Len(s) : s[i] \notin Below(v)
        BY <1>7, <2>1, <3>1 DEF Below
      <4> QED BY <1>7, <4>1, <4>2, AmongPrefix
    <3>3. Among(t, Below(v)) = SubSeq(t, 1, k)
      <4>1. \A i \in 1..k : t[i] \in Below(v)
        BY <1>7, <3>1 DEF Below
      <4>2. ASSUME NEW i \in (k + 1)..Len(t) PROVE t[i] \notin Below(v)
        <5>1. i \in (k + 1)..Len(s) \/ i = Len(s) + 1
          BY <1>7
        <5>2. t[i] \in Nat /\ t[i] >= v
          BY <1>1, <1>7, <2>1, <3>1, <5>1
        <5> QED BY <2>1, <5>2 DEF Below
      <4>3. k \in 0..Len(t)
        BY <1>7
      <4> QED BY <1>7, <4>1, <4>2, <4>3, AmongPrefix
    <3>4. SubSeq(t, 1, k) = SubSeq(s, 1, k)
      BY <1>7
    <3> QED BY <2>1, <2>3, <3>2, <3>3, <3>4 DEF s, t, v
  <2> QED BY <2>2, <2>3
<1>11. ReadersMissNothing'
  BY <1>10 DEF ReadersMissNothing
<1> QED BY <1>4, <1>5, <1>6, <1>9, <1>11

(* A page that is not empty is the first n entries, and leads behind them. *)
LEMMA Page ==
    ASSUME NEW entries \in Seq(Nat), NEW from \in Nat,
           format_read_page(entries, from).page # << >>
    PROVE  \E n \in 1..Len(entries) :
               /\ format_read_page(entries, from).page = SubSeq(entries, 1, n)
               /\ format_read_page(entries, from).next = entries[n] + 1
<1> DEFINE shown == IF Len(entries) < PageLimit THEN Len(entries) ELSE PageLimit
<1>1. shown \in 0..Len(entries)
  BY BoundsAssumption
<1>2. /\ format_read_page(entries, from).page = SubSeq(entries, 1, shown)
      /\ format_read_page(entries, from).next = IF shown = 0 THEN from ELSE entries[shown] + 1
  BY DEF format_read_page
<1> HIDE DEF shown
<1>3. shown # 0
  BY <1>2
<1> QED BY <1>1, <1>2, <1>3

(* The agent's cursor and collection after a read, and nothing else. *)
LEMMA MailReadStep ==
    ASSUME IInv, NEW a \in Locals, mailbox_read(a)
    PROVE  IInv'
<1> DEFINE v == known[a].mailAt
           s == mail.inbox[a]
           entries == mailbox_read_from(mail, a, v)
           read == format_read_page(entries, v)
<1>1. /\ read.page # << >> /\ UNCHANGED <<config, plan, mail, board, bridge, restores>>
      /\ known' = [known EXCEPT ![a] = [known[a] EXCEPT !.mailAt = read.next, !.mail = known[a].mail \o read.page]]
  BY DEF mailbox_read
<1>2. /\ s \in Seq(Nat) /\ v \in Nat /\ known[a].mail = Among(s, Below(v))
      /\ mail.next \in Nat /\ known[a].mail \in Seq(Nat)
  BY DEF IInv, StateType, Knowledge, ReadersMissNothing
<1>3. /\ \A i \in DOMAIN s : s[i] < mail.next
      /\ \A i \in DOMAIN s : \A j \in DOMAIN s : i < j => s[i] < s[j]
  BY DEF IInv, InboxInv
<1>4. entries = Among(s, {n \in Nat : n >= v})
  BY DEF mailbox_read_from
<1> HIDE DEF v, s, entries, read
<1>5. PICK k \in 0..Len(s) : (\A i \in 1..k : s[i] < v) /\ (\A i \in (k + 1)..Len(s) : s[i] >= v)
  BY <1>2, <1>3, Cut
<1>6. DOMAIN s = 1..Len(s) /\ Len(s) \in Nat /\ \A i \in 1..Len(s) : s[i] \in Nat
  BY <1>2
<1>7. known[a].mail = SubSeq(s, 1, k)
  <2>1. \A i \in 1..k : s[i] \in Below(v)
    BY <1>5, <1>6 DEF Below
  <2>2. \A i \in (k + 1)..Len(s) : s[i] \notin Below(v)
    BY <1>2, <1>5, <1>6 DEF Below
  <2> QED BY <1>2, <2>1, <2>2, AmongPrefix
<1>8. entries = SubSeq(s, k + 1, Len(s))
  <2> DEFINE S == {n \in Nat : n >= v}
  <2>1. \A i \in 1..k : s[i] \notin S
    BY <1>2, <1>5, <1>6
  <2>2. \A i \in (k + 1)..Len(s) : s[i] \in S
    BY <1>5, <1>6
  <2> HIDE DEF S
  <2>3. Among(s, S) = SubSeq(s, k + 1, Len(s))
    BY <1>2, <2>1, <2>2, AmongSuffix
  <2> QED BY <1>4, <2>3 DEF S
<1>9. entries \in Seq(Nat) /\ Len(entries) = Len(s) - k /\ \A i \in 1..(Len(s) - k) : entries[i] = s[k + i]
  <2>1. k + 1 \in Int /\ Len(s) \in Int /\ \A i \in (k + 1)..Len(s) : s[i] \in Nat
    BY <1>6
  <2>2. /\ SubSeq(s, k + 1, Len(s)) \in Seq(Nat)
        /\ Len(SubSeq(s, k + 1, Len(s))) = IF k + 1 <= Len(s) THEN Len(s) - (k + 1) + 1 ELSE 0
        /\ \A i \in 1..(Len(s) - (k + 1) + 1) : SubSeq(s, k + 1, Len(s))[i] = s[k + 1 + i - 1]
    BY <2>1, SubSeqProperties
  <2>3. \A i \in 1..(Len(s) - k) : entries[i] = s[k + i]
    BY <1>6, <1>8, <2>2
  <2>4. k + 1 <= Len(s) \/ Len(s) - k = 0
    <3> DEFINE l == Len(s)
    <3>1. l \in Nat /\ k \in Nat /\ k <= l
      BY <1>6
    <3> HIDE DEF l
    <3>2. k + 1 <= l \/ l = k
      BY <3>1
    <3> QED BY <3>1, <3>2 DEF l
  <2>5. Len(s) - (k + 1) + 1 = Len(s) - k
    BY <1>6
  <2> QED BY <1>8, <2>2, <2>3, <2>4, <2>5
<1>10. PICK n \in 1..Len(entries) : read.page = SubSeq(entries, 1, n) /\ read.next = entries[n] + 1
  BY <1>1, <1>2, <1>9, Page DEF read
<1>11. k + n \in 1..Len(s) /\ entries[n] = s[k + n] /\ read.next = s[k + n] + 1
  BY <1>6, <1>9, <1>10
<1>12. read.page = SubSeq(s, k + 1, k + n)
  <2> DEFINE q == read.page
             r == SubSeq(s, k + 1, k + n)
  <2>1. read.page \in Seq(Nat) /\ Len(read.page) = n /\ \A i \in 1..n : read.page[i] = s[k + i]
    <3>1. /\ Len(entries) \in Nat /\ n \in Int /\ 1 \in Int /\ 1 <= n
          /\ \A i \in 1..n : entries[i] \in Nat /\ entries[i] = s[k + i]
      BY <1>6, <1>9, <1>10
    <3>2. /\ SubSeq(entries, 1, n) \in Seq(Nat)
          /\ Len(SubSeq(entries, 1, n)) = IF 1 <= n THEN n - 1 + 1 ELSE 0
          /\ \A i \in 1..(n - 1 + 1) : SubSeq(entries, 1, n)[i] = entries[1 + i - 1]
      BY <3>1, SubSeqProperties
    <3>3. n - 1 + 1 = n /\ \A i \in 1..n : 1 + i - 1 = i
      BY <3>1
    <3> QED BY <1>10, <3>1, <3>2, <3>3
  <2>2. /\ SubSeq(s, k + 1, k + n) \in Seq(Nat) /\ Len(SubSeq(s, k + 1, k + n)) = n
        /\ \A i \in 1..n : SubSeq(s, k + 1, k + n)[i] = s[k + i]
    <3> DEFINE from == k + 1
               to == k + n
    <3>1. /\ from \in Int /\ to \in Int /\ from <= to /\ to - from + 1 = n
          /\ \A i \in 1..n : from + i - 1 = k + i
      BY <1>6, <1>9, <1>10, <1>11
    <3>2. \A i \in from..to : s[i] \in Nat
      BY <1>6, <1>9, <1>10, <1>11
    <3> HIDE DEF from, to
    <3>3. /\ SubSeq(s, from, to) \in Seq(Nat)
          /\ Len(SubSeq(s, from, to)) = IF from <= to THEN to - from + 1 ELSE 0
          /\ \A i \in 1..(to - from + 1) : SubSeq(s, from, to)[i] = s[from + i - 1]
      BY <3>1, <3>2, SubSeqProperties
    <3>4. /\ SubSeq(s, from, to) \in Seq(Nat) /\ Len(SubSeq(s, from, to)) = n
          /\ \A i \in 1..n : SubSeq(s, from, to)[i] = s[k + i]
      BY <3>1, <3>3
    <3> QED BY <3>4 DEF from, to
  <2>3. Len(q) = Len(r) /\ \A i \in 1..Len(q) : q[i] = r[i]
    BY <2>1, <2>2
  <2> HIDE DEF q, r
  <2>4. q \in Seq(Nat) /\ r \in Seq(Nat)
    BY <2>1, <2>2 DEF q, r
  <2>5. q = r
    BY <2>3, <2>4, SeqEqual
  <2> QED BY <2>5 DEF q, r
<1>13. known[a].mail \o read.page = SubSeq(s, 1, k + n)
  <2>1. SubSeq(s, 1, k) \o SubSeq(s, k + 1, k + n) = SubSeq(s, 1, k + n)
    <3>1. 1 \in 1..(Len(s) + 1) /\ k \in (1 - 1)..Len(s) /\ k + n \in k..Len(s)
      BY <1>6, <1>11
    <3> QED BY <1>2, <3>1, ConcatAdjacentSubSeq
  <2> QED BY <1>7, <1>12, <2>1
<1>14. read.next \in Nat /\ read.next <= mail.next
  <2>1. s[k + n] < mail.next /\ s[k + n] \in Nat
    BY <1>3, <1>6, <1>11
  <2> QED BY <1>2, <1>11, <2>1
<1>15. SubSeq(s, 1, k + n) = Among(s, Below(read.next))
  <2>1. ASSUME NEW i \in 1..(k + n) PROVE s[i] \in Below(read.next)
    <3>1. i = k + n \/ s[i] < s[k + n]
      BY <1>3, <1>6, <1>11
    <3>2. i \in 1..Len(s)
      BY <1>6, <1>11
    <3> QED BY <1>6, <1>11, <3>1, <3>2 DEF Below
  <2>2. ASSUME NEW i \in (k + n + 1)..Len(s) PROVE s[i] \notin Below(read.next)
    <3>1. i \in 1..Len(s) /\ k + n < i
      BY <1>6, <1>11
    <3>2. s[k + n] < s[i]
      BY <1>3, <1>6, <1>11, <3>1
    <3> QED BY <1>6, <1>11, <3>1, <3>2 DEF Below
  <2>3. k + n \in 0..Len(s)
    BY <1>6, <1>11
  <2> QED BY <1>2, <2>1, <2>2, <2>3, AmongPrefix
<1>16. known[a].mail \o read.page \in Seq(Nat)
  BY <1>2, <1>6, <1>11, <1>13
<1>17. /\ known' \in [Locals -> Knowledge]
       /\ known'[a].mailAt = read.next /\ known'[a].mail = known[a].mail \o read.page
       /\ \A c \in Locals :
             /\ c # a => known'[c] = known[c]
             /\ known'[c].version = known[c].version /\ known'[c].tasks = known[c].tasks
             /\ known'[c].boardAt = known[c].boardAt /\ known'[c].board = known[c].board
  BY <1>1, <1>14, <1>16 DEF IInv, StateType, Knowledge
<1>18. StateType' /\ HadTheirTurn(plan') /\ CursorInv'
  BY <1>1, <1>14, <1>17 DEF IInv, StateType, CursorInv
<1>19. KnownInv' /\ BridgeInv' /\ InboxInv' /\ PartsInUseAreEnabled'
  BY <1>1, <1>17 DEF IInv, KnownInv, BridgeInv, InboxInv, PartsInUseAreEnabled
<1>20. ReadersMissNothing'
  <2>1. known'[a].mail = Among(mail'.inbox[a], Below(known'[a].mailAt))
    BY <1>1, <1>13, <1>15, <1>17 DEF s
  <2> QED BY <1>1, <1>17, <2>1 DEF IInv, ReadersMissNothing
<1> QED BY <1>18, <1>19, <1>20 DEF IInv

LEMMA BoardReadStep ==
    ASSUME IInv, NEW a \in Locals, blackboard_read(a)
    PROVE  IInv'
<1> DEFINE v == known[a].boardAt
           entries == blackboard_read_from(board, v)
           read == format_read_page(entries, v)
<1>1. /\ read.page # << >> /\ UNCHANGED <<config, plan, mail, board, bridge, restores>>
      /\ known' = [known EXCEPT ![a] = [known[a] EXCEPT !.boardAt = read.next, !.board = known[a].board \o read.page]]
  BY DEF blackboard_read
<1>2. v \in Nat /\ v <= Len(board) /\ Len(board) \in Nat /\ known[a].board = Offsets(v)
  BY DEF IInv, StateType, Knowledge, ReadersMissNothing, CursorInv
<1>3. entries = [i \in 1..(Len(board) - v) |-> v + i - 1]
  BY DEF blackboard_read_from
<1> HIDE DEF v, entries, read
<1>4. entries \in Seq(Nat) /\ Len(entries) = Len(board) - v
  BY <1>2, <1>3
<1>5. PICK n \in 1..Len(entries) : read.page = SubSeq(entries, 1, n) /\ read.next = entries[n] + 1
  BY <1>1, <1>2, <1>4, Page DEF read
<1>6. read.next = v + n /\ v + n \in Nat /\ v + n <= Len(board) /\ n \in Nat
  BY <1>2, <1>3, <1>4, <1>5
<1>7. read.page = [i \in 1..n |-> v + i - 1]
  BY <1>2, <1>3, <1>4, <1>5
<1>8. Offsets(v) \o read.page = Offsets(v + n) /\ Offsets(v + n) \in Seq(Nat)
  BY <1>2, <1>6, <1>7 DEF Offsets
<1>9. /\ known' \in [Locals -> Knowledge]
      /\ known'[a].boardAt = v + n /\ known'[a].board = Offsets(v + n)
      /\ \A c \in Locals :
            /\ c # a => known'[c] = known[c]
            /\ known'[c].version = known[c].version /\ known'[c].tasks = known[c].tasks
            /\ known'[c].mailAt = known[c].mailAt /\ known'[c].mail = known[c].mail
  BY <1>1, <1>2, <1>6, <1>8 DEF IInv, StateType, Knowledge
<1>10. StateType' /\ HadTheirTurn(plan') /\ CursorInv'
  BY <1>1, <1>6, <1>9 DEF IInv, StateType, CursorInv
<1>11. KnownInv' /\ BridgeInv' /\ InboxInv' /\ PartsInUseAreEnabled'
  BY <1>1, <1>9 DEF IInv, KnownInv, BridgeInv, InboxInv, PartsInUseAreEnabled
<1>12. ReadersMissNothing'
  <2>1. ASSUME NEW c \in Locals
        PROVE  /\ known'[c].mail = Among(mail.inbox[c], Below(known'[c].mailAt))
               /\ known'[c].board = Offsets(known'[c].boardAt)
    <3>1. /\ known[c].mail = Among(mail.inbox[c], Below(known[c].mailAt))
          /\ known[c].board = Offsets(known[c].boardAt)
      BY DEF IInv, ReadersMissNothing
    <3> QED BY <1>9, <3>1
  <2> QED BY <1>1, <2>1 DEF ReadersMissNothing
<1> QED BY <1>10, <1>11, <1>12 DEF IInv

-----------------------------------------------------------------------------
(***************************************************************************)
(* The bridge.                                                             *)
(***************************************************************************)

(* A step of a reflection that only looks at the plan. *)
LEMMA LookStep ==
    ASSUME IInv, NEW x \in Externals, NEW b \in Reflection \cup {Quiet},
           To(x, b), UNCHANGED plan, Unread, ReflectInv(x, b, plan), "plan" \in config
    PROVE  IInv'
<1> USE DEF IInv, Unread
<1>1. /\ bridge' \in [Externals -> Reflection \cup {Quiet}]
      /\ bridge'[x] = b /\ \A y \in Externals \ {x} : bridge'[y] = bridge[y]
  BY DEF To, StateType
<1>2. StateType' /\ HadTheirTurn(plan')
  BY <1>1 DEF StateType
<1>3. BridgeInv'
  BY <1>1 DEF BridgeInv
<1>4. KnownInv' /\ InboxInv' /\ CursorInv' /\ ReadersMissNothing' /\ PartsInUseAreEnabled'
  BY DEF KnownInv, InboxInv, CursorInv, ReadersMissNothing, PartsInUseAreEnabled
<1> QED BY <1>2, <1>3, <1>4

(* A step of a reflection that works on the plan. *)
LEMMA WorkStep ==
    ASSUME IInv, NEW x \in Externals, NEW b \in Reflection \cup {Quiet},
           Change(x, b), plan' = plan \/ GoodStep(plan, plan'), Unread,
           ReflectInv(x, b, plan'), "plan" \in config
    PROVE  IInv'
<1> USE DEF IInv, Unread, GoodStep
<1>1. /\ bridge' \in [Externals -> Reflection \cup {Quiet}]
      /\ bridge'[x] = b /\ \A y \in Externals \ {x} : bridge'[y] = Disturbed(bridge[y])
  BY DisturbedType DEF Change, StateType
<1>2. PlanType(plan') /\ HadTheirTurn(plan') /\ (plan' = plan \/ Advances(plan, plan'))
  BY DEF StateType
<1>3. StateType'
  BY <1>1, <1>2 DEF StateType
<1>4. BridgeInv'
  BY <1>1, <1>2, OthersGoOn DEF BridgeInv
<1>5. KnownInv'
  <2>1. plan.version \in Nat /\ \A c \in Locals : known[c].version \in Nat
    BY DEF StateType, PlanType, Knowledge
  <2>2. plan' = plan \/ plan'.version = plan.version + 1
    BY <1>2 DEF Advances
  <2> QED BY <2>1, <2>2 DEF KnownInv
<1>6. InboxInv' /\ CursorInv' /\ ReadersMissNothing' /\ PartsInUseAreEnabled'
  BY DEF InboxInv, CursorInv, ReadersMissNothing, PartsInUseAreEnabled
<1> QED BY <1>2, <1>3, <1>4, <1>5, <1>6

LEMMA AtWork ==
    ASSUME IInv, NEW x \in Externals, bridge[x].pc # "quiet"
    PROVE  /\ bridge[x] \in Reflection /\ "plan" \in config
           /\ ReflectInv(x, bridge[x], plan)
           /\ x \in Agents /\ x # Nobody
           /\ plan \in [version: Nat, order: Seq(Tasks), tasks: TaskMaps]
BY AgentsAssumption DEF IInv, StateType, BridgeInv, Quiet, Agents, PlanType, TaskMaps

LEMMA QuietIsQuiet == \A x, p : Quiet.pc = "quiet" /\ ReflectInv(x, Quiet, p)
BY DEF Quiet, ReflectInv

LEMMA AbsorbStep ==
    ASSUME IInv, NEW x \in Externals, absorb_task(x)
    PROVE  IInv'
<1>1. PICK t \in Tasks, s \in Statuses :
          To(x, [pc |-> "look", task |-> t, status |-> s, snap |-> NewPlan, alone |-> TRUE])
  BY DEF absorb_task
<1> DEFINE b == [pc |-> "look", task |-> t, status |-> s, snap |-> NewPlan, alone |-> TRUE]
<1>2. NewPlan \in [version: Nat, order: Seq(Tasks), tasks: TaskMaps] /\ NewPlan.version = 0
  <2>1. << >> \in [{} -> TaskRecord]
    OBVIOUS
  <2>2. << >> \in TaskMaps
    BY <2>1 DEF TaskMaps
  <2> QED BY <2>2 DEF NewPlan
<1>3. b \in Reflection
  BY <1>2 DEF Reflection, Busy
<1>4. ReflectInv(x, b, plan)
  BY <1>2 DEF ReflectInv, IInv, StateType, PlanType
<1>5. UNCHANGED plan /\ Unread /\ "plan" \in config
  BY DEF absorb_task
<1> HIDE DEF b
<1> QED BY <1>1, <1>3, <1>4, <1>5, LookStep DEF b

LEMMA ReflectLookStep ==
    ASSUME IInv, NEW x \in Externals, ReflectLook(x)
    PROVE  IInv'
<1> DEFINE pc == IF bridge[x].task \in DOMAIN plan.tasks THEN "read" ELSE "add"
           b == [bridge[x] EXCEPT !.pc = pc]
<1>1. To(x, b) /\ UNCHANGED plan /\ Unread /\ bridge[x].pc = "look"
  BY DEF ReflectLook, BridgeAt
<1>2. bridge[x] \in Reflection /\ "plan" \in config /\ ReflectInv(x, bridge[x], plan)
  BY <1>1, AtWork
<1>3. b \in Reflection /\ b.pc = pc /\ b.task = bridge[x].task /\ b.snap = bridge[x].snap
  BY <1>2 DEF Reflection, Busy
<1> HIDE DEF b
<1>4. ReflectInv(x, b, plan)
  BY <1>1, <1>2, <1>3 DEF ReflectInv
<1> QED BY <1>1, <1>2, <1>3, <1>4, LookStep

LEMMA ReflectAddStep ==
    ASSUME IInv, NEW x \in Externals, ReflectAdd(x)
    PROVE  IInv'
<1> DEFINE b == [bridge[x] EXCEPT !.pc = "read"]
<1>1. /\ Change(x, b) /\ plan' = add_task(plan, bridge[x].task, {}) /\ Unread
      /\ bridge[x].pc = "add"
  BY DEF ReflectAdd, BridgeAt
<1>2. bridge[x] \in Reflection /\ "plan" \in config /\ ReflectInv(x, bridge[x], plan)
  BY <1>1, AtWork
<1>3. /\ b \in Reflection /\ b.pc = "read" /\ b.task = bridge[x].task /\ b.snap = bridge[x].snap
      /\ b.task \in Tasks /\ b.snap.version \in Nat
  BY <1>2 DEF Reflection, Busy
<1> HIDE DEF b
<1>4. plan' = plan \/ GoodStep(plan, plan')
  BY <1>1, <1>3, AddTask DEF IInv, StateType
<1>5. b.task \in DOMAIN plan'.tasks
  BY <1>1, <1>3 DEF add_task, AddAccepted, Put
<1>6. ReflectInv(x, b, plan')
  <2>1. plan.version \in Nat /\ (plan'.version = plan.version \/ plan'.version = plan.version + 1)
    BY <1>4 DEF IInv, StateType, PlanType, GoodStep, Advances
  <2> QED BY <1>1, <1>2, <1>3, <1>5, <2>1 DEF ReflectInv
<1> QED BY <1>1, <1>2, <1>3, <1>4, <1>6, WorkStep

LEMMA ReflectReadStep ==
    ASSUME IInv, NEW x \in Externals, ReflectRead(x)
    PROVE  IInv'
<1> DEFINE b == bridge[x]
           task == plan.tasks[b.task]
           c == [b EXCEPT !.pc = "claim", !.snap = plan]
           d == [b EXCEPT !.pc = "reread"]
<1>1. b.pc = "read" /\ UNCHANGED plan /\ Unread
  BY DEF ReflectRead, BridgeAt
<1>2. \/ To(x, Quiet)
      \/ task.owner = x /\ To(x, d)
      \/ task.owner = Nobody /\ To(x, c)
  BY DEF ReflectRead
<1>3. /\ b \in Reflection /\ "plan" \in config /\ ReflectInv(x, b, plan)
      /\ plan \in [version: Nat, order: Seq(Tasks), tasks: TaskMaps]
  BY <1>1, AtWork
<1>4. c \in Reflection /\ c.pc = "claim" /\ c.snap = plan /\ c.task = b.task
  BY <1>3 DEF Reflection, Busy
<1>5. d \in Reflection /\ d.pc = "reread" /\ d.snap = b.snap /\ d.task = b.task
  BY <1>3 DEF Reflection, Busy
<1> HIDE DEF b, c, d
<1>6. CASE To(x, Quiet)
  BY <1>1, <1>3, <1>6, QuietIsQuiet, LookStep
<1>7. CASE task.owner = x /\ To(x, d)
  <2>1. ReflectInv(x, d, plan)
    BY <1>1, <1>3, <1>5, <1>7 DEF ReflectInv
  <2> QED BY <1>1, <1>3, <1>5, <1>7, <2>1, LookStep
<1>8. CASE task.owner = Nobody /\ To(x, c)
  <2>1. ReflectInv(x, c, plan)
    BY <1>1, <1>3, <1>4, <1>8 DEF ReflectInv
  <2> QED BY <1>1, <1>3, <1>4, <1>8, <2>1, LookStep
<1> QED BY <1>2, <1>6, <1>7, <1>8

LEMMA ReflectClaimStep ==
    ASSUME IInv, NEW x \in Externals, ReflectClaim(x)
    PROVE  IInv'
<1> DEFINE b == bridge[x]
           d == [b EXCEPT !.pc = "reread"]
<1>1. /\ b.pc = "claim" /\ Unread /\ plan' = claim(plan, b.task, x, b.snap.version)
      /\ Change(x, IF plan' = plan THEN Quiet ELSE d)
  BY DEF ReflectClaim, BridgeAt
<1>2. b \in Reflection /\ "plan" \in config /\ ReflectInv(x, b, plan) /\ x \in Agents
  BY <1>1, AtWork
<1>3. /\ d \in Reflection /\ d.pc = "reread" /\ d.snap = b.snap /\ d.task = b.task
      /\ b.task \in Tasks /\ b.snap.version \in Nat
  BY <1>2 DEF Reflection, Busy
<1> HIDE DEF b, d
<1>4. plan' # plan => /\ ClaimAccepted(plan, b.task, x, b.snap.version)
                      /\ GoodStep(plan, plan') /\ plan'.tasks[b.task].owner = x
  BY <1>1, <1>2, <1>3, Claim DEF IInv, StateType
<1>5. CASE plan' = plan
  BY <1>1, <1>2, <1>5, QuietIsQuiet, WorkStep
<1>6. CASE plan' # plan
  <2>1. plan.version \in Nat /\ plan'.version = plan.version + 1 /\ DOMAIN plan.tasks \subseteq DOMAIN plan'.tasks
    BY <1>4, <1>6 DEF IInv, StateType, PlanType, GoodStep, Advances
  <2>2. ReflectInv(x, d, plan')
    BY <1>1, <1>2, <1>3, <1>4, <1>6, <2>1 DEF ReflectInv
  <2> QED BY <1>1, <1>2, <1>3, <1>4, <1>6, <2>2, WorkStep
<1> QED BY <1>5, <1>6

LEMMA ReflectRereadStep ==
    ASSUME IInv, NEW x \in Externals, ReflectReread(x)
    PROVE  IInv'
<1> DEFINE b == bridge[x]
           now == plan.tasks[b.task].status
           c == [b EXCEPT !.pc = "update", !.snap = plan]
<1>1. b.pc = "reread" /\ UNCHANGED plan /\ Unread
  BY DEF ReflectReread, BridgeAt
<1>2. To(x, Quiet) \/ (can_transition_to(now, b.status) /\ To(x, c))
  BY DEF ReflectReread
<1>3. /\ b \in Reflection /\ "plan" \in config /\ ReflectInv(x, b, plan)
      /\ plan \in [version: Nat, order: Seq(Tasks), tasks: TaskMaps]
  BY <1>1, AtWork
<1>4. c \in Reflection /\ c.pc = "update" /\ c.snap = plan /\ c.task = b.task /\ c.status = b.status
  BY <1>3 DEF Reflection, Busy
<1> HIDE DEF b, c
<1>5. CASE To(x, Quiet)
  BY <1>1, <1>3, <1>5, QuietIsQuiet, LookStep
<1>6. CASE can_transition_to(now, b.status) /\ To(x, c)
  <2>1. ReflectInv(x, c, plan)
    BY <1>1, <1>3, <1>4, <1>6 DEF ReflectInv
  <2> QED BY <1>1, <1>3, <1>4, <1>6, <2>1, LookStep
<1> QED BY <1>2, <1>5, <1>6

LEMMA ReflectUpdateStep ==
    ASSUME IInv, NEW x \in Externals, ReflectUpdate(x)
    PROVE  IInv'
<1> DEFINE b == bridge[x]
<1>1. /\ b.pc = "update" /\ Unread /\ Change(x, Quiet)
      /\ plan' = update_status(plan, b.task, x, b.status, b.snap.version)
  BY DEF ReflectUpdate, BridgeAt
<1>2. b \in Reflection /\ "plan" \in config /\ x \in Agents
  BY <1>1, AtWork
<1>3. b.task \in Tasks /\ b.status \in Statuses
  BY <1>2 DEF Reflection
<1> HIDE DEF b
<1>4. plan' = plan \/ GoodStep(plan, plan')
  BY <1>1, <1>2, <1>3, UpdateStatus DEF IInv, StateType
<1> QED BY <1>1, <1>2, <1>4, QuietIsQuiet, WorkStep

-----------------------------------------------------------------------------
(***************************************************************************)
(* A restart, and the whole next-state relation.                           *)
(***************************************************************************)

(* The next number is found again, also when the snapshot does not have it. *)
LEMMA SnapshotKeepsMail ==
    ASSUME IInv, NEW stored \in {mail.next, 0}
    PROVE  mailbox_from_snapshot([mail EXCEPT !.next = stored]) = mail
<1> DEFINE m == [mail EXCEPT !.next = stored]
           seqs == UNION {{m.inbox[a][i] : i \in DOMAIN m.inbox[a]} : a \in Locals}
           top == CHOOSE n \in seqs : \A k \in seqs : k <= n
           next == IF seqs = {} THEN m.next ELSE IF m.next > top THEN m.next ELSE top + 1
<1>1. mail \in [next: Nat, inbox: [Locals -> Seq(Nat)]] /\ mail.next \in Nat
  BY DEF IInv, StateType
<1>2. m.inbox = mail.inbox /\ m.next = stored /\ m \in [next: Nat, inbox: [Locals -> Seq(Nat)]]
  BY <1>1
<1>3. mailbox_from_snapshot(m) = [m EXCEPT !.next = next]
  BY DEF mailbox_from_snapshot
<1> HIDE DEF m
<1>4. \A n \in seqs : n \in Nat /\ n < mail.next
  BY <1>1, <1>2 DEF IInv, InboxInv
<1>5. mail.next > 0 => mail.next - 1 \in seqs
  <2> SUFFICES ASSUME mail.next > 0 PROVE mail.next - 1 \in seqs
    OBVIOUS
  <2>1. PICK a \in Locals : \E i \in DOMAIN mail.inbox[a] : mail.inbox[a][i] = mail.next - 1
    BY DEF IInv, InboxInv
  <2>2. PICK i \in DOMAIN mail.inbox[a] : mail.inbox[a][i] = mail.next - 1
    BY <2>1
  <2> QED BY <1>2, <2>2
<1> HIDE DEF seqs
<1>6. next = mail.next
  <2>1. CASE seqs = {}
    BY <1>1, <1>2, <1>5, <2>1
  <2>2. CASE seqs # {}
    <3>1. mail.next > 0
      BY <1>1, <1>4, <2>2
    <3>2. mail.next - 1 \in seqs /\ \A k \in seqs : k <= mail.next - 1
      BY <1>1, <1>4, <1>5, <3>1
    <3>3. top \in seqs /\ \A k \in seqs : k <= top
      BY <3>2
    <3> HIDE DEF top
    <3>4. top = mail.next - 1
      BY <1>1, <1>4, <3>2, <3>3
    <3> QED BY <1>1, <1>2, <2>2, <3>1, <3>4
  <2> QED BY <2>1, <2>2
<1> HIDE DEF next
<1>7. [m EXCEPT !.next = mail.next] = mail
  BY <1>1, <1>2 DEF m
<1> QED BY <1>3, <1>6, <1>7 DEF m

LEMMA RestoreStep ==
    ASSUME IInv, restore
    PROVE  IInv'
<1>1. PICK given \in Configs, stored \in {mail.next, 0} :
          /\ config' = RestoredConfig(given, config)
          /\ mail' = mailbox_from_snapshot([mail EXCEPT !.next = stored])
  BY DEF restore
<1>2. mail' = mail
  BY <1>1, SnapshotKeepsMail
<1>3. /\ config' \subseteq Parts
      /\ \A part \in config : part # "artifacts" => part \in config'
  BY <1>1, ConfigsAssumption DEF RestoredConfig, IInv, StateType
<1>4. UNCHANGED <<plan, board, bridge, known>> /\ restores' \in 0..MaxRestores
  BY BoundsAssumption DEF restore, IInv, StateType
<1>5. StateType' /\ HadTheirTurn(plan')
  BY <1>2, <1>3, <1>4 DEF IInv, StateType
<1>6. KnownInv' /\ BridgeInv' /\ InboxInv' /\ CursorInv' /\ ReadersMissNothing'
  BY <1>2, <1>3, <1>4 DEF IInv, KnownInv, BridgeInv, InboxInv, CursorInv, ReadersMissNothing
<1>7. PartsInUseAreEnabled'
  BY <1>2, <1>3, <1>4 DEF IInv, PartsInUseAreEnabled
<1> QED BY <1>5, <1>6, <1>7 DEF IInv

(* Whatever tool a local agent calls on the plan, the plan advances. *)
LEMMA ByToolStep ==
    ASSUME IInv, NEW a \in Locals, ByTool(a)
    PROVE  \E p : GoodStep(plan, p) /\ ChangesPlan(a, p)
<1>1. PlanType(plan) /\ HadTheirTurn(plan) /\ a \in Agents
  BY DEF IInv, StateType, Agents
<1>2. \A p : ChangesPlan(a, p) => p # plan
  BY DEF ChangesPlan
<1>3. CASE plan_add_task(a)
  BY <1>1, <1>2, <1>3, AddTask DEF plan_add_task
<1>4. CASE plan_claim(a)
  BY <1>1, <1>2, <1>4, Claim DEF plan_claim
<1>5. CASE plan_claim_first_available(a)
  BY <1>1, <1>2, <1>5, ClaimFirstAvailable DEF plan_claim_first_available
<1>6. CASE plan_update(a)
  BY <1>1, <1>2, <1>6, UpdateStatus DEF plan_update
<1> QED BY <1>3, <1>4, <1>5, <1>6 DEF ByTool

LEMMA NextIInv == IInv /\ [Next]_vars => IInv'
<1> SUFFICES ASSUME IInv, [Next]_vars PROVE IInv'
  OBVIOUS
<1>1. ASSUME NEW a \in Locals, ByTool(a) PROVE IInv'
  BY <1>1, ByToolStep, ToolStep
<1>2. ASSUME NEW a \in Locals, plan_read(a) PROVE IInv'
  BY <1>2, ReadPlanStep
<1>3. ASSUME NEW a \in Locals, blackboard_post(a) PROVE IInv'
  <2>1. /\ a \in Agents /\ "blackboard" \in config /\ board' = Append(board, a)
        /\ UNCHANGED <<config, plan, mail, bridge, known, restores>>
    BY <1>3 DEF blackboard_post, Agents
  <2> QED BY <2>1, PostStep
<1>4. ASSUME NEW a \in Locals, blackboard_read(a) PROVE IInv'
  BY <1>4, BoardReadStep
<1>5. ASSUME NEW a \in Locals, send_message(a) PROVE IInv'
  <2>1. PICK to \in Locals : mail' = send(mail, to)
    BY <1>5 DEF send_message
  <2>2. "mailbox" \in config /\ UNCHANGED <<config, plan, board, bridge, known, restores>>
    BY <1>5 DEF send_message
  <2> QED BY <2>1, <2>2, SendStep
<1>6. ASSUME NEW a \in Locals, mailbox_read(a) PROVE IInv'
  BY <1>6, MailReadStep
<1>7. ASSUME NEW x \in Externals, absorb_message(x) PROVE IInv'
  <2>1. PICK to \in Locals : mail' = send(mail, to)
    BY <1>7 DEF absorb_message
  <2>2. "mailbox" \in config /\ UNCHANGED <<config, plan, board, bridge, known, restores>>
    BY <1>7 DEF absorb_message
  <2> QED BY <2>1, <2>2, SendStep
<1>8. ASSUME NEW x \in Externals, absorb_post(x) PROVE IInv'
  <2>1. /\ x \in Agents /\ "blackboard" \in config /\ board' = Append(board, x)
        /\ UNCHANGED <<config, plan, mail, bridge, known, restores>>
    BY <1>8 DEF absorb_post, Agents
  <2> QED BY <2>1, PostStep
<1>9. ASSUME NEW x \in Externals,
             \/ absorb_task(x) \/ ReflectLook(x) \/ ReflectAdd(x) \/ ReflectRead(x)
             \/ ReflectClaim(x) \/ ReflectReread(x) \/ ReflectUpdate(x)
      PROVE  IInv'
  BY <1>9, AbsorbStep, ReflectLookStep, ReflectAddStep, ReflectReadStep, ReflectClaimStep,
     ReflectRereadStep, ReflectUpdateStep
<1>10. CASE restore
  BY <1>10, RestoreStep
<1>11. CASE UNCHANGED vars
  BY <1>11 DEF vars, IInv, StateType, KnownInv, BridgeInv, InboxInv, CursorInv,
     ReadersMissNothing, PartsInUseAreEnabled
<1> QED BY <1>1, <1>2, <1>3, <1>4, <1>5, <1>6, <1>7, <1>8, <1>9, <1>10, <1>11 DEF Next

(* A step that is no restart leaves the plan alone or advances it. *)
LEMMA PlanStep ==
    ASSUME IInv, [Next]_vars
    PROVE  plan' = plan \/ GoodStep(plan, plan')
<1>1. ASSUME NEW a \in Locals, ByTool(a) PROVE GoodStep(plan, plan')
  BY <1>1, ByToolStep DEF ChangesPlan
<1>2. ASSUME NEW x \in Externals, ReflectAdd(x) PROVE plan' = plan \/ GoodStep(plan, plan')
  <2>1. bridge[x] \in Reflection
    BY <1>2, AtWork DEF ReflectAdd, BridgeAt
  <2>2. bridge[x].task \in Tasks
    BY <2>1 DEF Reflection
  <2> QED BY <1>2, <2>2, AddTask DEF ReflectAdd, IInv, StateType
<1>3. ASSUME NEW x \in Externals, ReflectClaim(x) PROVE plan' = plan \/ GoodStep(plan, plan')
  <2>1. bridge[x] \in Reflection /\ x \in Agents
    BY <1>3, AtWork DEF ReflectClaim, BridgeAt
  <2>2. bridge[x].task \in Tasks
    BY <2>1 DEF Reflection
  <2> QED BY <1>3, <2>1, <2>2, Claim DEF ReflectClaim, IInv, StateType
<1>4. ASSUME NEW x \in Externals, ReflectUpdate(x) PROVE plan' = plan \/ GoodStep(plan, plan')
  <2>1. bridge[x] \in Reflection /\ x \in Agents
    BY <1>4, AtWork DEF ReflectUpdate, BridgeAt
  <2>2. bridge[x].task \in Tasks /\ bridge[x].status \in Statuses
    BY <2>1 DEF Reflection
  <2> QED BY <1>4, <2>1, <2>2, UpdateStatus DEF ReflectUpdate, IInv, StateType
<1>5. ASSUME NEW a \in Locals,
             \/ plan_read(a) \/ blackboard_post(a) \/ blackboard_read(a)
             \/ send_message(a) \/ mailbox_read(a)
      PROVE  plan' = plan
  BY <1>5 DEF plan_read, blackboard_post, blackboard_read, send_message, mailbox_read
<1>6. ASSUME NEW x \in Externals,
             \/ absorb_message(x) \/ absorb_post(x) \/ absorb_task(x)
             \/ ReflectLook(x) \/ ReflectRead(x) \/ ReflectReread(x)
      PROVE  plan' = plan
  BY <1>6 DEF absorb_message, absorb_post, absorb_task, ReflectLook, ReflectRead, ReflectReread
<1>7. restore \/ UNCHANGED vars => plan' = plan
  BY DEF restore, vars
<1> QED BY <1>1, <1>2, <1>3, <1>4, <1>5, <1>6, <1>7 DEF Next

-----------------------------------------------------------------------------
(***************************************************************************)
(* Theorems.                                                               *)
(***************************************************************************)
LEMMA Correct == Spec => []IInv
<1>1. Init => IInv
  BY InitIInv
<1>2. IInv /\ [Next]_vars => IInv'
  BY NextIInv
<1> QED BY <1>1, <1>2, PTL DEF Spec

(* Claims by version check and under the mutex respect the order of the plan, *)
(* and whoever holds the plan's version holds the plan (Plan::claim,          *)
(* claim_first_available, CollabBridge::reflect_plan_update).                 *)
THEOREM PlanCorrect == Spec => []PlanInv
<1>1. IInv => PlanInv
  <2> SUFFICES ASSUME IInv PROVE PlanInv
    OBVIOUS
  <2>1. /\ plan.version \in Nat /\ DOMAIN plan.tasks \subseteq Tasks
        /\ \A t \in DOMAIN plan.tasks : plan.tasks[t] \in TaskRecord
    BY TasksOfAPlan DEF IInv, StateType
  <2>2. \A x \in Externals :
            bridge[x].pc \in {"quiet", "look", "add", "read", "claim", "reread", "update"}
    BY DEF IInv, StateType, Reflection, Busy, Quiet
  <2>3. TypeOK
    BY <2>1, <2>2 DEF TypeOK, IInv, StateType, PlanType, TaskRecord
  <2>4. OwnedTasksHadTheirTurn
    BY DEF OwnedTasksHadTheirTurn, IInv, HadTheirTurn
  <2>5. VersionIdentifiesPlan
    BY DEF VersionIdentifiesPlan, IInv, KnownInv, BridgeInv, ReflectInv
  <2> QED BY <2>3, <2>4, <2>5 DEF PlanInv
<1> QED BY <1>1, Correct, PTL

(* Readers miss nothing and get nothing twice, page by page, over restarts   *)
(* and with or without the stored number (Mailbox::from_snapshot, read_from, *)
(* format_read_page), and what is in use stays enabled.                      *)
THEOREM MessagesCorrect == Spec => []MessageInv
<1>1. IInv => MessageInv
  BY DEF IInv, MessageInv
<1> QED BY <1>1, Correct, PTL

(* Nobody loses a task to another agent and no task that is over comes back, *)
(* whatever agents and bridges do on stale versions (claim, update_status).  *)
THEOREM OwnershipCorrect == Spec => NobodyTakesATaskOver
<1>1. IInv /\ [Next]_vars =>
        [restores' = restores =>
            \A t \in DOMAIN plan.tasks :
                /\ plan.tasks[t].owner # Nobody => plan'.tasks[t].owner = plan.tasks[t].owner
                /\ plan.tasks[t].status \in Final => plan'.tasks[t].status = plan.tasks[t].status]_vars
  BY PlanStep DEF GoodStep, Advances
<1> QED BY <1>1, Correct, PTL DEF Spec, NobodyTakesATaskOver

(* A reflection that is alone with the plan ends with the plan saying what    *)
(* was reported, in whichever of its rounds under the mutex it ends, or with  *)
(* one of four reasons why the plan may not say so (reflect_plan_update).     *)
THEOREM ReportsCorrect == Spec => ReportsReachThePlan
<1> DEFINE Reached(x) ==
               \/ plan'.tasks[bridge[x].task].status = bridge[x].status
               \/ plan.tasks[bridge[x].task].status \in Final
               \/ plan.tasks[bridge[x].task].owner \notin {x, Nobody}
               \/ unfinished_dependencies(plan, plan.tasks[bridge[x].task].deps) # {}
               \/ /\ plan.tasks[bridge[x].task].owner = x
                  /\ ~can_transition_to(plan.tasks[bridge[x].task].status, bridge[x].status)
<1>1. ASSUME IInv, [Next]_vars, NEW x \in Externals,
             bridge[x].pc # "quiet", bridge[x].alone, bridge'[x].pc = "quiet"
      PROVE  Reached(x)
  <2> DEFINE b == bridge[x]
  <2>1. /\ b \in Reflection /\ ReflectInv(x, b, plan) /\ x \in Agents /\ x # Nobody
        /\ PlanType(plan)
    BY <1>1, AtWork DEF IInv, StateType
  <2>2. /\ b.pc \in {"claim", "update"} => b.snap.version = plan.version
        /\ b.pc \in {"read", "claim", "reread", "update"} =>
              b.task \in DOMAIN plan.tasks /\ plan.tasks[b.task] \in TaskRecord
        /\ b.task \in Tasks /\ b.status \in Statuses
    BY <1>1, <2>1, TasksOfAPlan DEF ReflectInv, Reflection
  <2>3. ReflectRead(x) \/ ReflectClaim(x) \/ ReflectReread(x) \/ ReflectUpdate(x)
    <3>1. ASSUME NEW a \in Locals, ByTool(a) PROVE FALSE
      <4>1. bridge'[x] = Disturbed(b)
        BY <3>1, ByToolStep, <1>1 DEF ChangesPlan
      <4> QED BY <1>1, <4>1, DisturbedType DEF IInv
    <3>2. ASSUME bridge' = bridge PROVE FALSE
      BY <1>1, <3>2
    <3>3. ASSUME NEW y \in Externals, NEW d, y # x, To(y, d) PROVE FALSE
      BY <1>1, <3>3 DEF To, IInv, StateType
    <3>4. ASSUME NEW y \in Externals, NEW d, y # x, Change(y, d) PROVE FALSE
      BY <1>1, <3>4, DisturbedType DEF Change, IInv
    <3>5. ASSUME NEW y \in Externals,
                 \/ absorb_task(y) \/ ReflectLook(y)
                 \/ y # x /\ (ReflectRead(y) \/ ReflectReread(y))
          PROVE  FALSE
      <4>1. y # x
        <5>1. ~absorb_task(x)
          BY <1>1 DEF absorb_task, BridgeAt
        <5>2. ~ReflectLook(x)
          <6> SUFFICES ASSUME ReflectLook(x) PROVE FALSE
            OBVIOUS
          <6> DEFINE pc == IF b.task \in DOMAIN plan.tasks THEN "read" ELSE "add"
          <6>1. bridge' = [bridge EXCEPT ![x] = [b EXCEPT !.pc = pc]]
            BY DEF ReflectLook, To
          <6>2. bridge'[x] = [b EXCEPT !.pc = pc]
            BY <6>1, <1>1 DEF IInv, StateType
          <6>3. bridge'[x].pc = pc
            BY <6>2, <2>1 DEF Reflection
          <6> QED BY <6>3, <1>1
        <5> QED BY <3>5, <5>1, <5>2
      <4>2. \E d : To(y, d)
        BY <3>5 DEF absorb_task, ReflectLook, ReflectRead, ReflectReread
      <4> QED BY <3>3, <4>1, <4>2
    <3>6. ASSUME NEW y \in Externals, y # x, ReflectClaim(y) \/ ReflectUpdate(y)
          PROVE  FALSE
      <4>1. \E d : Change(y, d)
        BY <3>6 DEF ReflectClaim, ReflectUpdate
      <4> QED BY <3>4, <3>6, <4>1
    <3>7. ASSUME NEW y \in Externals, ReflectAdd(y) PROVE FALSE
      <4>1. y # x
        <5> SUFFICES ASSUME ReflectAdd(x) PROVE FALSE
          BY <3>7
        <5>1. bridge'[x] = [b EXCEPT !.pc = "read"]
          BY DEF ReflectAdd, Change
        <5>2. bridge'[x].pc = "read"
          BY <5>1, <2>1 DEF Reflection
        <5> QED BY <5>2, <1>1
      <4>2. \E d : Change(y, d)
        BY <3>7 DEF ReflectAdd
      <4> QED BY <3>4, <4>1, <4>2
    <3>8. ASSUME NEW a \in Locals,
                 \/ plan_read(a) \/ blackboard_post(a) \/ blackboard_read(a)
                 \/ send_message(a) \/ mailbox_read(a)
          PROVE  FALSE
      BY <3>2, <3>8 DEF plan_read, blackboard_post, blackboard_read, send_message, mailbox_read
    <3>9. ASSUME NEW y \in Externals, absorb_message(y) \/ absorb_post(y) PROVE FALSE
      BY <3>2, <3>9 DEF absorb_message, absorb_post
    <3>10. ~restore /\ ~UNCHANGED vars
      BY <3>2 DEF restore, vars
    <3> QED BY <1>1, <3>1, <3>5, <3>6, <3>7, <3>8, <3>9, <3>10 DEF Next
  <2>4. CASE ReflectClaim(x)
    <3> DEFINE d == [b EXCEPT !.pc = "reread"]
    <3>1. /\ b.pc = "claim" /\ plan' = claim(plan, b.task, x, b.snap.version)
          /\ bridge'[x] = IF plan' = plan THEN Quiet ELSE d
      BY <2>4 DEF ReflectClaim, BridgeAt, Change
    <3>2. d.pc = "reread"
      BY <2>1 DEF Reflection
    <3> HIDE DEF d
    <3>3. plan' = plan
      BY <1>1, <3>1, <3>2
    <3>4. ~ClaimAccepted(plan, b.task, x, b.snap.version)
      <4>1. PlanType(plan) /\ plan.version \in Nat
        BY <2>1 DEF PlanType
      <4>2. ClaimAccepted(plan, b.task, x, b.snap.version) => plan'.version = plan.version + 1
        BY <3>1 DEF claim, Put
      <4> QED BY <3>3, <4>1, <4>2
    <3>5. plan.tasks[b.task].owner = Nobody
      BY <2>1, <2>2, <3>1 DEF ReflectInv
    <3>8. /\ b.snap.version = plan.version /\ b.task \in DOMAIN plan.tasks
          /\ plan.tasks[b.task] \in TaskRecord
      BY <2>2, <3>1
    <3>6. \/ ~can_transition_to(plan.tasks[b.task].status, "InProgress")
          \/ unfinished_dependencies(plan, plan.tasks[b.task].deps) # {}
      BY <3>8, <3>4, <3>5 DEF ClaimAccepted
    <3>7. ~can_transition_to(plan.tasks[b.task].status, "InProgress") => plan.tasks[b.task].status \in Final
      BY <3>8 DEF can_transition_to, Final, TaskRecord, Statuses
    <3> QED BY <3>6, <3>7
  <2>5. CASE ReflectUpdate(x)
    <3>1. /\ b.pc = "update" /\ plan' = update_status(plan, b.task, x, b.status, b.snap.version)
      BY <2>5 DEF ReflectUpdate, BridgeAt
    <3>5. /\ b.snap.version = plan.version /\ b.task \in DOMAIN plan.tasks
          /\ plan.tasks[b.task] \in TaskRecord
      BY <2>2, <3>1
    <3>2. UpdateAccepted(plan, b.task, x, b.status, b.snap.version)
      BY <2>1, <3>5, <3>1 DEF UpdateAccepted, ReflectInv
    <3>3. plan' = Put(plan, b.task, [plan.tasks[b.task] EXCEPT !.status = b.status])
      BY <3>1, <3>2 DEF update_status
    <3>4. plan'.tasks[b.task].status = b.status
      BY <3>5, <3>3 DEF Put, TaskRecord
    <3> QED BY <3>4
  <2>6. CASE ReflectRead(x)
    <3> DEFINE task == plan.tasks[b.task]
    <3>1. b.pc = "read" /\ plan' = plan /\ b.task \in DOMAIN plan.tasks
      BY <2>2, <2>6 DEF ReflectRead, BridgeAt
    <3>2. CASE task.owner = Nobody
      <4>1. task.status = "Todo"
        BY <1>1, <3>1, <3>2 DEF IInv, HadTheirTurn
      <4>2. CASE b.status = "Todo"
        BY <3>1, <4>1, <4>2
      <4>3. CASE b.status # "Todo"
        <5>1. x # Nobody
          BY <2>1
        <5>2. To(x, [b EXCEPT !.pc = "claim", !.snap = plan])
          BY <2>6, <3>2, <4>1, <4>3, <5>1 DEF ReflectRead
        <5>3. bridge'[x] = [b EXCEPT !.pc = "claim", !.snap = plan]
          BY <5>2, <1>1 DEF To, IInv, StateType
        <5>4. bridge'[x].pc = "claim"
          BY <5>3, <2>1 DEF Reflection
        <5> QED BY <5>4, <1>1
      <4> QED BY <4>2, <4>3
    <3>3. CASE task.owner = x /\ task.status # b.status
      <4>1. To(x, [b EXCEPT !.pc = "reread"])
        BY <2>6, <3>3 DEF ReflectRead
      <4>2. bridge'[x] = [b EXCEPT !.pc = "reread"]
        BY <4>1, <1>1 DEF To, IInv, StateType
      <4>3. bridge'[x].pc = "reread"
        BY <4>2, <2>1 DEF Reflection
      <4> QED BY <4>3, <1>1
    <3> QED BY <3>1, <3>2, <3>3
  <2>7. CASE ReflectReread(x)
    <3> DEFINE now == plan.tasks[b.task].status
               c == [b EXCEPT !.pc = "update", !.snap = plan]
    <3>1. b.pc = "reread" /\ plan' = plan /\ plan.tasks[b.task].owner = x
      BY <2>1, <2>7 DEF ReflectReread, BridgeAt, ReflectInv
    <3>2. CASE now # b.status /\ can_transition_to(now, b.status)
      <4>1. To(x, c)
        BY <2>7, <3>2 DEF ReflectReread
      <4>2. bridge'[x] = c
        BY <4>1, <1>1 DEF To, IInv, StateType
      <4>3. bridge'[x].pc = "update"
        BY <4>2, <2>1 DEF Reflection
      <4> QED BY <4>3, <1>1
    <3> QED BY <3>1, <3>2
  <2> QED BY <2>3, <2>4, <2>5, <2>6, <2>7
<1>2. IInv /\ [Next]_vars =>
        [restores' = restores =>
            \A x \in Externals :
                LET task == plan.tasks[bridge[x].task]
                IN  bridge[x].pc # "quiet" /\ bridge[x].alone /\ bridge'[x].pc = "quiet" =>
                        \/ plan'.tasks[bridge[x].task].status = bridge[x].status
                        \/ task.status \in Final
                        \/ task.owner \notin {x, Nobody}
                        \/ unfinished_dependencies(plan, task.deps) # {}
                        \/ task.owner = x /\ ~can_transition_to(task.status, bridge[x].status)]_vars
  BY <1>1
<1> QED BY <1>2, Correct, PTL DEF Spec, ReportsReachThePlan
=============================================================================
