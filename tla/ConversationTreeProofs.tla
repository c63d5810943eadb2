----------------------- MODULE ConversationTreeProofs -----------------------
(***************************************************************************)
(* Conversations that fork, move their heads, commit, compact and restart  *)
(* keep to a parent chain of their own, and what they show the model of it *)
(* stands for exactly the active turns, for any number of conversations,   *)
(* turns, calls and artifacts.                                             *)
(*                                                                         *)
(* Every operation is a function from one conversation to another, so most *)
(* lemmas are about records: what holds of a conversation (Good) holds of  *)
(* the one that commit_draft, move_head, ForkOf, apply_compaction and      *)
(* restore_v1 make of it.  Before them come the folds these are built      *)
(* from, the index and the tilings; after them the state as a whole, with  *)
(* the token and the plan a caller kept (IInv).                            *)
(***************************************************************************)
EXTENDS ConversationTree, SequenceTheorems, NaturalsInduction, WellFoundedInduction, TLAPS

Indexes == [entries: Seq(CallIds), ends: Seq(Nat)]

(* The index is what push_turn makes of some of the first turns: each adds   *)
(* its call, if it has one, behind the entries of the turns before it.       *)
Indexed(x, turns) ==
    /\ Len(x.ends) <= Len(turns)
    /\ Len(x.entries) = entry_count_for_turns(x, Len(x.ends))
    /\ \A n \in 1..Len(x.ends) :
          IF turns[n].call = NoCall
          THEN x.ends[n] = entry_count_for_turns(x, n - 1)
          ELSE /\ x.ends[n] = entry_count_for_turns(x, n - 1) + 1
               /\ x.entries[x.ends[n]] = turns[n].call

-----------------------------------------------------------------------------
(***************************************************************************)
(* Numbers, and folds over sequences.                                      *)
(***************************************************************************)

(* Induction, as a fact about sets. *)
LEMMA Induction ==
    ASSUME NEW T, T \subseteq Nat, 0 \in T, \A n \in T : n + 1 \in T
    PROVE  T = Nat
<1> SUFFICES ASSUME Nat \ T # {} PROVE FALSE
  OBVIOUS
<1>1. IsWellFoundedOn(OpToRel(<, Nat), Nat)
  BY NatLessThanWellFounded, Zenon
<1>2. PICK m \in Nat \ T : \A n \in Nat \ T : ~(<<n, m>> \in OpToRel(<, Nat))
  <2>1. Nat \ T \subseteq Nat
    OBVIOUS
  <2> QED BY <1>1, <2>1, WFMin, Zenon
<1>3. \A n \in Nat \ T : ~(n < m)
  BY <1>2 DEF OpToRel
<1>4. m - 1 \in T
  BY <1>3
<1> QED BY <1>4

(* Induction up to a bound. *)
LEMMA BoundedInduction ==
    ASSUME NEW m \in Nat, NEW T, 0 \in T, \A n \in 0..(m - 1) : n \in T => n + 1 \in T
    PROVE  \A n \in 0..m : n \in T
<1> DEFINE U == {n \in Nat : n <= m => n \in T}
<1>1. 0 \in U
  OBVIOUS
<1>2. ASSUME NEW n \in U PROVE n + 1 \in U
  <2>1. CASE n + 1 <= m
    BY <2>1
  <2>2. CASE ~(n + 1 <= m)
    BY <2>2
  <2> QED BY <2>1, <2>2
<1>3. U \subseteq Nat
  OBVIOUS
<1>4. U = Nat
  <2> HIDE DEF U
  <2> QED BY <1>1, <1>2, <1>3, Induction
<1>5. ASSUME NEW n \in 0..m PROVE n \in T
  BY <1>4
<1> QED BY <1>5

(* The greatest number of a set of numbers up to n. *)
LEMMA MaxUpTo ==
    ASSUME NEW n \in Nat, NEW S \in SUBSET (1..n), S # {}
    PROVE  Max(S) \in S /\ \A y \in S : Max(S) >= y
<1> DEFINE P == {k \in Nat : \A R \in SUBSET (1..k) : R # {} =>
                                \E x \in R : \A y \in R : x >= y}
<1>1. 0 \in P
  <2>1. \A R \in SUBSET (1..0) : R = {}
    OBVIOUS
  <2> QED BY <2>1
<1>2. ASSUME NEW k \in P PROVE k + 1 \in P
  <2>1. k \in Nat /\ \A R \in SUBSET (1..k) : R # {} => \E x \in R : \A y \in R : x >= y
    OBVIOUS
  <2>2. ASSUME NEW R \in SUBSET (1..(k + 1)), R # {} PROVE \E x \in R : \A y \in R : x >= y
    <3>1. CASE k + 1 \in R
      BY <3>1, <2>1
    <3>2. CASE k + 1 \notin R
      <4>1. R \in SUBSET (1..k)
        BY <3>2, <2>1
      <4> QED BY <4>1, <2>1, <2>2
    <3> QED BY <3>1, <3>2
  <2> QED BY <2>1, <2>2
<1>3. P = Nat
  <2>1. P \subseteq Nat
    OBVIOUS
  <2> HIDE DEF P
  <2> QED BY <1>1, <1>2, <2>1, Induction
<1>4. \E x \in S : \A y \in S : x >= y
  <2>1. n \in P
    BY <1>3
  <2> QED BY <2>1
<1> QED BY <1>4 DEF Max

LEMMA MaxOfPrefix ==
    ASSUME NEW k \in Nat, k # 0
    PROVE  Max(1..k) = k /\ (1..k) \ {k} = 1..(k - 1) /\ 1..k # {}
<1>1. Max(1..k) \in 1..k /\ \A y \in 1..k : Max(1..k) >= y
  <2>1. 1..k \in SUBSET (1..k) /\ 1..k # {}
    OBVIOUS
  <2> QED BY <2>1, MaxUpTo
<1>2. Max(1..k) = k
  BY <1>1
<1>3. (1..k) \ {k} = 1..(k - 1)
  OBVIOUS
<1>4. k \in 1..k
  OBVIOUS
<1> QED BY <1>2, <1>3, <1>4

(* The recursive function inside a fold over a sequence t exists, for a step *)
(* that keeps to a set of values.                                            *)
FoldStep(f, G, b, t, s) ==
    IF s = {} THEN b ELSE G[<<f[s \ {Max(s)}], t[Max(s)]>>]

HasFold(V, G, b, t, k) ==
    \E f \in [SUBSET (1..k) -> V] : f = [s \in SUBSET (1..k) |-> FoldStep(f, G, b, t, s)]

LEMMA FoldExists ==
    ASSUME NEW V, NEW E, NEW G \in [V \X E -> V], NEW b \in V, NEW t \in Seq(E)
    PROVE  HasFold(V, G, b, t, Len(t))
<1> DEFINE P == {k \in Nat : k <= Len(t) => HasFold(V, G, b, t, k)}
<1>1. 0 \in P
  <2> DEFINE g == [s \in SUBSET (1..0) |-> b]
  <2>1. \A s \in SUBSET (1..0) : s = {}
    <3>1. 1..0 = {}
      OBVIOUS
    <3> QED BY <3>1, Zenon
  <2>2. g \in [SUBSET (1..0) -> V]
    OBVIOUS
  <2>3. g = [s \in SUBSET (1..0) |-> FoldStep(g, G, b, t, s)]
    BY <2>1 DEF FoldStep
  <2> HIDE DEF g
  <2> QED BY <2>2, <2>3 DEF HasFold
<1>2. ASSUME NEW k \in P PROVE k + 1 \in P
  <2> SUFFICES ASSUME k + 1 <= Len(t) PROVE HasFold(V, G, b, t, k + 1)
    OBVIOUS
  <2>1. k \in Nat /\ k + 1 \in Nat /\ k <= Len(t) /\ Len(t) \in Nat
    OBVIOUS
  <2>2. PICK f \in [SUBSET (1..k) -> V] :
            f = [s \in SUBSET (1..k) |-> FoldStep(f, G, b, t, s)]
    BY <2>1 DEF HasFold
  <2> HIDE DEF P
  <2> DEFINE h == [s \in SUBSET (1..(k + 1)) |->
                      IF k + 1 \in s THEN G[<<f[s \ {k + 1}], t[k + 1]>>] ELSE f[s]]
  <2>3. t[k + 1] \in E
    BY <2>1
  <2>4. ASSUME NEW s \in SUBSET (1..(k + 1))
        PROVE  s \ {k + 1} \in SUBSET (1..k) /\ (k + 1 \notin s => s \in SUBSET (1..k))
    BY <2>1
  <2>5. ASSUME NEW s \in SUBSET (1..(k + 1)) PROVE h[s] \in V
    BY <2>3, <2>4
  <2>6. h \in [SUBSET (1..(k + 1)) -> V]
    BY <2>5
  <2>7. \A s \in SUBSET (1..k) : h[s] = f[s]
    BY <2>1
  <2>8. ASSUME NEW s \in SUBSET (1..(k + 1)) PROVE h[s] = FoldStep(h, G, b, t, s)
    <3>1. CASE k + 1 \in s
      <4>1. Max(s) = k + 1
        <5>1. Max(s) \in s /\ \A y \in s : Max(s) >= y
          BY <3>1, <2>1, MaxUpTo
        <5>2. Max(s) \in 1..(k + 1) /\ Max(s) >= k + 1
          BY <5>1, <3>1, <2>1
        <5> HIDE DEF h
        <5> QED BY <5>2, <2>1
      <4>2. h[s] = G[<<f[s \ {k + 1}], t[k + 1]>>]
        BY <3>1
      <4>3. h[s \ {k + 1}] = f[s \ {k + 1}]
        BY <2>4, <2>7
      <4> HIDE DEF h
      <4> QED BY <3>1, <4>1, <4>2, <4>3 DEF FoldStep
    <3>2. CASE k + 1 \notin s
      <4>1. s \in SUBSET (1..k)
        BY <3>2, <2>4
      <4>2. h[s] = FoldStep(f, G, b, t, s)
        BY <4>1, <2>2, <2>7
      <4>3. s # {} => s \ {Max(s)} \in SUBSET (1..k)
        BY <4>1
      <4> HIDE DEF h
      <4> QED BY <4>2, <4>3, <2>7 DEF FoldStep
    <3> QED BY <3>1, <3>2
  <2>9. h = [s \in SUBSET (1..(k + 1)) |-> FoldStep(h, G, b, t, s)]
    BY <2>8
  <2> HIDE DEF h
  <2> QED BY <2>6, <2>9 DEF HasFold
<1>3. P = Nat
  <2>1. P \subseteq Nat
    OBVIOUS
  <2> HIDE DEF P
  <2> QED BY <1>1, <1>2, <2>1, Induction
<1>4. Len(t) \in Nat
  OBVIOUS
<1>5. Len(t) \in P
  <2> HIDE DEF P
  <2> QED BY <1>3, <1>4
<1> QED BY <1>4, <1>5

IsFold(V, E, G, b, t, f) ==
    /\ f \in [SUBSET (1..Len(t)) -> V]
    /\ f[{}] = b
    /\ \A s \in SUBSET (1..Len(t)) :
          s # {} => /\ f[s \ {Max(s)}] \in V /\ t[Max(s)] \in E
                    /\ f[s] = G[<<f[s \ {Max(s)}], t[Max(s)]>>]

LEMMA FoldFacts ==
    ASSUME NEW V, NEW E, NEW G \in [V \X E -> V], NEW b \in V, NEW t \in Seq(E)
    PROVE  \E f : IsFold(V, E, G, b, t, f)
<1> DEFINE n == Len(t)
<1>1. n \in Nat /\ DOMAIN t = 1..n /\ \A i \in 1..n : t[i] \in E
  OBVIOUS
<1>2. PICK f \in [SUBSET (1..n) -> V] : f = [s \in SUBSET (1..n) |-> FoldStep(f, G, b, t, s)]
  <2>1. HasFold(V, G, b, t, n)
    BY FoldExists, Zenon
  <2> QED BY <2>1, Zenon DEF HasFold
<1> HIDE DEF n
<1>3. f[{}] = b
  BY <1>2 DEF FoldStep
<1>4. ASSUME NEW s \in SUBSET (1..n), s # {}
      PROVE  /\ f[s \ {Max(s)}] \in V /\ t[Max(s)] \in E
             /\ f[s] = G[<<f[s \ {Max(s)}], t[Max(s)]>>]
  <2>1. Max(s) \in s /\ s \subseteq 1..n
    BY <1>1, <1>4, MaxUpTo
  <2>2. s \ {Max(s)} \in SUBSET (1..n) /\ Max(s) \in 1..n
    BY <2>1
  <2>3. f[s] = FoldStep(f, G, b, t, s)
    BY <1>2
  <2>4. f[s] = G[<<f[s \ {Max(s)}], t[Max(s)]>>]
    BY <1>4, <2>3 DEF FoldStep
  <2> QED BY <1>1, <1>2, <2>2, <2>4
<1> QED BY <1>2, <1>3, <1>4 DEF IsFold, n

LEMMA PrefixFacts ==
    ASSUME NEW n \in Nat
    PROVE  /\ {} \in SUBSET (1..n)
           /\ \A i \in 1..n : /\ Max(1..i) = i /\ (1..i) \ {Max(1..i)} = 1..(i - 1)
                               /\ 1..i # {} /\ 1..i \in SUBSET (1..n)
<1>1. {} \in SUBSET (1..n)
  OBVIOUS
<1>2. ASSUME NEW i \in 1..n
      PROVE  /\ Max(1..i) = i /\ (1..i) \ {Max(1..i)} = 1..(i - 1)
             /\ 1..i # {} /\ 1..i \in SUBSET (1..n)
  <2>1. i \in Nat /\ i # 0 /\ 1..i \in SUBSET (1..n)
    OBVIOUS
  <2>2. Max(1..i) = i /\ (1..i) \ {i} = 1..(i - 1) /\ 1..i # {}
    BY <2>1, MaxOfPrefix
  <2> QED BY <2>1, <2>2
<1> QED BY <1>1, <1>2

(* What every fold of this module comes to: its accumulator, element by      *)
(* element.                                                                  *)
Folding(V, G, b, t, f) ==
    /\ f[{}] = b
    /\ \A i \in 1..Len(t) : f[1..(i - 1)] \in V => f[1..i] = G[<<f[1..(i - 1)], t[i]>>]

Traced(V, G, b, t, end) ==
    \E g \in [0..Len(t) -> V] :
        /\ end = g[Len(t)]
        /\ g[0] = b
        /\ \A i \in 1..Len(t) : g[i] = G[<<g[i - 1], t[i]>>]

LEMMA FoldTrace ==
    ASSUME NEW V, NEW E, NEW G \in [V \X E -> V], NEW b \in V, NEW t \in Seq(E),
           NEW f, Folding(V, G, b, t, f)
    PROVE  Traced(V, G, b, t, f[1..Len(t)])
<1> USE DEF Folding, Traced
<1> DEFINE P == {i \in Nat : i <= Len(t) => f[1..i] \in V}
<1>1. Len(t) \in Nat
  OBVIOUS
<1>2. 0 \in P
  <2>1. 1..0 = {}
    OBVIOUS
  <2> QED BY <2>1
<1>3. ASSUME NEW i \in P PROVE i + 1 \in P
  <2>1. CASE i + 1 <= Len(t)
    <3>1. i + 1 \in 1..Len(t) /\ (i + 1) - 1 = i /\ i \in Nat /\ f[1..i] \in V
      BY <2>1, <1>1
    <3>2. t[i + 1] \in E
      BY <3>1
    <3>3. f[1..(i + 1)] = G[<<f[1..i], t[i + 1]>>]
      BY <3>1
    <3>4. f[1..(i + 1)] \in V
      BY <3>1, <3>2, <3>3
    <3> QED BY <3>1, <3>4
  <2>2. CASE ~(i + 1 <= Len(t))
    BY <2>2
  <2> QED BY <2>1, <2>2
<1>4. P = Nat
  <2>1. P \subseteq Nat
    OBVIOUS
  <2> HIDE DEF P
  <2> QED BY <1>2, <1>3, <2>1, Induction
<1>5. ASSUME NEW i \in 0..Len(t) PROVE f[1..i] \in V
  <2>1. i \in P /\ i <= Len(t)
    BY <1>1, <1>4
  <2> QED BY <2>1
<1> DEFINE g == [i \in 0..Len(t) |-> f[1..i]]
<1>6. g \in [0..Len(t) -> V]
  BY <1>5
<1>7. g[0] = b
  <2>1. 1..0 = {} /\ 0 \in 0..Len(t)
    BY <1>1
  <2> QED BY <2>1
<1>8. ASSUME NEW i \in 1..Len(t) PROVE g[i] = G[<<g[i - 1], t[i]>>]
  <2>1. i \in 0..Len(t) /\ i - 1 \in 0..Len(t)
    BY <1>1
  <2>2. f[1..(i - 1)] \in V
    BY <1>5, <2>1
  <2>3. f[1..i] = G[<<f[1..(i - 1)], t[i]>>]
    BY <2>2
  <2> QED BY <2>1, <2>3
<1>9. f[1..Len(t)] = g[Len(t)]
  BY <1>1
<1> HIDE DEF g
<1> QED BY <1>6, <1>7, <1>8, <1>9

-----------------------------------------------------------------------------
(***************************************************************************)
(* The index.                                                              *)
(***************************************************************************)
LEMMA PushTurnType ==
    ASSUME NEW x \in Indexes, NEW turn \in Turns
    PROVE  /\ push_turn(x, turn) \in Indexes
           /\ turn.call = NoCall => push_turn(x, turn).entries = x.entries
           /\ turn.call # NoCall => push_turn(x, turn).entries = Append(x.entries, turn.call)
           /\ push_turn(x, turn).ends = Append(x.ends, Len(push_turn(x, turn).entries))
<1> DEFINE added == turn_locations(turn)
<1> DEFINE now == x.entries \o added
<1>1. x.entries \in Seq(CallIds) /\ x.ends \in Seq(Nat)
  BY DEF Indexes
<1>2. turn.call \in CallIds \cup {NoCall}
  BY DEF Turns
<1>3. CASE turn.call = NoCall
  <2>1. now = x.entries
    BY <1>1, <1>3, ConcatEmptySeq DEF turn_locations
  <2>2. Append(x.ends, Len(now)) \in Seq(Nat)
    BY <1>1, <2>1
  <2>3. push_turn(x, turn) = [entries |-> now, ends |-> Append(x.ends, Len(now))]
    BY DEF push_turn
  <2> HIDE DEF now
  <2> QED BY <1>1, <1>3, <2>1, <2>2, <2>3 DEF Indexes
<1>4. CASE turn.call # NoCall
  <2>1. now = Append(x.entries, turn.call) /\ turn.call \in CallIds
    BY <1>1, <1>2, <1>4 DEF turn_locations
  <2>2. now \in Seq(CallIds)
    BY <1>1, <2>1
  <2> DEFINE k == Len(now)
  <2>3. k \in Nat
    BY <2>2
  <2>4. push_turn(x, turn) = [entries |-> now, ends |-> Append(x.ends, k)]
    BY DEF push_turn
  <2> HIDE DEF k
  <2>5. Append(x.ends, k) \in Seq(Nat)
    BY <1>1, <2>3
  <2>6. k = Len(now)
    BY DEF k
  <2> HIDE DEF now
  <2> QED BY <1>4, <2>1, <2>2, <2>4, <2>5, <2>6 DEF Indexes
<1> QED BY <1>3, <1>4

(* rebuild pushes one turn after the other. *)
LEMMA RebuildStepwise ==
    ASSUME NEW turns \in Seq(Turns)
    PROVE  \E g \in [0..Len(turns) -> Indexes] :
              /\ rebuild(turns) = g[Len(turns)]
              /\ g[0] = EmptyIndex
              /\ \A i \in 1..Len(turns) : g[i] = push_turn(g[i - 1], turns[i])
<1> DEFINE G == [p \in Indexes \X Turns |-> push_turn(p[1], p[2])]
<1>1. G \in [Indexes \X Turns -> Indexes]
  BY PushTurnType
<1>2. EmptyIndex \in Indexes
  BY DEF EmptyIndex, Indexes
<1> DEFINE n == Len(turns)
<1>3. DOMAIN turns = 1..n /\ n \in Nat /\ \A i \in 1..n : turns[i] \in Turns
  OBVIOUS
<1> DEFINE Iter(f) == [s \in SUBSET (1..n) |->
                          IF s = {} THEN EmptyIndex
                          ELSE push_turn(f[s \ {Max(s)}], turns[Max(s)])]
           h == CHOOSE x : x = Iter(x)
<1>4. PICK f : IsFold(Indexes, Turns, G, EmptyIndex, turns, f)
  <2> HIDE DEF G
  <2> QED BY <1>1, <1>2, FoldFacts, Zenon
<1>5. f = Iter(f)
  BY <1>4 DEF IsFold
<1>6. h = Iter(h)
  BY <1>5
<1>7. rebuild(turns) = h[1..n]
  BY <1>3 DEF rebuild, FoldLeft, MapThenFoldSet
<1> HIDE DEF h
<1>8. h[{}] = EmptyIndex /\ \A i \in 1..n : h[1..i] = push_turn(h[1..(i - 1)], turns[i])
  BY <1>3, <1>6, PrefixFacts
<1>9. Folding(Indexes, G, EmptyIndex, turns, h)
  BY <1>3, <1>8 DEF Folding
<1>10. Traced(Indexes, G, EmptyIndex, turns, rebuild(turns))
  <2> HIDE DEF G
  <2>1. Traced(Indexes, G, EmptyIndex, turns, h[1..n])
    BY <1>1, <1>2, <1>9, FoldTrace, Zenon
  <2> QED BY <2>1, <1>7, Zenon
<1>11. PICK g \in [0..n -> Indexes] :
          /\ rebuild(turns) = g[n]
          /\ g[0] = EmptyIndex
          /\ \A i \in 1..n : g[i] = G[<<g[i - 1], turns[i]>>]
  BY <1>10, Zenon DEF Traced
<1>12. ASSUME NEW i \in 1..n PROVE g[i] = push_turn(g[i - 1], turns[i])
  <2>1. g[i - 1] \in Indexes
    BY <1>3, <1>11
  <2> QED BY <2>1, <1>3, <1>11
<1> QED BY <1>11, <1>12

(* The counts grow with the turns and stay inside the entries. *)
LEMMA CountsGrow ==
    ASSUME NEW x \in Indexes, NEW turns \in Seq(Turns), Indexed(x, turns)
    PROVE  /\ Len(x.ends) \in Nat /\ Len(x.entries) \in Nat
           /\ \A n \in 0..Len(x.ends) :
                 /\ entry_count_for_turns(x, n) \in 0..Len(x.entries)
                 /\ \A m \in 0..n : entry_count_for_turns(x, m) <= entry_count_for_turns(x, n)
<1> DEFINE e(n) == entry_count_for_turns(x, n)
<1>1. x.ends \in Seq(Nat) /\ x.entries \in Seq(CallIds)
  BY DEF Indexes
<1>2. Len(x.ends) \in Nat /\ Len(x.entries) \in Nat
  BY <1>1
<1> DEFINE last == Len(x.ends)
<1>3. \A n \in 0..last : e(n) \in Nat
  BY <1>1, <1>2 DEF entry_count_for_turns
<1>4. \A n \in 0..(last - 1) : e(n) <= e(n + 1)
  <2> TAKE n \in 0..(last - 1)
  <2>1. n + 1 \in 1..last /\ (n + 1) - 1 = n /\ n \in 0..last
    BY <1>2
  <2>2. e(n + 1) = x.ends[n + 1] /\ e(n) \in Nat
    BY <2>1, <1>3 DEF entry_count_for_turns
  <2>3. x.ends[n + 1] = e(n) \/ x.ends[n + 1] = e(n) + 1
    BY <2>1 DEF Indexed
  <2> QED BY <2>2, <2>3
<1> HIDE DEF last, e
<1>5. last \in Nat
  BY <1>2 DEF last
<1> DEFINE P == {n \in 0..last : \A m \in 0..n : e(m) <= e(n)}
<1>6. 0 \in P
  BY <1>3, <1>5
<1>7. \A n \in 0..(last - 1) : n \in P => n + 1 \in P
  <2> SUFFICES ASSUME NEW n \in 0..(last - 1), n \in P, NEW m \in 0..(n + 1)
               PROVE  e(m) <= e(n + 1)
    BY <1>5
  <2>1. e(n) <= e(n + 1) /\ n \in 0..last /\ n + 1 \in 0..last /\ m \in 0..last
    BY <1>4, <1>5
  <2>2. e(m) \in Nat /\ e(n) \in Nat /\ e(n + 1) \in Nat
    BY <1>3, <2>1
  <2>3. CASE m = n + 1
    BY <2>2, <2>3
  <2>4. CASE m # n + 1
    <3>1. m \in 0..n
      BY <2>4
    <3> QED BY <2>1, <2>2, <3>1
  <2> QED BY <2>3, <2>4
<1>8. \A n \in 0..last : n \in P
  <2> HIDE DEF P
  <2> QED BY <1>5, <1>6, <1>7, BoundedInduction
<1>9. Len(x.entries) = e(last)
  BY DEF Indexed, last, e
<1>10. ASSUME NEW n \in 0..last
       PROVE  e(n) \in 0..Len(x.entries) /\ \A m \in 0..n : e(m) <= e(n)
  <2>1. e(n) <= e(last) /\ e(n) \in Nat
    BY <1>3, <1>5, <1>8
  <2> QED BY <1>8, <1>9, <2>1, <1>2
<1> QED BY <1>2, <1>10 DEF last, e

(* Every entry is the call of the turn whose count it is. *)
LEMMA EntryIsCall ==
    ASSUME NEW x \in Indexes, NEW turns \in Seq(Turns), Indexed(x, turns),
           NEW n \in 0..Len(x.ends), NEW k \in 1..entry_count_for_turns(x, n)
    PROVE  \E i \in 1..n : /\ turns[i].call # NoCall
                           /\ entry_count_for_turns(x, i) = k
                           /\ x.entries[k] = turns[i].call
<1> DEFINE e(i) == entry_count_for_turns(x, i)
           last == Len(x.ends)
           Found(j, i) == turns[i].call # NoCall /\ e(i) = j /\ x.entries[j] = turns[i].call
           P == {m \in 0..last : \A j \in 1..e(m) : \E i \in 1..m : Found(j, i)}
<1>1. last \in Nat /\ \A m \in 0..last : e(m) \in Nat
  BY CountsGrow
<1>2. 0 \in P
  BY <1>1 DEF entry_count_for_turns
<1>a. \A m \in 0..(last - 1) :
         /\ m + 1 \in 1..last /\ (m + 1) - 1 = m /\ m \in 0..last /\ m + 1 \in 0..last
         /\ m + 1 \in 1..(m + 1)
  <2> HIDE DEF last
  <2> QED BY <1>1
<1>3. \A m \in 0..(last - 1) : m \in P => m + 1 \in P
  <2> SUFFICES ASSUME NEW m \in 0..(last - 1), m \in P
               PROVE  \A j \in 1..e(m + 1) : \E i \in 1..(m + 1) : Found(j, i)
    <3> HIDE DEF last, e, Found
    <3> QED BY <1>a
  <2> TAKE j \in 1..e(m + 1)
  <2>1. /\ m + 1 \in 1..last /\ (m + 1) - 1 = m /\ m \in 0..last /\ m + 1 \in 0..last
        /\ m + 1 \in 1..(m + 1)
    BY <1>a
  <2>2. e(m) \in Nat /\ e(m + 1) \in Nat /\ e(m + 1) = x.ends[m + 1]
    BY <1>1, <2>1 DEF entry_count_for_turns
  <2>3. CASE j <= e(m)
    <3>1. j \in 1..e(m)
      BY <2>2, <2>3
    <3>2. PICK i \in 1..m : Found(j, i)
      BY <3>1
    <3>3. i \in 1..(m + 1)
      BY <1>1
    <3> HIDE DEF Found
    <3> QED BY <3>2, <3>3
  <2>4. CASE ~(j <= e(m))
    <3>1. turns[m + 1].call # NoCall /\ x.ends[m + 1] = e(m) + 1
          /\ x.entries[x.ends[m + 1]] = turns[m + 1].call
      BY <2>1, <2>2, <2>4 DEF Indexed
    <3>2. j = e(m + 1)
      BY <2>2, <2>4, <3>1
    <3> QED BY <2>1, <2>2, <3>1, <3>2
  <2> QED BY <2>3, <2>4
<1>4. n \in P
  <2> HIDE DEF P, last
  <2>1. \A m \in 0..last : m \in P
    BY <1>1, <1>2, <1>3, BoundedInduction
  <2> QED BY <2>1 DEF last
<1> QED BY <1>4

(* And the call of every indexed turn is an entry. *)
LEMMA CallIsEntry ==
    ASSUME NEW x \in Indexes, NEW turns \in Seq(Turns), Indexed(x, turns),
           NEW n \in 0..Len(x.ends), NEW i \in 1..n, turns[i].call # NoCall
    PROVE  /\ entry_count_for_turns(x, i) \in 1..entry_count_for_turns(x, n)
           /\ x.entries[entry_count_for_turns(x, i)] = turns[i].call
<1>1. /\ Len(x.ends) \in Nat
      /\ i \in 1..Len(x.ends) /\ i \in 0..n /\ i - 1 \in 0..Len(x.ends) /\ i # 0
  BY CountsGrow
<1>2. /\ entry_count_for_turns(x, i) <= entry_count_for_turns(x, n)
      /\ entry_count_for_turns(x, i - 1) \in Nat /\ entry_count_for_turns(x, n) \in Nat
  BY <1>1, CountsGrow
<1>3. /\ x.ends[i] = entry_count_for_turns(x, i - 1) + 1
      /\ x.entries[x.ends[i]] = turns[i].call
  BY <1>1 DEF Indexed
<1>4. entry_count_for_turns(x, i) = x.ends[i]
  BY <1>1 DEF entry_count_for_turns
<1> QED BY <1>2, <1>3, <1>4

(* Two indexes of lists that agree on the first n turns agree on them. *)
LEMMA IndexesAgree ==
    ASSUME NEW x \in Indexes, NEW turns \in Seq(Turns), Indexed(x, turns),
           NEW y \in Indexes, NEW others \in Seq(Turns), Indexed(y, others),
           NEW n \in Nat, n <= Len(x.ends), n <= Len(y.ends),
           \A i \in 1..n : turns[i] = others[i]
    PROVE  /\ entry_count_for_turns(x, n) = entry_count_for_turns(y, n)
           /\ \A k \in 1..entry_count_for_turns(x, n) : x.entries[k] = y.entries[k]
<1> DEFINE e(i) == entry_count_for_turns(x, i)
           d(i) == entry_count_for_turns(y, i)
           P == {m \in 0..n : e(m) = d(m) /\ \A k \in 1..e(m) : x.entries[k] = y.entries[k]}
<1>1. /\ \A m \in 0..n : e(m) \in Nat /\ d(m) \in Nat
      /\ Len(x.ends) \in Nat /\ Len(y.ends) \in Nat
  BY CountsGrow
<1>2. 0 \in P
  BY DEF entry_count_for_turns
<1>a. \A m \in 0..(n - 1) :
         /\ m + 1 \in 1..Len(x.ends) /\ m + 1 \in 1..Len(y.ends) /\ (m + 1) - 1 = m
         /\ m \in 0..n /\ m + 1 \in 0..n /\ m + 1 \in 1..n
  BY <1>1
<1>3. \A m \in 0..(n - 1) : m \in P => m + 1 \in P
  <2> SUFFICES ASSUME NEW m \in 0..(n - 1), m \in P PROVE m + 1 \in P
    OBVIOUS
  <2>1. /\ m + 1 \in 1..Len(x.ends) /\ m + 1 \in 1..Len(y.ends) /\ (m + 1) - 1 = m
        /\ m \in 0..n /\ m + 1 \in 0..n /\ m + 1 \in 1..n
    BY <1>a
  <2>2. e(m + 1) = x.ends[m + 1] /\ d(m + 1) = y.ends[m + 1]
    BY <2>1 DEF entry_count_for_turns
  <2>3. /\ e(m) = d(m) /\ e(m) \in Nat
        /\ \A k \in 1..e(m) : x.entries[k] = y.entries[k]
    BY <1>1, <2>1
  <2>4. turns[m + 1] = others[m + 1]
    BY <2>1
  <2>5. CASE turns[m + 1].call = NoCall
    <3>1. x.ends[m + 1] = e(m) /\ y.ends[m + 1] = d(m)
      BY <2>1, <2>4, <2>5 DEF Indexed
    <3> QED BY <2>1, <2>2, <2>3, <3>1
  <2>6. CASE turns[m + 1].call # NoCall
    <3>1. /\ x.ends[m + 1] = e(m) + 1 /\ y.ends[m + 1] = d(m) + 1
          /\ x.entries[x.ends[m + 1]] = turns[m + 1].call
          /\ y.entries[y.ends[m + 1]] = others[m + 1].call
      BY <2>1, <2>4, <2>6 DEF Indexed
    <3>2. e(m + 1) = d(m + 1) /\ e(m + 1) = e(m) + 1
      BY <2>2, <2>3, <3>1
    <3>3. ASSUME NEW k \in 1..e(m + 1) PROVE x.entries[k] = y.entries[k]
      <4>1. k \in 1..e(m) \/ k = e(m + 1)
        BY <2>3, <3>2
      <4>2. x.entries[e(m + 1)] = y.entries[e(m + 1)]
        BY <2>2, <2>4, <3>1, <3>2
      <4> QED BY <4>1, <4>2, <2>3
    <3> QED BY <2>1, <3>2, <3>3
  <2> QED BY <2>5, <2>6
<1>4. n \in P
  <2> HIDE DEF P
  <2>1. \A m \in 0..n : m \in P
    BY <1>2, <1>3, BoundedInduction
  <2> QED BY <2>1
<1> QED BY <1>4

(* Pushing the next turn keeps an index. *)
LEMMA PushKeepsIndexed ==
    ASSUME NEW x \in Indexes, NEW turns \in Seq(Turns), Indexed(x, turns),
           NEW others \in Seq(Turns), Len(x.ends) + 1 <= Len(others),
           \A i \in 1..Len(x.ends) : others[i] = turns[i]
    PROVE  /\ push_turn(x, others[Len(x.ends) + 1]) \in Indexes
           /\ Indexed(push_turn(x, others[Len(x.ends) + 1]), others)
           /\ Len(push_turn(x, others[Len(x.ends) + 1]).ends) = Len(x.ends) + 1
<1> DEFINE n == Len(x.ends)
           turn == others[n + 1]
           y == push_turn(x, turn)
<1>1. /\ n \in Nat /\ Len(x.entries) \in Nat /\ x.ends \in Seq(Nat) /\ x.entries \in Seq(CallIds)
      /\ \A m \in 0..n : entry_count_for_turns(x, m) \in 0..Len(x.entries)
      /\ entry_count_for_turns(x, n) = Len(x.entries)
  BY CountsGrow DEF Indexes, Indexed
<1> HIDE DEF n
<1>2. turn \in Turns
  BY <1>1 DEF n
<1> HIDE DEF turn
<1>3. /\ y \in Indexes
      /\ turn.call = NoCall => y.entries = x.entries
      /\ turn.call # NoCall => y.entries = Append(x.entries, turn.call)
      /\ y.ends = Append(x.ends, Len(y.entries))
  BY <1>2, PushTurnType
<1> HIDE DEF y
<1>4. y.entries \in Seq(CallIds) /\ Len(y.entries) \in Nat
  BY <1>3 DEF Indexes
<1>5. /\ Len(y.ends) = n + 1
      /\ y.ends[n + 1] = Len(y.entries)
      /\ \A i \in 1..n : y.ends[i] = x.ends[i]
  BY <1>1, <1>3, <1>4 DEF n
<1>6. \A m \in 0..n : entry_count_for_turns(y, m) = entry_count_for_turns(x, m)
  BY <1>1, <1>5 DEF entry_count_for_turns
<1>7. \A k \in 1..Len(x.entries) : y.entries[k] = x.entries[k]
  <2>1. CASE turn.call = NoCall
    BY <1>3, <2>1
  <2>2. CASE turn.call # NoCall
    <3>1. y.entries = Append(x.entries, turn.call)
      BY <1>3, <2>2
    <3>2. \A k \in 1..Len(x.entries) : Append(x.entries, turn.call)[k] = x.entries[k]
      BY <1>1
    <3> QED BY <3>1, <3>2
  <2> QED BY <2>1, <2>2
<1>8. entry_count_for_turns(y, n + 1) = Len(y.entries)
  BY <1>1, <1>5 DEF entry_count_for_turns
<1>9. ASSUME NEW i \in 1..(n + 1)
      PROVE  IF others[i].call = NoCall
             THEN y.ends[i] = entry_count_for_turns(y, i - 1)
             ELSE /\ y.ends[i] = entry_count_for_turns(y, i - 1) + 1
                  /\ y.entries[y.ends[i]] = others[i].call
  <2>1. CASE i = n + 1
    <3>1. (n + 1) - 1 = n /\ entry_count_for_turns(y, n) = Len(x.entries)
      BY <1>1, <1>6
    <3>2. CASE turn.call = NoCall
      BY <2>1, <3>1, <3>2, <1>3, <1>5 DEF turn
    <3>3. CASE turn.call # NoCall
      <4>1. Len(y.entries) = Len(x.entries) + 1 /\ y.entries[Len(x.entries) + 1] = turn.call
        BY <1>1, <1>3, <3>3
      <4> QED BY <2>1, <3>1, <3>3, <4>1, <1>5 DEF turn
    <3> QED BY <3>2, <3>3
  <2>2. CASE i # n + 1
    <3>1. i \in 1..n /\ i - 1 \in 0..n /\ others[i] = turns[i]
      <4>1. n \in Nat /\ \A j \in 1..n : others[j] = turns[j]
        BY <1>1 DEF n
      <4> QED BY <2>2, <4>1
    <3>2. IF turns[i].call = NoCall
          THEN x.ends[i] = entry_count_for_turns(x, i - 1)
          ELSE /\ x.ends[i] = entry_count_for_turns(x, i - 1) + 1
               /\ x.entries[x.ends[i]] = turns[i].call
      BY <3>1 DEF Indexed, n
    <3>3. x.ends[i] \in 0..Len(x.entries)
      <4>1. i \in 0..n /\ i # 0
        BY <3>1
      <4> QED BY <4>1, <1>1 DEF entry_count_for_turns
    <3>4. y.ends[i] = x.ends[i]
          /\ entry_count_for_turns(y, i - 1) = entry_count_for_turns(x, i - 1)
      BY <3>1, <1>5, <1>6
    <3>5. CASE turns[i].call = NoCall
      BY <3>1, <3>2, <3>4, <3>5
    <3>6. CASE turns[i].call # NoCall
      <4>1. /\ x.ends[i] = entry_count_for_turns(x, i - 1) + 1
            /\ x.entries[x.ends[i]] = turns[i].call
            /\ entry_count_for_turns(x, i - 1) \in Nat
        BY <3>1, <3>2, <3>6, <1>1
      <4>2. x.ends[i] \in 1..Len(x.entries)
        BY <3>3, <4>1, <1>1
      <4> QED BY <3>1, <3>4, <3>6, <4>1, <4>2, <1>7
    <3> QED BY <3>5, <3>6
  <2> QED BY <2>1, <2>2
<1>10. n + 1 <= Len(others)
  BY DEF n
<1>11. Indexed(y, others)
  BY <1>5, <1>8, <1>9, <1>10 DEF Indexed
<1> QED BY <1>3, <1>5, <1>11 DEF n, turn, y

(* An index cut at a turn is an index. *)
LEMMA PrefixKeepsIndexed ==
    ASSUME NEW x \in Indexes, NEW turns \in Seq(Turns), Indexed(x, turns), NEW n \in 0..Len(x.ends)
    PROVE  LET y == visible_prefix(x, n, entry_count_for_turns(x, n))
           IN  y \in Indexes /\ Indexed(y, turns) /\ Len(y.ends) = n
<1> DEFINE k == entry_count_for_turns(x, n)
           y == visible_prefix(x, n, k)
<1>1. /\ n \in Nat /\ Len(x.ends) \in Nat /\ n <= Len(x.ends)
      /\ Len(x.entries) \in Nat /\ x.ends \in Seq(Nat) /\ x.entries \in Seq(CallIds)
      /\ \A m \in 0..Len(x.ends) : entry_count_for_turns(x, m) \in 0..Len(x.entries)
      /\ \A m \in 0..n : entry_count_for_turns(x, m) <= k
      /\ k \in 0..Len(x.entries)
  BY CountsGrow DEF Indexes
<1> HIDE DEF k
<1>2. y.entries = SubSeq(x.entries, 1, k) /\ y.ends = SubSeq(x.ends, 1, n)
      /\ y = [entries |-> SubSeq(x.entries, 1, k), ends |-> SubSeq(x.ends, 1, n)]
  BY DEF visible_prefix
<1> HIDE DEF y
<1>3. /\ SubSeq(x.entries, 1, k) \in Seq(CallIds) /\ Len(SubSeq(x.entries, 1, k)) = k
      /\ \A i \in 1..k : SubSeq(x.entries, 1, k)[i] = x.entries[i]
  BY <1>1
<1>4. /\ SubSeq(x.ends, 1, n) \in Seq(Nat) /\ Len(SubSeq(x.ends, 1, n)) = n
      /\ \A i \in 1..n : SubSeq(x.ends, 1, n)[i] = x.ends[i]
  BY <1>1
<1>5. y \in Indexes
  BY <1>2, <1>3, <1>4 DEF Indexes
<1>6. \A m \in 0..n : entry_count_for_turns(y, m) = entry_count_for_turns(x, m)
  BY <1>1, <1>2, <1>4 DEF entry_count_for_turns
<1>7. Len(y.entries) = entry_count_for_turns(y, n)
  <2>1. Len(y.entries) = k
    BY <1>2, <1>3
  <2>2. entry_count_for_turns(y, n) = entry_count_for_turns(x, n)
    BY <1>1, <1>6
  <2> QED BY <2>1, <2>2 DEF k
<1>8. ASSUME NEW i \in 1..n
      PROVE  IF turns[i].call = NoCall
             THEN y.ends[i] = entry_count_for_turns(y, i - 1)
             ELSE /\ y.ends[i] = entry_count_for_turns(y, i - 1) + 1
                  /\ y.entries[y.ends[i]] = turns[i].call
  <2>1. i \in 1..Len(x.ends) /\ i \in 0..n /\ i # 0 /\ i - 1 \in 0..n
    BY <1>1
  <2>2. x.ends[i] = entry_count_for_turns(x, i) /\ x.ends[i] <= k
        /\ entry_count_for_turns(x, i - 1) \in Nat
    <3>1. entry_count_for_turns(x, i) <= k
      BY <1>1, <2>1
    <3>2. entry_count_for_turns(x, i - 1) \in 0..Len(x.entries)
      <4>1. i - 1 \in 0..Len(x.ends)
        BY <1>1, <2>1
      <4> QED BY <1>1, <4>1
    <3>3. x.ends[i] = entry_count_for_turns(x, i)
      BY <2>1 DEF entry_count_for_turns
    <3> QED BY <1>1, <3>1, <3>2, <3>3
  <2>3. y.ends[i] = x.ends[i] /\ entry_count_for_turns(y, i - 1) = entry_count_for_turns(x, i - 1)
    BY <1>2, <1>4, <1>6, <2>1
  <2>4. CASE turns[i].call = NoCall
    BY <2>1, <2>3, <2>4 DEF Indexed
  <2>5. CASE turns[i].call # NoCall
    <3>1. /\ x.ends[i] = entry_count_for_turns(x, i - 1) + 1
          /\ x.entries[x.ends[i]] = turns[i].call
      BY <2>1, <2>5 DEF Indexed
    <3>2. x.ends[i] \in 1..k
      BY <1>1, <2>2, <3>1
    <3>3. y.entries[x.ends[i]] = x.entries[x.ends[i]]
      BY <1>2, <1>3, <3>2
    <3> QED BY <2>3, <2>5, <3>1, <3>3
  <2> QED BY <2>4, <2>5
<1>9. Len(x.ends) <= Len(turns) /\ Len(turns) \in Nat
  BY DEF Indexed
<1>10. Len(y.ends) = n /\ n <= Len(turns)
  BY <1>1, <1>2, <1>4, <1>9
<1>11. Indexed(y, turns)
  BY <1>7, <1>8, <1>10 DEF Indexed
<1> QED BY <1>5, <1>10, <1>11 DEF y, k

(* The index only looks at the turns it has indexed. *)
LEMMA IndexedElsewhere ==
    ASSUME NEW x \in Indexes, NEW turns \in Seq(Turns), Indexed(x, turns),
           NEW others \in Seq(Turns), Len(x.ends) <= Len(others),
           \A i \in 1..Len(x.ends) : others[i] = turns[i]
    PROVE  Indexed(x, others)
BY DEF Indexed

(* rebuild indexes all turns it is given. *)
LEMMA RebuildIndexes ==
    ASSUME NEW turns \in Seq(Turns)
    PROVE  /\ rebuild(turns) \in Indexes /\ Indexed(rebuild(turns), turns)
           /\ Len(rebuild(turns).ends) = Len(turns)
<1> DEFINE n == Len(turns)
<1>1. PICK g \in [0..n -> Indexes] :
          /\ rebuild(turns) = g[n]
          /\ g[0] = EmptyIndex
          /\ \A i \in 1..n : g[i] = push_turn(g[i - 1], turns[i])
  BY RebuildStepwise
<1>2. n \in Nat
  OBVIOUS
<1> DEFINE P == {k \in 0..n : Indexed(g[k], turns) /\ Len(g[k].ends) = k}
<1>3. 0 \in P
  <2>1. EmptyIndex.ends = << >> /\ EmptyIndex.entries = << >>
    BY DEF EmptyIndex
  <2>2. Len(EmptyIndex.ends) = 0 /\ Len(EmptyIndex.entries) = 0
    BY <2>1
  <2>3. Indexed(EmptyIndex, turns)
    BY <1>2, <2>2 DEF Indexed, entry_count_for_turns
  <2> QED BY <1>1, <1>2, <2>2, <2>3
<1>4. \A k \in 0..(n - 1) : k \in P => k + 1 \in P
  <2> SUFFICES ASSUME NEW k \in 0..(n - 1), k \in P PROVE k + 1 \in P
    OBVIOUS
  <2>1. k + 1 \in 1..n /\ (k + 1) - 1 = k /\ k \in 0..n /\ k + 1 \in 0..n /\ k + 1 <= Len(turns)
    BY <1>2
  <2>2. g[k] \in Indexes /\ Indexed(g[k], turns) /\ Len(g[k].ends) = k
    BY <1>1, <2>1
  <2>3. g[k + 1] = push_turn(g[k], turns[k + 1])
    BY <1>1, <2>1
  <2>4. Indexed(push_turn(g[k], turns[k + 1]), turns) /\ Len(push_turn(g[k], turns[k + 1]).ends) = k + 1
    BY <2>1, <2>2, PushKeepsIndexed
  <2> QED BY <2>1, <2>3, <2>4
<1>5. n \in P
  <2> HIDE DEF P, n
  <2>1. \A k \in 0..n : k \in P
    BY <1>2, <1>3, <1>4, BoundedInduction
  <2> QED BY <1>2, <2>1
<1> QED BY <1>1, <1>2, <1>5

-----------------------------------------------------------------------------
(***************************************************************************)
(* Tilings.                                                                *)
(***************************************************************************)

(* The compacted spans of a projection. *)
Compacted(spans) == {spans[i] : i \in {j \in DOMAIN spans : ~ IsRaw(spans[j])}}

LEMMA SpanFields ==
    ASSUME NEW x \in Spans
    PROVE  x.start \in Nat /\ x.end \in Nat /\ x.artifact \in ArtifactIds \cup {NoArtifact}
BY DEF Spans

LEMMA AnchorType ==
    ASSUME NEW turns \in Seq(Turns), NEW n \in 0..Len(turns)
    PROVE  AnchorAt(turns, n) \in Anchors
<1>1. CASE n = 0
  BY <1>1 DEF AnchorAt, Anchors
<1>2. CASE n # 0
  <2>1. n \in 1..Len(turns)
    BY <1>2
  <2>2. turns[n] \in Turns
    BY <2>1
  <2> QED BY <1>2, <2>2 DEF AnchorAt, Anchors, Turns
<1> QED BY <1>1, <1>2

LEMMA SpanOfType ==
    ASSUME NEW turns \in Seq(Turns), NEW from \in 0..Len(turns), NEW to \in 0..Len(turns),
           NEW artifact \in ArtifactIds \cup {NoArtifact}
    PROVE  /\ SpanOf(turns, from, to, artifact) \in Spans
           /\ SpanOf(turns, from, to, artifact).start = from
           /\ SpanOf(turns, from, to, artifact).end = to
           /\ SpanOf(turns, from, to, artifact).artifact = artifact
<1>1. AnchorAt(turns, from) \in Anchors /\ AnchorAt(turns, to) \in Anchors
  BY AnchorType
<1> QED BY <1>1 DEF SpanOf, Spans

LEMMA EmptyTiles == TilesExactly(<< >>, 0) /\ << >> \in Seq(Spans) /\ Compacted(<< >>) = {}
BY DEF TilesExactly, Compacted

(* The span after the last one. *)
LEMMA AppendTiles ==
    ASSUME NEW spans \in Seq(Spans), NEW a \in Nat, TilesExactly(spans, a),
           NEW x \in Spans, x.start = a, a < x.end
    PROVE  /\ Append(spans, x) \in Seq(Spans)
           /\ TilesExactly(Append(spans, x), x.end)
           /\ Compacted(Append(spans, x)) = Compacted(spans) \cup (IF IsRaw(x) THEN {} ELSE {x})
<1> DEFINE t == Append(spans, x)
           n == Len(spans)
<1>1. /\ t \in Seq(Spans) /\ n \in Nat /\ Len(t) = n + 1 /\ DOMAIN t = 1..(n + 1)
      /\ t[n + 1] = x /\ DOMAIN spans = 1..n
      /\ \A i \in 1..n : t[i] = spans[i] /\ spans[i] \in Spans
      /\ spans = << >> <=> n = 0
      /\ t # << >>
  OBVIOUS
<1> HIDE DEF t, n
<1>2. x.end \in Nat /\ x.end # 0
  BY SpanFields
<1>3. Last(t) = x
  BY <1>1 DEF Last
<1>4. n # 0 => spans[n].end = a /\ spans[1].start = 0
  BY <1>1 DEF TilesExactly, Last, n
<1>5. n = 0 => a = 0
  BY <1>1 DEF TilesExactly
<1>6. t[1].start = 0
  <2>1. CASE n = 0
    BY <2>1, <1>1, <1>5
  <2>2. CASE n # 0
    <3>1. 1 \in 1..n
      BY <1>1, <2>2
    <3> QED BY <3>1, <2>2, <1>1, <1>4
  <2> QED BY <2>1, <2>2
<1>7. ASSUME NEW i \in 1..(n + 1)
      PROVE  t[i].start < t[i].end /\ (i > 1 => t[i].start = t[i - 1].end)
  <2>1. CASE i = n + 1
    <3>1. i > 1 => n # 0 /\ i - 1 = n /\ n \in 1..n
      BY <2>1, <1>1
    <3> QED BY <2>1, <3>1, <1>1, <1>4
  <2>2. CASE i # n + 1
    <3>1. i \in 1..n /\ (i > 1 => i - 1 \in 1..n)
      BY <2>2, <1>1
    <3>2. spans[i].start < spans[i].end /\ (i > 1 => spans[i].start = spans[i - 1].end)
      BY <3>1, <1>1 DEF TilesExactly
    <3> QED BY <3>1, <3>2, <1>1
  <2> QED BY <2>1, <2>2
<1>8. TilesExactly(t, x.end)
  BY <1>1, <1>2, <1>3, <1>6, <1>7 DEF TilesExactly
<1>9. Compacted(t) = Compacted(spans) \cup (IF IsRaw(x) THEN {} ELSE {x})
  <2>1. ASSUME NEW y \in Compacted(t) PROVE y \in Compacted(spans) \/ (~ IsRaw(x) /\ y = x)
    <3>1. PICK i \in 1..(n + 1) : y = t[i] /\ ~ IsRaw(t[i])
      BY <1>1 DEF Compacted
    <3>2. i \in 1..n \/ i = n + 1
      BY <1>1
    <3> QED BY <3>1, <3>2, <1>1 DEF Compacted
  <2>2. ASSUME NEW y \in Compacted(spans) PROVE y \in Compacted(t)
    <3>1. PICK i \in 1..n : y = spans[i] /\ ~ IsRaw(spans[i])
      BY <1>1 DEF Compacted
    <3>2. i \in DOMAIN t /\ t[i] = y
      BY <3>1, <1>1
    <3> QED BY <3>1, <3>2 DEF Compacted
  <2>3. ~ IsRaw(x) => x \in Compacted(t)
    <3>1. n + 1 \in DOMAIN t
      BY <1>1
    <3> QED BY <3>1, <1>1 DEF Compacted
  <2> QED BY <2>1, <2>2, <2>3
<1> QED BY <1>1, <1>8, <1>9 DEF t

(* The spans before the last one. *)
LEMMA FrontTiles ==
    ASSUME NEW spans \in Seq(Spans), NEW a \in Nat, TilesExactly(spans, a), spans # << >>
    PROVE  /\ Front(spans) \in Seq(Spans) /\ Last(spans) \in Spans
           /\ TilesExactly(Front(spans), Last(spans).start)
           /\ Last(spans).start < a /\ Last(spans).end = a
           /\ Compacted(Front(spans)) \subseteq Compacted(spans)
<1> DEFINE t == Front(spans)
           n == Len(spans)
<1>1. /\ n \in Nat /\ n # 0 /\ DOMAIN spans = 1..n /\ n - 1 \in Nat
      /\ \A i \in 1..n : spans[i] \in Spans
  OBVIOUS
<1>2. /\ t \in Seq(Spans) /\ Len(t) = n - 1 /\ DOMAIN t = 1..(n - 1)
      /\ \A i \in 1..(n - 1) : t[i] = spans[i]
      /\ t = << >> <=> n - 1 = 0
  <2>1. t = SubSeq(spans, 1, n - 1)
    BY DEF Front
  <2> HIDE DEF t, n
  <2>2. /\ t \in Seq(Spans) /\ Len(t) = n - 1
        /\ \A i \in 1..(n - 1) : t[i] = spans[i]
    BY <1>1, <2>1 DEF n
  <2>3. DOMAIN t = 1..(n - 1) /\ (t = << >> <=> n - 1 = 0)
    BY <1>1, <2>2
  <2> QED BY <2>2, <2>3
<1>3. Last(spans) = spans[n] /\ n \in 1..n
  BY <1>1 DEF Last
<1> HIDE DEF t, n
<1>4. /\ spans[1].start = 0 /\ spans[n].end = a
      /\ \A i \in 1..n : /\ spans[i].start < spans[i].end
                         /\ i > 1 => spans[i].start = spans[i - 1].end
  BY <1>1, <1>3 DEF TilesExactly
<1>5. \A i \in 1..n : spans[i].start \in Nat /\ spans[i].end \in Nat
  BY <1>1, SpanFields
<1>6. CASE n = 1
  <2>1. t = << >> /\ spans[n].start = 0
    BY <1>2, <1>4, <1>6
  <2>2. TilesExactly(t, spans[n].start)
    BY <2>1, EmptyTiles
  <2> QED BY <2>1, <2>2, <1>1, <1>2, <1>3, <1>4, EmptyTiles DEF t
<1>7. CASE n # 1
  <2>1. n > 1 /\ n - 1 \in 1..n /\ 1 \in 1..(n - 1) /\ n - 1 \in 1..(n - 1) /\ n - 1 # 0
    BY <1>1, <1>7
  <2>2. spans[n].start = spans[n - 1].end /\ spans[n - 1].start < spans[n - 1].end
    BY <1>3, <1>4, <2>1
  <2>3. spans[n].start # 0
    BY <2>1, <2>2, <1>5
  <2>4. Last(t) = spans[n - 1]
    BY <1>2, <2>1 DEF Last
  <2>5. ASSUME NEW i \in 1..(n - 1)
        PROVE  t[i].start < t[i].end /\ (i > 1 => t[i].start = t[i - 1].end)
    <3>1. i \in 1..n /\ (i > 1 => i - 1 \in 1..(n - 1))
      BY <1>1
    <3> QED BY <3>1, <1>2, <1>4
  <2>6. TilesExactly(t, spans[n].start)
    BY <1>2, <1>4, <2>1, <2>2, <2>3, <2>4, <2>5 DEF TilesExactly
  <2>7. Compacted(t) \subseteq Compacted(spans)
    <3> SUFFICES ASSUME NEW y \in Compacted(t) PROVE y \in Compacted(spans)
      OBVIOUS
    <3>1. PICK i \in 1..(n - 1) : y = t[i] /\ ~ IsRaw(t[i])
      BY <1>2 DEF Compacted
    <3>2. i \in DOMAIN spans /\ spans[i] = y
      BY <3>1, <1>1, <1>2
    <3> QED BY <3>1, <3>2 DEF Compacted
  <2> QED BY <2>6, <2>7, <1>1, <1>2, <1>3, <1>4 DEF t
<1> QED BY <1>6, <1>7

(* A raw span after the last one, merged with it if that is raw. *)
LEMMA PushRawTiles ==
    ASSUME NEW turns \in Seq(Turns), NEW spans \in Seq(Spans), NEW from \in Nat, NEW to \in Nat,
           from <= to, to <= Len(turns), TilesExactly(spans, from)
    PROVE  /\ push_raw_span(spans, turns, from, to) \in Seq(Spans)
           /\ TilesExactly(push_raw_span(spans, turns, from, to), to)
           /\ Compacted(push_raw_span(spans, turns, from, to)) \subseteq Compacted(spans)
<1>1. CASE from = to
  BY <1>1 DEF push_raw_span
<1>2. CASE from # to /\ spans # << >> /\ IsRaw(Last(spans))
  <2>1. /\ Front(spans) \in Seq(Spans) /\ Last(spans) \in Spans
        /\ TilesExactly(Front(spans), Last(spans).start)
        /\ Last(spans).start < from /\ Last(spans).end = from
        /\ Compacted(Front(spans)) \subseteq Compacted(spans)
    BY <1>2, FrontTiles
  <2> DEFINE at == Last(spans).start
             y == SpanOf(turns, at, to, NoArtifact)
  <2>2. push_raw_span(spans, turns, from, to) = Append(Front(spans), y)
    BY <1>2, <2>1 DEF push_raw_span
  <2>3. at \in Nat
    BY <2>1, SpanFields
  <2> HIDE DEF at
  <2>4. at \in 0..Len(turns) /\ to \in 0..Len(turns) /\ at < to
    BY <2>1, <2>3 DEF at
  <2>5. y \in Spans /\ y.start = at /\ y.end = to /\ y.artifact = NoArtifact
    BY <2>4, SpanOfType
  <2> HIDE DEF y
  <2>6. /\ Append(Front(spans), y) \in Seq(Spans)
        /\ TilesExactly(Append(Front(spans), y), y.end)
        /\ Compacted(Append(Front(spans), y)) = Compacted(Front(spans)) \cup (IF IsRaw(y) THEN {} ELSE {y})
    BY <2>1, <2>3, <2>4, <2>5, AppendTiles DEF at
  <2> QED BY <2>1, <2>2, <2>5, <2>6 DEF IsRaw
<1>3. CASE from # to /\ ~(spans # << >> /\ IsRaw(Last(spans)))
  <2> DEFINE y == SpanOf(turns, from, to, NoArtifact)
  <2>1. push_raw_span(spans, turns, from, to) = Append(spans, y)
    BY <1>3 DEF push_raw_span
  <2>2. from \in 0..Len(turns) /\ to \in 0..Len(turns) /\ from < to
    BY <1>3
  <2>3. y \in Spans /\ y.start = from /\ y.end = to /\ y.artifact = NoArtifact
    BY <2>2, SpanOfType
  <2> HIDE DEF y
  <2>4. /\ Append(spans, y) \in Seq(Spans)
        /\ TilesExactly(Append(spans, y), y.end)
        /\ Compacted(Append(spans, y)) = Compacted(spans) \cup (IF IsRaw(y) THEN {} ELSE {y})
    BY <2>2, <2>3, AppendTiles
  <2> QED BY <2>1, <2>3, <2>4 DEF IsRaw
<1> QED BY <1>1, <1>2, <1>3

(* The values a fold goes through, up to its result. *)
Kept(V, G, b, t, R) ==
    /\ <<0, b>> \in R
    /\ \A i \in 1..Len(t) : \A v \in V : <<i - 1, v>> \in R => <<i, G[<<v, t[i]>>]>> \in R

LEMMA TraceInvariant ==
    ASSUME NEW V, NEW E, NEW G \in [V \X E -> V], NEW b \in V, NEW t \in Seq(E),
           NEW end, Traced(V, G, b, t, end), NEW R, Kept(V, G, b, t, R)
    PROVE  end \in V /\ <<Len(t), end>> \in R
<1> USE DEF Kept
<1> DEFINE n == Len(t)
<1>1. n \in Nat
  OBVIOUS
<1>2. PICK g \in [0..n -> V] :
          /\ end = g[n]
          /\ g[0] = b
          /\ \A i \in 1..n : g[i] = G[<<g[i - 1], t[i]>>]
  BY Zenon DEF Traced
<1> DEFINE P == {i \in 0..n : <<i, g[i]>> \in R}
<1>3. 0 \in P
  BY <1>1, <1>2
<1>4. \A i \in 0..(n - 1) : i \in P => i + 1 \in P
  <2> SUFFICES ASSUME NEW i \in 0..(n - 1), i \in P PROVE i + 1 \in P
    OBVIOUS
  <2>1. i + 1 \in 1..n /\ (i + 1) - 1 = i /\ i \in 0..n /\ i + 1 \in 0..n
    BY <1>1
  <2>2. g[i] \in V /\ <<i, g[i]>> \in R
    BY <1>2, <2>1
  <2>3. <<i + 1, G[<<g[i], t[i + 1]>>]>> \in R
    BY <2>1, <2>2
  <2> QED BY <1>2, <2>1, <2>3
<1>5. n \in P
  <2> HIDE DEF P, n
  <2>1. \A i \in 0..n : i \in P
    BY <1>1, <1>3, <1>4, BoundedInduction
  <2> QED BY <1>1, <2>1
<1> QED BY <1>1, <1>2, <1>5

(* The end of the first k spans. *)
EndOf(spans, k) == IF k = 0 THEN 0 ELSE spans[k].end

SpansWithin(n) == {o \in Seq(Spans) : \A i \in DOMAIN o : o[i].start <= n}

LEMMA WithinType ==
    ASSUME NEW n \in Nat, NEW o \in SpansWithin(n), NEW x \in Spans, x.start <= n
    PROVE  o \in Seq(Spans) /\ Append(o, x) \in SpansWithin(n)
<1>1. o \in Seq(Spans) /\ \A i \in DOMAIN o : o[i].start <= n
  BY DEF SpansWithin
<1> DEFINE t == Append(o, x)
<1>2. /\ t \in Seq(Spans) /\ DOMAIN t = 1..(Len(o) + 1) /\ t[Len(o) + 1] = x
      /\ Len(o) \in Nat /\ DOMAIN o = 1..Len(o) /\ \A i \in 1..Len(o) : t[i] = o[i]
  BY <1>1
<1> HIDE DEF t
<1>3. ASSUME NEW i \in 1..(Len(o) + 1) PROVE t[i].start <= n
  <2>1. i \in 1..Len(o) \/ i = Len(o) + 1
    BY <1>2
  <2> QED BY <1>1, <1>2, <2>1
<1>4. t \in SpansWithin(n)
  BY <1>2, <1>3 DEF SpansWithin
<1> QED BY <1>1, <1>4 DEF t

LEMMA PushRawType ==
    ASSUME NEW turns \in Seq(Turns), NEW o \in SpansWithin(Len(turns)),
           NEW from \in 0..Len(turns), NEW to \in 0..Len(turns)
    PROVE  push_raw_span(o, turns, from, to) \in SpansWithin(Len(turns))
<1>1. o \in Seq(Spans) /\ (\A i \in DOMAIN o : o[i].start <= Len(turns)) /\ Len(turns) \in Nat
  BY DEF SpansWithin
<1>2. CASE from = to
  BY <1>2 DEF push_raw_span
<1>3. CASE from # to /\ o # << >> /\ IsRaw(Last(o)) /\ Last(o).end = from
  <2> DEFINE at == Last(o).start
             y == SpanOf(turns, at, to, NoArtifact)
             f == Front(o)
             k == Len(o)
  <2>1. push_raw_span(o, turns, from, to) = Append(f, y)
    BY <1>3 DEF push_raw_span
  <2>2. k \in Nat /\ k # 0 /\ DOMAIN o = 1..k /\ \A i \in 1..k : o[i] \in Spans /\ o[i].start <= Len(turns)
    BY <1>1, <1>3
  <2>3. at \in 0..Len(turns)
    <3>1. Last(o) = o[k] /\ k \in 1..k
      BY <2>2 DEF Last
    <3> QED BY <1>1, <2>2, <3>1, SpanFields
  <2>4. f = SubSeq(o, 1, k - 1)
    BY DEF Front
  <2> HIDE DEF f, k, at
  <2>5. f \in Seq(Spans) /\ Len(f) = k - 1 /\ DOMAIN f = 1..(k - 1) /\ \A i \in 1..(k - 1) : f[i] = o[i]
    BY <1>1, <2>2, <2>4 DEF k
  <2>6. \A i \in 1..(k - 1) : i \in 1..k
    BY <2>2
  <2>7. f \in SpansWithin(Len(turns))
    BY <2>2, <2>5, <2>6 DEF SpansWithin
  <2>8. y \in Spans /\ y.start = at
    BY <2>3, SpanOfType
  <2> HIDE DEF y
  <2>9. y.start <= Len(turns)
    BY <1>1, <2>3, <2>8
  <2> QED BY <1>1, <2>1, <2>7, <2>8, <2>9, WithinType
<1>4. CASE from # to /\ ~(o # << >> /\ IsRaw(Last(o)) /\ Last(o).end = from)
  <2> DEFINE y == SpanOf(turns, from, to, NoArtifact)
  <2>1. push_raw_span(o, turns, from, to) = Append(o, y)
    BY <1>4 DEF push_raw_span
  <2>2. y \in Spans /\ y.start = from
    BY SpanOfType
  <2> HIDE DEF y
  <2>3. y.start <= Len(turns)
    BY <1>1, <2>2
  <2> QED BY <1>1, <2>1, <2>2, <2>3, WithinType
<1> QED BY <1>2, <1>3, <1>4

-----------------------------------------------------------------------------
(***************************************************************************)
(* The projection of the first n turns.                                    *)
(***************************************************************************)
Clip(turns, n, out, span) ==
    IF span.start >= n THEN out
    ELSE IF ~ IsRaw(span) /\ range_matches_turns(span, turns, n)
    THEN Append(out, span)
    ELSE push_raw_span(out, turns, span.start, Smaller(span.end, n))

LEMMA ClipType ==
    ASSUME NEW turns \in Seq(Turns), NEW n \in 0..Len(turns),
           NEW out \in SpansWithin(Len(turns)), NEW span \in Spans
    PROVE  Clip(turns, n, out, span) \in SpansWithin(Len(turns))
<1>1. Len(turns) \in Nat /\ span.start \in Nat /\ span.end \in Nat
  BY SpanFields
<1>2. CASE span.start >= n
  BY <1>2 DEF Clip
<1>3. CASE ~(span.start >= n) /\ ~ IsRaw(span) /\ range_matches_turns(span, turns, n)
  <2>1. Clip(turns, n, out, span) = Append(out, span) /\ span.start <= Len(turns)
    BY <1>1, <1>3 DEF Clip
  <2> QED BY <1>1, <2>1, WithinType
<1>4. CASE ~(span.start >= n) /\ ~(~ IsRaw(span) /\ range_matches_turns(span, turns, n))
  <2> DEFINE to == Smaller(span.end, n)
  <2>1. Clip(turns, n, out, span) = push_raw_span(out, turns, span.start, to)
    BY <1>4 DEF Clip
  <2>2. span.start \in 0..Len(turns) /\ to \in 0..Len(turns)
    BY <1>1, <1>4 DEF Smaller
  <2> HIDE DEF to
  <2> QED BY <2>1, <2>2, PushRawType
<1> QED BY <1>2, <1>3, <1>4

ClipFunction(turns, n) ==
    [p \in SpansWithin(Len(turns)) \X Spans |-> Clip(turns, n, p[1], p[2])]

LEMMA EmptyWithin == ASSUME NEW n PROVE << >> \in SpansWithin(n)
<1>1. << >> \in Seq(Spans) /\ DOMAIN << >> = {}
  OBVIOUS
<1> QED BY <1>1 DEF SpansWithin

LEMMA ClipTraced ==
    ASSUME NEW turns \in Seq(Turns), NEW n \in 0..Len(turns), NEW spans \in Seq(Spans)
    PROVE  /\ ClipFunction(turns, n) \in [SpansWithin(Len(turns)) \X Spans -> SpansWithin(Len(turns))]
           /\ Traced(SpansWithin(Len(turns)), ClipFunction(turns, n), << >>, spans,
                     active_projection_spans(spans, turns, n))
<1> DEFINE V == SpansWithin(Len(turns))
           G == ClipFunction(turns, n)
           k == Len(spans)
           Iter(f) == [s \in SUBSET (1..k) |->
                          IF s = {} THEN << >>
                          ELSE Clip(turns, n, f[s \ {Max(s)}], spans[Max(s)])]
           h == CHOOSE x : x = Iter(x)
<1>1. G \in [V \X Spans -> V]
  BY ClipType DEF ClipFunction
<1>2. << >> \in V
  BY EmptyWithin
<1>3. DOMAIN spans = 1..k /\ k \in Nat /\ \A i \in 1..k : spans[i] \in Spans
  OBVIOUS
<1>4. PICK f : IsFold(V, Spans, G, << >>, spans, f)
  <2> HIDE DEF G, V
  <2> QED BY <1>1, <1>2, FoldFacts, Zenon
<1>5. f = Iter(f)
  BY <1>4 DEF IsFold, ClipFunction
<1>6. h = Iter(h)
  BY <1>5
<1>7. active_projection_spans(spans, turns, n) = h[1..k]
  BY <1>3 DEF active_projection_spans, FoldLeft, MapThenFoldSet, Clip
<1> HIDE DEF h
<1>8. h[{}] = << >> /\ \A i \in 1..k : h[1..i] = Clip(turns, n, h[1..(i - 1)], spans[i])
  BY <1>3, <1>6, PrefixFacts
<1>9. Folding(V, G, << >>, spans, h)
  BY <1>3, <1>8 DEF Folding, ClipFunction
<1>10. Traced(V, G, << >>, spans, h[1..k])
  <2> HIDE DEF G, V
  <2> QED BY <1>1, <1>2, <1>9, FoldTrace, Zenon
<1> QED BY <1>1, <1>7, <1>10, Zenon

LEMMA TilingFacts ==
    ASSUME NEW spans \in Seq(Spans), NEW m \in Nat, TilesExactly(spans, m)
    PROVE  /\ EndOf(spans, Len(spans)) = m
           /\ \A i \in 0..Len(spans) : EndOf(spans, i) \in Nat
           /\ \A i \in 1..Len(spans) :
                 /\ spans[i] \in Spans /\ spans[i].start \in Nat /\ spans[i].end \in Nat
                 /\ spans[i].start = EndOf(spans, i - 1)
                 /\ spans[i].end = EndOf(spans, i)
                 /\ spans[i].start < spans[i].end
<1> DEFINE n == Len(spans)
<1>1. /\ n \in Nat /\ DOMAIN spans = 1..n /\ (spans = << >> <=> n = 0)
      /\ \A i \in 1..n : spans[i] \in Spans
  OBVIOUS
<1> HIDE DEF n
<1>2. \A i \in 1..n : spans[i].start \in Nat /\ spans[i].end \in Nat
  BY <1>1, SpanFields
<1>3. EndOf(spans, n) = m
  <2>1. CASE n = 0
    BY <1>1, <2>1 DEF EndOf, TilesExactly
  <2>2. CASE n # 0
    BY <1>1, <2>2 DEF EndOf, TilesExactly, Last, n
  <2> QED BY <2>1, <2>2
<1>4. \A i \in 0..n : EndOf(spans, i) \in Nat
  <2> SUFFICES ASSUME NEW i \in 0..n PROVE EndOf(spans, i) \in Nat
    OBVIOUS
  <2>1. CASE i = 0
    BY <2>1 DEF EndOf
  <2>2. CASE i # 0
    <3>1. i \in 1..n
      BY <2>2
    <3> QED BY <2>2, <3>1, <1>2 DEF EndOf
  <2> QED BY <2>1, <2>2
<1>5. ASSUME NEW i \in 1..n
      PROVE  /\ spans[i].start = EndOf(spans, i - 1) /\ spans[i].end = EndOf(spans, i)
             /\ spans[i].start < spans[i].end
  <2>1. /\ spans[1].start = 0 /\ spans[i].start < spans[i].end
        /\ i > 1 => spans[i].start = spans[i - 1].end
    BY <1>1 DEF TilesExactly
  <2>2. CASE i = 1
    BY <2>1, <2>2 DEF EndOf
  <2>3. CASE i # 1
    BY <2>1, <2>3 DEF EndOf
  <2> QED BY <2>2, <2>3
<1> QED BY <1>1, <1>2, <1>3, <1>4, <1>5 DEF n

(* The spans of the first n turns tile them, and those that stay compacted   *)
(* have their anchors among them.                                            *)
LEMMA ClipTiles ==
    ASSUME NEW turns \in Seq(Turns), NEW n \in 0..Len(turns), NEW spans \in Seq(Spans),
           NEW m \in Nat, n <= m, TilesExactly(spans, m)
    PROVE  /\ active_projection_spans(spans, turns, n) \in Seq(Spans)
           /\ TilesExactly(active_projection_spans(spans, turns, n), n)
           /\ \A x \in Compacted(active_projection_spans(spans, turns, n)) :
                 x \in Compacted(spans) /\ range_matches_turns(x, turns, n)
<1> DEFINE V == SpansWithin(Len(turns))
           G == ClipFunction(turns, n)
           k == Len(spans)
           out == active_projection_spans(spans, turns, n)
           C == {x \in Compacted(spans) : range_matches_turns(x, turns, n)}
           upto(i) == Smaller(EndOf(spans, i), n)
           R == {p \in (0..k) \X V : TilesExactly(p[2], upto(p[1])) /\ Compacted(p[2]) \subseteq C}
<1>1. /\ EndOf(spans, k) = m
      /\ \A i \in 0..k : EndOf(spans, i) \in Nat
      /\ \A i \in 1..k :
                 /\ spans[i] \in Spans /\ spans[i].start \in Nat /\ spans[i].end \in Nat
                 /\ spans[i].start = EndOf(spans, i - 1)
                 /\ spans[i].end = EndOf(spans, i)
                 /\ spans[i].start < spans[i].end
  BY TilingFacts
<1>2. k \in Nat /\ Len(turns) \in Nat /\ n \in Nat /\ n <= Len(turns) /\ DOMAIN spans = 1..k
  OBVIOUS
<1> HIDE DEF k
<1>3. <<0, << >> >> \in R
  <2>1. upto(0) = 0 /\ 0 \in 0..k
    BY <1>2 DEF EndOf, Smaller
  <2>2. << >> \in V
    BY EmptyWithin
  <2> QED BY <2>1, <2>2, EmptyTiles
<1>4. ASSUME NEW i \in 1..k, NEW v \in V, <<i - 1, v>> \in R
      PROVE  <<i, G[<<v, spans[i]>>]>> \in R
  <2> DEFINE x == spans[i]
             y == Clip(turns, n, v, x)
  <2>1. G[<<v, x>>] = y /\ y \in V
    BY <1>1, ClipType DEF ClipFunction
  <2>2. TilesExactly(v, upto(i - 1)) /\ Compacted(v) \subseteq C
    BY <1>4
  <2>3. /\ x \in Spans /\ x.start \in Nat /\ x.end \in Nat /\ x.start < x.end
        /\ upto(i - 1) = Smaller(x.start, n) /\ upto(i) = Smaller(x.end, n)
    BY <1>1
  <2>4. v \in Seq(Spans)
    BY DEF SpansWithin
  <2>5. ~ IsRaw(x) /\ range_matches_turns(x, turns, n) => x \in C
    BY <1>2 DEF Compacted
  <2> HIDE DEF x, y, upto, C
  <2>6. TilesExactly(y, upto(i)) /\ Compacted(y) \subseteq C
    <3>1. CASE x.start >= n
      <4>1. y = v
        BY <3>1 DEF y, Clip
      <4>2. upto(i) = upto(i - 1)
        BY <1>2, <2>3, <3>1 DEF Smaller
      <4> QED BY <2>2, <4>1, <4>2
    <3>2. CASE ~(x.start >= n) /\ ~ IsRaw(x) /\ range_matches_turns(x, turns, n)
      <4>1. y = Append(v, x)
        BY <3>2 DEF y, Clip
      <4>2. upto(i - 1) = x.start /\ upto(i) = x.end
        BY <1>2, <2>3, <3>2 DEF Smaller, range_matches_turns
      <4>3. TilesExactly(y, x.end) /\ Compacted(y) = Compacted(v) \cup (IF IsRaw(x) THEN {} ELSE {x})
        BY <2>2, <2>3, <2>4, <4>1, <4>2, AppendTiles
      <4> QED BY <2>2, <2>5, <3>2, <4>2, <4>3
    <3>3. CASE ~(x.start >= n) /\ ~(~ IsRaw(x) /\ range_matches_turns(x, turns, n))
      <4> DEFINE to == Smaller(x.end, n)
      <4>1. y = push_raw_span(v, turns, x.start, to)
        BY <3>3 DEF y, Clip
      <4>2. upto(i - 1) = x.start /\ upto(i) = to /\ to \in Nat /\ x.start <= to /\ to <= Len(turns)
        BY <1>2, <2>3, <3>3 DEF Smaller
      <4> HIDE DEF to
      <4>3. TilesExactly(y, to) /\ Compacted(y) \subseteq Compacted(v)
        BY <2>2, <2>3, <2>4, <4>1, <4>2, PushRawTiles
      <4> QED BY <2>2, <4>2, <4>3
    <3> QED BY <3>1, <3>2, <3>3
  <2>7. <<i, y>> \in R
    <3>1. i \in 0..k
      BY <1>2
    <3> QED BY <2>1, <2>6, <3>1
  <2> QED BY <2>1, <2>7 DEF x
<1>5. /\ G \in [V \X Spans -> V] /\ Traced(V, G, << >>, spans, out)
  BY ClipTraced
<1>6. << >> \in V
  BY EmptyWithin
<1>7. out \in V /\ <<Len(spans), out>> \in R
  <2> HIDE DEF V, G, R, out
  <2>1. Kept(V, G, << >>, spans, R)
    BY <1>3, <1>4, Zenon DEF Kept, k
  <2> QED BY <1>5, <1>6, <2>1, TraceInvariant, Zenon
<1>8. TilesExactly(out, upto(Len(spans))) /\ Compacted(out) \subseteq C
  BY <1>7
<1>9. upto(Len(spans)) = n
  BY <1>1, <1>2 DEF Smaller, k
<1>10. out \in Seq(Spans)
  BY <1>7 DEF SpansWithin
<1> QED BY <1>8, <1>9, <1>10

LEMMA TilingGrows ==
    ASSUME NEW spans \in Seq(Spans), NEW m \in Nat, TilesExactly(spans, m)
    PROVE  \A j \in 0..Len(spans) : \A i \in 0..j : EndOf(spans, i) <= EndOf(spans, j)
<1> DEFINE n == Len(spans)
           P == {j \in 0..n : \A i \in 0..j : EndOf(spans, i) <= EndOf(spans, j)}
<1>1. n \in Nat
  OBVIOUS
<1>2. /\ \A i \in 0..n : EndOf(spans, i) \in Nat
      /\ \A i \in 1..n : /\ spans[i].start = EndOf(spans, i - 1) /\ spans[i].end = EndOf(spans, i)
                         /\ spans[i].start < spans[i].end
  BY TilingFacts
<1> HIDE DEF n
<1>3. 0 \in P
  BY <1>1, <1>2
<1>4. \A j \in 0..(n - 1) : j \in P => j + 1 \in P
  <2> SUFFICES ASSUME NEW j \in 0..(n - 1), j \in P, NEW i \in 0..(j + 1)
               PROVE  EndOf(spans, i) <= EndOf(spans, j + 1)
    BY <1>1
  <2>1. j + 1 \in 1..n /\ (j + 1) - 1 = j /\ j \in 0..n /\ j + 1 \in 0..n
    BY <1>1
  <2>2. /\ EndOf(spans, j) \in Nat /\ EndOf(spans, j + 1) \in Nat
        /\ EndOf(spans, j) < EndOf(spans, j + 1)
    BY <1>2, <2>1
  <2>3. CASE i = j + 1
    BY <2>2, <2>3
  <2>4. CASE i # j + 1
    <3>1. i \in 0..j /\ i \in 0..n
      BY <1>1, <2>4
    <3>2. EndOf(spans, i) <= EndOf(spans, j) /\ EndOf(spans, i) \in Nat
      BY <1>2, <3>1
    <3> QED BY <2>2, <3>2
  <2> QED BY <2>3, <2>4
<1>5. ASSUME NEW j \in 0..n PROVE j \in P
  <2> HIDE DEF P
  <2> QED BY <1>1, <1>3, <1>4, BoundedInduction
<1> QED BY <1>5 DEF n

-----------------------------------------------------------------------------
(***************************************************************************)
(* A compaction's replacement of the spans it covers.                      *)
(***************************************************************************)
Filter(from, to, out, x) == IF x.start < to /\ x.end > from THEN Append(out, x) ELSE out

FilterFunction(from, to) == [p \in Seq(Spans) \X Spans |-> Filter(from, to, p[1], p[2])]

LEMMA FilterTraced ==
    ASSUME NEW spans \in Seq(Spans), NEW from \in Nat, NEW to \in Nat
    PROVE  /\ FilterFunction(from, to) \in [Seq(Spans) \X Spans -> Seq(Spans)]
           /\ Traced(Seq(Spans), FilterFunction(from, to), << >>, spans,
                     overlapping_spans(spans, from, to))
<1> DEFINE V == Seq(Spans)
           G == FilterFunction(from, to)
           k == Len(spans)
           Iter(f) == [s \in SUBSET (1..k) |->
                          IF s = {} THEN << >>
                          ELSE Filter(from, to, f[s \ {Max(s)}], spans[Max(s)])]
           h == CHOOSE x : x = Iter(x)
<1>1. G \in [V \X Spans -> V]
  BY DEF FilterFunction, Filter
<1>2. << >> \in V
  OBVIOUS
<1>3. DOMAIN spans = 1..k /\ k \in Nat /\ \A i \in 1..k : spans[i] \in Spans
  OBVIOUS
<1>4. PICK f : IsFold(V, Spans, G, << >>, spans, f)
  <2> HIDE DEF G, V
  <2> QED BY <1>1, <1>2, FoldFacts, Zenon
<1>5. f = Iter(f)
  BY <1>4 DEF IsFold, FilterFunction
<1>6. h = Iter(h)
  BY <1>5
<1>7. overlapping_spans(spans, from, to) = h[1..k]
  BY <1>3 DEF overlapping_spans, FoldLeft, MapThenFoldSet, Filter
<1> HIDE DEF h
<1>8. h[{}] = << >> /\ \A i \in 1..k : h[1..i] = Filter(from, to, h[1..(i - 1)], spans[i])
  <2>1. /\ {} \in SUBSET (1..k)
        /\ \A i \in 1..k : /\ Max(1..i) = i /\ (1..i) \ {Max(1..i)} = 1..(i - 1)
                            /\ 1..i # {} /\ 1..i \in SUBSET (1..k)
    BY <1>3, PrefixFacts
  <2> HIDE DEF G, V, k
  <2>2. h[{}] = << >>
    BY <1>6, <2>1
  <2>3. ASSUME NEW i \in 1..k PROVE h[1..i] = Filter(from, to, h[1..(i - 1)], spans[i])
    BY <1>6, <2>1
  <2> QED BY <2>2, <2>3
<1>9. Folding(V, G, << >>, spans, h)
  BY <1>3, <1>8 DEF Folding, FilterFunction
<1>10. Traced(V, G, << >>, spans, h[1..k])
  <2> HIDE DEF G, V
  <2> QED BY <1>1, <1>2, <1>9, FoldTrace, Zenon
<1> QED BY <1>1, <1>7, <1>10, Zenon

Overlaps(x, from, to) == x.start < to /\ x.end > from

LEMMA NoOverlaps ==
    ASSUME NEW spans \in Seq(Spans), NEW from \in Nat, NEW to \in Nat,
           \A i \in 1..Len(spans) : ~ Overlaps(spans[i], from, to)
    PROVE  overlapping_spans(spans, from, to) = << >>
<1> DEFINE V == Seq(Spans)
           G == FilterFunction(from, to)
           out == overlapping_spans(spans, from, to)
           R == Nat \X {<< >>}
<1>1. <<0, << >> >> \in R
  OBVIOUS
<1>2. ASSUME NEW i \in 1..Len(spans), NEW v \in V, <<i - 1, v>> \in R
      PROVE  <<i, G[<<v, spans[i]>>]>> \in R
  <2>1. v = << >> /\ i \in Nat /\ spans[i] \in Spans
    BY <1>2
  <2>2. G[<<v, spans[i]>>] = v
    BY <2>1 DEF FilterFunction, Filter, Overlaps
  <2> QED BY <2>1, <2>2
<1>3. G \in [V \X Spans -> V] /\ Traced(V, G, << >>, spans, out)
  BY FilterTraced, Zenon
<1>5. << >> \in V
  OBVIOUS
<1>4. <<Len(spans), out>> \in R
  <2> HIDE DEF V, G, R, out
  <2>1. Kept(V, G, << >>, spans, R)
    BY <1>1, <1>2, Zenon DEF Kept
  <2> QED BY <1>3, <1>5, <2>1, TraceInvariant, Zenon
<1> QED BY <1>4

(* The spans of a sequence that follow each other and overlap a range. *)
Links(over, source, from, to) ==
    \A i \in 1..Len(over) :
        /\ over[i] \in Spans
        /\ \E j \in 1..Len(source) : over[i] = source[j]
        /\ over[i].start < over[i].end
        /\ Overlaps(over[i], from, to)
        /\ i > 1 => over[i].start = over[i - 1].end

Covers(over, source, from, to) ==
    /\ over \in Seq(Spans)
    /\ Len(over) # 0
    /\ Links(over, source, from, to)
    /\ over[1].start <= from
    /\ to <= over[Len(over)].end
    /\ \A j \in 1..Len(source) : Overlaps(source[j], from, to) =>
           \E i \in 1..Len(over) : over[i] = source[j]

LEMMA AppendLinks ==
    ASSUME NEW source \in Seq(Spans), NEW from \in Nat, NEW to \in Nat,
           NEW v \in Seq(Spans), Links(v, source, from, to), NEW j \in 1..Len(source),
           source[j].start < source[j].end, Overlaps(source[j], from, to),
           Len(v) # 0 => v[Len(v)].end = source[j].start
    PROVE  /\ Append(v, source[j]) \in Seq(Spans)
           /\ Len(Append(v, source[j])) = Len(v) + 1
           /\ Append(v, source[j])[Len(v) + 1] = source[j]
           /\ \A i \in 1..Len(v) : Append(v, source[j])[i] = v[i]
           /\ Links(Append(v, source[j]), source, from, to)
<1> DEFINE x == source[j]
           y == Append(v, x)
           k == Len(v)
<1>1. x \in Spans /\ k \in Nat
  OBVIOUS
<1>2. y \in Seq(Spans) /\ Len(y) = k + 1 /\ y[k + 1] = x /\ \A i \in 1..k : y[i] = v[i]
  BY <1>1
<1> HIDE DEF y, k
<1>3. ASSUME NEW i \in 1..(k + 1)
      PROVE  /\ y[i] \in Spans
             /\ \E l \in 1..Len(source) : y[i] = source[l]
             /\ y[i].start < y[i].end
             /\ Overlaps(y[i], from, to)
             /\ i > 1 => y[i].start = y[i - 1].end
  <2>1. CASE i = k + 1
    <3>1. i > 1 => i - 1 = k /\ k \in 1..k /\ k # 0
      BY <1>1, <2>1
    <3>2. i > 1 => y[i].start = y[i - 1].end
      BY <1>2, <2>1, <3>1 DEF k
    <3> QED BY <1>1, <1>2, <2>1, <3>2
  <2>2. CASE i # k + 1
    <3>1. i \in 1..k /\ (i > 1 => i - 1 \in 1..k)
      BY <1>1, <2>2
    <3>2. /\ v[i] \in Spans
          /\ \E l \in 1..Len(source) : v[i] = source[l]
          /\ v[i].start < v[i].end
          /\ Overlaps(v[i], from, to)
          /\ i > 1 => v[i].start = v[i - 1].end
      BY <3>1 DEF Links, k
    <3> QED BY <1>2, <3>1, <3>2
  <2> QED BY <2>1, <2>2
<1>4. Links(y, source, from, to)
  BY <1>2, <1>3 DEF Links
<1> QED BY <1>2, <1>4 DEF y, k

(* What the filter has found among the first k spans. *)
Found(v, k, source, from, to) ==
    /\ Links(v, source, from, to)
    /\ Len(v) = 0 => EndOf(source, k) <= from
    /\ Len(v) # 0 => /\ v[1].start <= from
                     /\ v[Len(v)].end <= EndOf(source, k)
                     /\ v[Len(v)].end = EndOf(source, k) \/ to <= v[Len(v)].end
    /\ \A j \in 1..k : Overlaps(source[j], from, to) => \E i \in 1..Len(v) : v[i] = source[j]

LEMMA FilterCovers ==
    ASSUME NEW source \in Seq(Spans), NEW m \in Nat, TilesExactly(source, m),
           NEW from \in Nat, NEW to \in Nat, from < to, to <= m
    PROVE  Covers(overlapping_spans(source, from, to), source, from, to)
<1> DEFINE V == Seq(Spans)
           G == FilterFunction(from, to)
           n == Len(source)
           out == overlapping_spans(source, from, to)
           R == {p \in (0..n) \X V : Found(p[2], p[1], source, from, to)}
<1>1. /\ EndOf(source, n) = m
      /\ \A i \in 0..n : EndOf(source, i) \in Nat
      /\ \A i \in 1..n : /\ source[i] \in Spans /\ source[i].start \in Nat /\ source[i].end \in Nat
                         /\ source[i].start = EndOf(source, i - 1)
                         /\ source[i].end = EndOf(source, i)
                         /\ source[i].start < source[i].end
  BY TilingFacts
<1>2. n \in Nat
  OBVIOUS
<1>3. <<0, << >> >> \in R
  <2>1. << >> \in V /\ Len(<< >>) = 0 /\ 1..0 = {} /\ EndOf(source, 0) = 0
    BY DEF EndOf
  <2>2. Found(<< >>, 0, source, from, to)
    BY <2>1 DEF Found, Links
  <2>3. 0 \in 0..n /\ << >> \in V
    BY <1>2, <2>1
  <2> HIDE DEF V, n
  <2> QED BY <2>2, <2>3
<1>4. ASSUME NEW k \in 1..n, NEW v \in V, <<k - 1, v>> \in R
      PROVE  <<k, G[<<v, source[k]>>]>> \in R
  <2> DEFINE x == source[k]
             q == Len(v)
  <2>1. Found(v, k - 1, source, from, to) /\ v \in Seq(Spans) /\ q \in Nat
    BY <1>4
  <2>2. /\ x \in Spans /\ x.start \in Nat /\ x.end \in Nat /\ x.start < x.end
        /\ x.start = EndOf(source, k - 1) /\ x.end = EndOf(source, k)
    BY <1>1
  <2>3. G[<<v, x>>] = Filter(from, to, v, x)
    BY <2>1, <2>2 DEF FilterFunction
  <2>4. q # 0 => /\ v[q].end \in Nat /\ from < v[q].end /\ v[1].start <= from
                 /\ v[q].end <= x.start
                 /\ v[q].end = x.start \/ to <= v[q].end
    <3> SUFFICES ASSUME q # 0
                 PROVE  /\ v[q].end \in Nat /\ from < v[q].end /\ v[1].start <= from
                        /\ v[q].end <= x.start
                        /\ v[q].end = x.start \/ to <= v[q].end
      OBVIOUS
    <3>1. q \in 1..q
      BY <2>1
    <3>2. v[q] \in Spans /\ Overlaps(v[q], from, to)
      BY <2>1, <3>1 DEF Found, Links
    <3>3. v[q].end \in Nat /\ from < v[q].end
      BY <3>2, SpanFields DEF Overlaps
    <3> QED BY <2>1, <2>2, <3>3 DEF Found
  <2>5. q = 0 => x.start <= from
    BY <2>1, <2>2 DEF Found
  <2>6. CASE Overlaps(x, from, to)
    <3> DEFINE y == Append(v, x)
    <3>1. G[<<v, x>>] = y
      BY <2>3, <2>6 DEF Filter, Overlaps
    <3>2. q # 0 => v[q].end = x.start
      BY <2>2, <2>4, <2>6 DEF Overlaps
    <3>3. /\ y \in Seq(Spans) /\ Len(y) = q + 1 /\ y[q + 1] = x
          /\ \A i \in 1..q : y[i] = v[i]
          /\ Links(y, source, from, to)
      BY <2>1, <2>2, <2>6, <3>2, AppendLinks DEF Found
    <3> HIDE DEF y
    <3>4. y[1].start <= from
      <4>1. CASE q = 0
        BY <2>5, <3>3, <4>1
      <4>2. CASE q # 0
        <5>1. 1 \in 1..q
          BY <2>1, <4>2
        <5> QED BY <2>4, <3>3, <4>2, <5>1
      <4> QED BY <4>1, <4>2
    <3>5. Len(y) # 0 /\ y[Len(y)].end = EndOf(source, k)
      BY <2>1, <2>2, <3>3
    <3>6. ASSUME NEW j \in 1..k, Overlaps(source[j], from, to)
          PROVE  \E i \in 1..Len(y) : y[i] = source[j]
      <4>1. CASE j = k
        <5>1. q + 1 \in 1..Len(y)
          BY <2>1, <3>3
        <5> QED BY <3>3, <4>1, <5>1
      <4>2. CASE j # k
        <5>1. j \in 1..(k - 1)
          BY <4>2
        <5>2. PICK i \in 1..q : v[i] = source[j]
          BY <2>1, <3>6, <5>1 DEF Found
        <5>3. i \in 1..Len(y)
          BY <2>1, <3>3
        <5> QED BY <3>3, <5>2, <5>3
      <4> QED BY <4>1, <4>2
    <3>7. EndOf(source, k) \in Nat
      BY <1>1
    <3>8. Found(y, k, source, from, to)
      BY <3>3, <3>4, <3>5, <3>6, <3>7 DEF Found
    <3> QED BY <1>2, <3>1, <3>3, <3>8
  <2>7. CASE ~ Overlaps(x, from, to)
    <3>1. G[<<v, x>>] = v
      BY <2>3, <2>7 DEF Filter, Overlaps
    <3>2. x.start >= to \/ x.end <= from
      BY <2>2, <2>7 DEF Overlaps
    <3>3. q = 0 => EndOf(source, k) <= from
      BY <2>2, <2>5, <3>2
    <3>4. q # 0 => /\ v[1].start <= from
                   /\ v[q].end <= EndOf(source, k)
                   /\ v[q].end = EndOf(source, k) \/ to <= v[q].end
      BY <2>2, <2>4, <3>2
    <3>5. ASSUME NEW j \in 1..k, Overlaps(source[j], from, to)
          PROVE  \E i \in 1..q : v[i] = source[j]
      <4>1. j # k
        BY <2>7, <3>5
      <4>2. j \in 1..(k - 1)
        BY <4>1
      <4> QED BY <2>1, <3>5, <4>2 DEF Found
    <3>6. Found(v, k, source, from, to)
      BY <2>1, <3>3, <3>4, <3>5 DEF Found
    <3> QED BY <1>2, <3>1, <3>6
  <2> QED BY <2>6, <2>7
<1>5. G \in [V \X Spans -> V] /\ Traced(V, G, << >>, source, out)
  BY FilterTraced, Zenon
<1>6. << >> \in V
  OBVIOUS
<1>7. out \in V /\ <<Len(source), out>> \in R
  <2> HIDE DEF V, G, R, out
  <2>1. Kept(V, G, << >>, source, R)
    BY <1>3, <1>4, Zenon DEF Kept, n
  <2> QED BY <1>5, <1>6, <2>1, TraceInvariant, Zenon
<1>8. Found(out, Len(source), source, from, to) /\ out \in Seq(Spans)
  BY <1>7
<1> HIDE DEF out
<1>9. Len(out) # 0
  BY <1>1, <1>8 DEF Found
<1>10. out[Len(out)].end \in Nat
  <2>1. Len(out) \in 1..Len(out)
    BY <1>8, <1>9
  <2>2. out[Len(out)] \in Spans
    BY <1>8, <2>1
  <2> QED BY <2>2, SpanFields
<1>11. to <= out[Len(out)].end
  BY <1>1, <1>8, <1>9, <1>10 DEF Found
<1> QED BY <1>8, <1>9, <1>11 DEF Found, Covers, out

Copy(turns, from, to, o, x) ==
    IF IsRaw(x)
    THEN push_raw_span(o, turns, Larger(x.start, from), Smaller(x.end, to))
    ELSE Append(o, x)

StartingWithin(n) == {x \in Spans : x.start <= n}

CopyFunction(turns, from, to) ==
    [p \in SpansWithin(Len(turns)) \X StartingWithin(Len(turns)) |->
        Copy(turns, from, to, p[1], p[2])]

LEMMA CopyType ==
    ASSUME NEW turns \in Seq(Turns), NEW from \in 0..Len(turns), NEW to \in 0..Len(turns),
           NEW o \in SpansWithin(Len(turns)), NEW x \in StartingWithin(Len(turns))
    PROVE  Copy(turns, from, to, o, x) \in SpansWithin(Len(turns))
<1>1. /\ x \in Spans /\ x.start <= Len(turns) /\ x.start \in Nat /\ x.end \in Nat
      /\ Len(turns) \in Nat
  BY SpanFields DEF StartingWithin
<1>2. CASE IsRaw(x)
  <2> DEFINE a == Larger(x.start, from)
             b == Smaller(x.end, to)
  <2>1. a \in 0..Len(turns) /\ b \in 0..Len(turns)
    BY <1>1 DEF Larger, Smaller
  <2>2. Copy(turns, from, to, o, x) = push_raw_span(o, turns, a, b)
    BY <1>2 DEF Copy
  <2> HIDE DEF a, b
  <2> QED BY <2>1, <2>2, PushRawType
<1>3. CASE ~ IsRaw(x)
  <2>1. Copy(turns, from, to, o, x) = Append(o, x)
    BY <1>3 DEF Copy
  <2> QED BY <1>1, <2>1, WithinType
<1> QED BY <1>2, <1>3

LEMMA SegmentTraced ==
    ASSUME NEW turns \in Seq(Turns), NEW from \in 0..Len(turns), NEW to \in 0..Len(turns),
           NEW out \in SpansWithin(Len(turns)), NEW source, NEW over,
           over = overlapping_spans(source, from, to),
           over \in Seq(StartingWithin(Len(turns)))
    PROVE  /\ CopyFunction(turns, from, to)
                  \in [SpansWithin(Len(turns)) \X StartingWithin(Len(turns)) -> SpansWithin(Len(turns))]
           /\ Traced(SpansWithin(Len(turns)), CopyFunction(turns, from, to), out, over,
                     append_source_segment(out, source, turns, from, to))
<1> DEFINE V == SpansWithin(Len(turns))
           E == StartingWithin(Len(turns))
           G == CopyFunction(turns, from, to)
           k == Len(over)
           Iter(f) == [s \in SUBSET (1..k) |->
                          IF s = {} THEN out
                          ELSE Copy(turns, from, to, f[s \ {Max(s)}], over[Max(s)])]
           h == CHOOSE x : x = Iter(x)
<1>1. G \in [V \X E -> V]
  BY CopyType DEF CopyFunction
<1>2. out \in V /\ over \in Seq(E)
  OBVIOUS
<1>3. DOMAIN over = 1..k /\ k \in Nat /\ \A i \in 1..k : over[i] \in E
  BY <1>2
<1>4. PICK f : IsFold(V, E, G, out, over, f)
  <2> HIDE DEF G, V, E
  <2> QED BY <1>1, <1>2, FoldFacts, Zenon
<1>5. f = Iter(f)
  BY <1>4 DEF IsFold, CopyFunction
<1>6. h = Iter(h)
  BY <1>5
<1>7. append_source_segment(out, source, turns, from, to) = h[1..k]
  BY <1>3 DEF append_source_segment, FoldLeft, MapThenFoldSet, Copy
<1> HIDE DEF h
<1>8. h[{}] = out /\ \A i \in 1..k : h[1..i] = Copy(turns, from, to, h[1..(i - 1)], over[i])
  BY <1>3, <1>6, PrefixFacts
<1>9. Folding(V, G, out, over, h)
  BY <1>3, <1>8 DEF Folding, CopyFunction
<1>10. Traced(V, G, out, over, h[1..k])
  <2> HIDE DEF G, V, E
  <2> QED BY <1>1, <1>2, <1>9, FoldTrace, Zenon
<1> QED BY <1>1, <1>7, <1>10, Zenon

(* No compacted span lies across the boundaries of a range. *)
Inside(source, from, to) ==
    \A x \in Compacted(source) : Overlaps(x, from, to) => from <= x.start /\ x.end <= to

(* Copying the spans of a range after a tiling of what is before it. *)
LEMMA SegmentTiles ==
    ASSUME NEW turns \in Seq(Turns), NEW source \in Seq(Spans), TilesExactly(source, Len(turns)),
           NEW from \in Nat, NEW to \in Nat, from <= to, to <= Len(turns),
           NEW out \in SpansWithin(Len(turns)), TilesExactly(out, from),
           Inside(source, from, to), from = to => from = 0 \/ from = Len(turns)
    PROVE  /\ append_source_segment(out, source, turns, from, to) \in SpansWithin(Len(turns))
           /\ TilesExactly(append_source_segment(out, source, turns, from, to), to)
           /\ Compacted(append_source_segment(out, source, turns, from, to))
                  \subseteq Compacted(out) \cup Compacted(source)
<1> DEFINE N == Len(turns)
           V == SpansWithin(N)
           E == StartingWithin(N)
           G == CopyFunction(turns, from, to)
           n == Len(source)
           over == overlapping_spans(source, from, to)
           result == append_source_segment(out, source, turns, from, to)
           C == Compacted(out) \cup Compacted(source)
           upto(k) == IF k = 0 THEN from ELSE Smaller(over[k].end, to)
           R == {p \in Nat \X V : TilesExactly(p[2], upto(p[1])) /\ Compacted(p[2]) \subseteq C}
<1>1. N \in Nat /\ n \in Nat /\ from \in 0..N /\ to \in 0..N /\ from \in Nat /\ to \in Nat
      /\ from <= to /\ to <= N
  OBVIOUS
<1>2. /\ \A i \in 0..n : EndOf(source, i) \in Nat /\ EndOf(source, i) <= N
      /\ \A i \in 1..n : /\ source[i] \in Spans /\ source[i].start \in Nat /\ source[i].end \in Nat
                         /\ source[i].start < source[i].end
                         /\ source[i].end <= N
  <2>1. EndOf(source, n) = N
    BY <1>1, TilingFacts
  <2>2. n \in 0..n
    BY <1>1
  <2>3. \A i \in 0..n : EndOf(source, i) \in Nat /\ EndOf(source, i) <= N
    BY <1>1, <2>1, <2>2, TilingFacts, TilingGrows
  <2>4. \A i \in 1..n : /\ source[i] \in Spans /\ source[i].start \in Nat /\ source[i].end \in Nat
                        /\ source[i].start < source[i].end /\ source[i].end = EndOf(source, i)
    BY <1>1, TilingFacts
  <2>5. \A i \in 1..n : i \in 0..n
    BY <1>1
  <2> QED BY <2>3, <2>4, <2>5
<1>3. /\ over \in Seq(E)
      /\ Len(over) = 0 => from = to
      /\ Len(over) # 0 => /\ Links(over, source, from, to)
                          /\ over[1].start <= from /\ to <= over[Len(over)].end
  <2>1. CASE from = to
    <3>1. ASSUME NEW i \in 1..n PROVE ~ Overlaps(source[i], from, to)
      BY <1>1, <1>2, <2>1 DEF Overlaps
    <3>2. over = << >>
      BY <3>1, NoOverlaps
    <3> QED BY <2>1, <3>2
  <2>2. CASE from < to
    <3>1. Covers(over, source, from, to)
      BY <1>1, <2>2, FilterCovers
    <3> HIDE DEF over
    <3>2. ASSUME NEW i \in 1..Len(over) PROVE over[i] \in E
      <4>1. PICK j \in 1..n : over[i] = source[j]
        BY <3>1, Zenon DEF Covers, Links
      <4>2. source[j] \in Spans /\ source[j].start <= N
        BY <1>1, <1>2
      <4> QED BY <4>1, <4>2 DEF StartingWithin
    <3>3. over \in Seq(E)
      <4> HIDE DEF E
      <4> QED BY <3>1, <3>2 DEF Covers
    <3> QED BY <3>1, <3>3 DEF Covers
  <2> QED BY <1>1, <2>1, <2>2
<1> HIDE DEF over
<1>4. Len(over) \in Nat /\ \A i \in 1..Len(over) : over[i] \in Spans
  BY <1>3 DEF StartingWithin
<1>5. <<0, out>> \in R
  <2>1. upto(0) = from
    OBVIOUS
  <2> QED BY <2>1
<1>6. ASSUME NEW k \in 1..Len(over), NEW v \in V, <<k - 1, v>> \in R
      PROVE  <<k, G[<<v, over[k]>>]>> \in R
  <2> DEFINE x == over[k]
             y == Copy(turns, from, to, v, x)
  <2>1. TilesExactly(v, upto(k - 1)) /\ Compacted(v) \subseteq C
    BY <1>6
  <2>2. v \in Seq(Spans)
    BY DEF SpansWithin
  <2>3. x \in E
    BY <1>3
  <2>4. G[<<v, x>>] = y /\ y \in V
    BY <1>1, <2>3, CopyType DEF CopyFunction
  <2>5. Links(over, source, from, to) /\ over[1].start <= from /\ to <= over[Len(over)].end
    BY <1>3, <1>4
  <2>6. /\ x \in Spans
        /\ \E j \in 1..n : x = source[j]
        /\ x.start < x.end /\ x.start < to /\ from < x.end
        /\ k > 1 => x.start = over[k - 1].end
    BY <2>5 DEF Links, Overlaps
  <2>7. x.start \in Nat /\ x.end \in Nat /\ x.end <= N
    BY <1>2, <2>6
  <2>8. k > 1 => from < over[k - 1].end
    BY <2>5, <1>4 DEF Links, Overlaps
  <2>9. upto(k - 1) = Larger(x.start, from)
    <3>1. CASE k = 1
      BY <1>1, <2>5, <2>7, <3>1 DEF Larger
    <3>2. CASE k # 1
      <4>1. k > 1 /\ k - 1 # 0
        BY <1>4, <3>2
      <4>2. over[k - 1].end = x.start
        BY <2>6, <4>1
      <4> HIDE DEF x
      <4> QED BY <1>1, <2>6, <2>7, <2>8, <4>1, <4>2 DEF Larger, Smaller
    <3> QED BY <3>1, <3>2
  <2>10. upto(k) = Smaller(x.end, to)
    <3>1. k # 0
      BY <1>4
    <3> QED BY <3>1
  <2>11. ~ IsRaw(x) => x \in Compacted(source) /\ from <= x.start /\ x.end <= to
    <3>1. PICK j \in 1..n : x = source[j]
      BY <2>6
    <3>2. ~ IsRaw(x) => x \in Compacted(source)
      BY <3>1 DEF Compacted
    <3> HIDE DEF x
    <3> QED BY <2>6, <3>2 DEF Inside, Overlaps
  <2> HIDE DEF x, y, upto
  <2>12. TilesExactly(y, upto(k)) /\ Compacted(y) \subseteq C
    <3>1. CASE IsRaw(x)
      <4> DEFINE a == Larger(x.start, from)
                 b == Smaller(x.end, to)
      <4>1. y = push_raw_span(v, turns, a, b)
        BY <3>1 DEF y, Copy
      <4>2. a \in Nat /\ b \in Nat /\ a <= b /\ b <= N
        BY <1>1, <2>6, <2>7 DEF Larger, Smaller
      <4>3. TilesExactly(v, a) /\ upto(k) = b
        BY <2>1, <2>9, <2>10
      <4> HIDE DEF a, b, C
      <4>4. TilesExactly(y, b) /\ Compacted(y) \subseteq Compacted(v)
        BY <2>2, <4>1, <4>2, <4>3, PushRawTiles
      <4> QED BY <2>1, <4>3, <4>4
    <3>2. CASE ~ IsRaw(x)
      <4>1. y = Append(v, x)
        BY <3>2 DEF y, Copy
      <4>2. upto(k - 1) = x.start /\ upto(k) = x.end
        BY <1>1, <2>7, <2>9, <2>10, <2>11, <3>2 DEF Larger, Smaller
      <4>3. TilesExactly(y, x.end) /\ Compacted(y) = Compacted(v) \cup (IF IsRaw(x) THEN {} ELSE {x})
        BY <2>1, <2>2, <2>6, <2>7, <4>1, <4>2, AppendTiles
      <4> QED BY <2>1, <2>11, <3>2, <4>2, <4>3
    <3> QED BY <3>1, <3>2
  <2>13. <<k, y>> \in R
    <3>1. k \in Nat
      BY <1>4
    <3> QED BY <2>4, <2>12, <3>1
  <2> QED BY <2>4, <2>13 DEF x
<1>7. /\ G \in [V \X E -> V] /\ Traced(V, G, out, over, result)
  BY <1>1, <1>3, SegmentTraced DEF over
<1>8. result \in V /\ <<Len(over), result>> \in R
  <2> HIDE DEF V, E, G, R, result
  <2>1. Kept(V, G, out, over, R)
    BY <1>5, <1>6, Zenon DEF Kept
  <2>2. out \in V
    BY DEF V, N
  <2> QED BY <1>3, <1>7, <2>1, <2>2, TraceInvariant, Zenon
<1>9. TilesExactly(result, upto(Len(over))) /\ Compacted(result) \subseteq C /\ result \in V
  <2> HIDE DEF result, V, C, upto
  <2> QED BY <1>8
<1>10. upto(Len(over)) = to
  <2>1. CASE Len(over) = 0
    BY <1>3, <2>1
  <2>2. CASE Len(over) # 0
    <3>1. Len(over) \in 1..Len(over)
      BY <1>4, <2>2
    <3>2. over[Len(over)].end \in Nat
      BY <1>4, <3>1, SpanFields
    <3> QED BY <1>1, <1>3, <2>2, <3>2 DEF Smaller
  <2> QED BY <2>1, <2>2
<1> QED BY <1>9, <1>10

-----------------------------------------------------------------------------
(***************************************************************************)
(* The artifacts a commit or a compaction keeps.                           *)
(***************************************************************************)
Retain(turns, n, out, a) == IF range_matches_turns(a, turns, n) THEN Append(out, a) ELSE out

RetainFunction(turns, n) == [p \in Seq(Artifacts) \X Artifacts |-> Retain(turns, n, p[1], p[2])]

LEMMA RetainTraced ==
    ASSUME NEW turns, NEW n, NEW artifacts \in Seq(Artifacts)
    PROVE  /\ RetainFunction(turns, n) \in [Seq(Artifacts) \X Artifacts -> Seq(Artifacts)]
           /\ Traced(Seq(Artifacts), RetainFunction(turns, n), << >>, artifacts,
                     MatchingArtifacts(artifacts, turns, n))
<1> DEFINE V == Seq(Artifacts)
           G == RetainFunction(turns, n)
           k == Len(artifacts)
           Iter(f) == [s \in SUBSET (1..k) |->
                          IF s = {} THEN << >>
                          ELSE Retain(turns, n, f[s \ {Max(s)}], artifacts[Max(s)])]
           h == CHOOSE x : x = Iter(x)
<1>1. G \in [V \X Artifacts -> V]
  BY DEF RetainFunction, Retain
<1>2. << >> \in V
  OBVIOUS
<1>3. DOMAIN artifacts = 1..k /\ k \in Nat /\ \A i \in 1..k : artifacts[i] \in Artifacts
  OBVIOUS
<1>4. PICK f : IsFold(V, Artifacts, G, << >>, artifacts, f)
  <2> HIDE DEF G, V
  <2> QED BY <1>1, <1>2, FoldFacts, Zenon
<1>5. f = Iter(f)
  BY <1>4 DEF IsFold, RetainFunction
<1>6. h = Iter(h)
  BY <1>5
<1>7. MatchingArtifacts(artifacts, turns, n) = h[1..k]
  BY <1>3 DEF MatchingArtifacts, FoldLeft, MapThenFoldSet, Retain
<1> HIDE DEF h
<1>8. h[{}] = << >> /\ \A i \in 1..k : h[1..i] = Retain(turns, n, h[1..(i - 1)], artifacts[i])
  BY <1>3, <1>6, PrefixFacts
<1>9. Folding(V, G, << >>, artifacts, h)
  BY <1>3, <1>8 DEF Folding, RetainFunction
<1>10. Traced(V, G, << >>, artifacts, h[1..k])
  <2> HIDE DEF G, V
  <2> QED BY <1>1, <1>2, <1>9, FoldTrace, Zenon
<1> QED BY <1>1, <1>7, <1>10, Zenon

DistinctIds(artifacts) ==
    \A i, j \in 1..Len(artifacts) : artifacts[i].id = artifacts[j].id => i = j

(* r holds the first k artifacts that match, and nothing else. *)
KeptOf(r, k, artifacts, turns, n) ==
    /\ \A i \in 1..Len(r) : /\ \E j \in 1..k : r[i] = artifacts[j]
                            /\ range_matches_turns(r[i], turns, n)
    /\ \A j \in 1..k : range_matches_turns(artifacts[j], turns, n) =>
           \E i \in 1..Len(r) : r[i] = artifacts[j]
    /\ DistinctIds(r)

LEMMA ArtifactsKept ==
    ASSUME NEW turns, NEW n, NEW artifacts \in Seq(Artifacts), DistinctIds(artifacts)
    PROVE  /\ MatchingArtifacts(artifacts, turns, n) \in Seq(Artifacts)
           /\ KeptOf(MatchingArtifacts(artifacts, turns, n), Len(artifacts), artifacts, turns, n)
<1> DEFINE V == Seq(Artifacts)
           G == RetainFunction(turns, n)
           l == Len(artifacts)
           out == MatchingArtifacts(artifacts, turns, n)
           R == {p \in (0..l) \X V : KeptOf(p[2], p[1], artifacts, turns, n)}
<1>1. l \in Nat /\ \A i \in 1..l : artifacts[i] \in Artifacts
  OBVIOUS
<1>2. <<0, << >> >> \in R
  <2>1. << >> \in V /\ Len(<< >>) = 0 /\ 1..0 = {} /\ 0 \in 0..l
    BY <1>1
  <2>2. KeptOf(<< >>, 0, artifacts, turns, n)
    BY <2>1 DEF KeptOf, DistinctIds
  <2> HIDE DEF V, l
  <2> QED BY <2>1, <2>2
<1>3. ASSUME NEW k \in 1..l, NEW v \in V, <<k - 1, v>> \in R
      PROVE  <<k, G[<<v, artifacts[k]>>]>> \in R
  <2> DEFINE x == artifacts[k]
             q == Len(v)
  <2>1. KeptOf(v, k - 1, artifacts, turns, n) /\ v \in Seq(Artifacts) /\ q \in Nat /\ x \in Artifacts
    BY <1>1, <1>3
  <2>2. G[<<v, x>>] = Retain(turns, n, v, x)
    BY <2>1 DEF RetainFunction
  <2>3. CASE range_matches_turns(x, turns, n)
    <3> DEFINE y == Append(v, x)
    <3>1. G[<<v, x>>] = y
      BY <2>2, <2>3 DEF Retain
    <3>2. y \in Seq(Artifacts) /\ Len(y) = q + 1 /\ y[q + 1] = x /\ \A i \in 1..q : y[i] = v[i]
      BY <2>1
    <3> HIDE DEF y
    <3>3. ASSUME NEW i \in 1..(q + 1)
          PROVE  (\E j \in 1..k : y[i] = artifacts[j]) /\ range_matches_turns(y[i], turns, n)
      <4>1. CASE i = q + 1
        <5>1. k \in 1..k
          BY <1>1
        <5> QED BY <2>3, <3>2, <4>1, <5>1
      <4>2. CASE i # q + 1
        <5>1. i \in 1..q
          BY <2>1, <4>2
        <5>2. (\E j \in 1..(k - 1) : v[i] = artifacts[j]) /\ range_matches_turns(v[i], turns, n)
          BY <2>1, <5>1 DEF KeptOf
        <5>3. 1..(k - 1) \subseteq 1..k
          BY <1>1
        <5> QED BY <3>2, <5>1, <5>2, <5>3
      <4> QED BY <4>1, <4>2
    <3>4. ASSUME NEW j \in 1..k, range_matches_turns(artifacts[j], turns, n)
          PROVE  \E i \in 1..(q + 1) : y[i] = artifacts[j]
      <4>1. CASE j = k
        <5>1. q + 1 \in 1..(q + 1)
          BY <2>1
        <5> QED BY <3>2, <4>1, <5>1
      <4>2. CASE j # k
        <5>1. j \in 1..(k - 1)
          BY <1>1, <4>2
        <5>2. PICK i \in 1..q : v[i] = artifacts[j]
          BY <2>1, <3>4, <5>1 DEF KeptOf
        <5>3. i \in 1..(q + 1)
          BY <2>1
        <5> QED BY <3>2, <5>2, <5>3
      <4> QED BY <4>1, <4>2
    <3>5. ASSUME NEW i \in 1..q PROVE v[i].id # x.id
      <4>1. PICK j \in 1..(k - 1) : v[i] = artifacts[j]
        BY <2>1 DEF KeptOf
      <4>2. j \in 1..l /\ k \in 1..l /\ j # k
        BY <1>1
      <4> QED BY <4>1, <4>2 DEF DistinctIds
    <3>6. ASSUME NEW i \in 1..(q + 1), NEW j \in 1..(q + 1), y[i].id = y[j].id
          PROVE  i = j
      <4>1. (i \in 1..q \/ i = q + 1) /\ (j \in 1..q \/ j = q + 1)
        BY <2>1
      <4>2. \A a, b \in 1..q : v[a].id = v[b].id => a = b
        BY <2>1 DEF KeptOf, DistinctIds
      <4> HIDE DEF q, x
      <4> QED BY <3>2, <3>5, <3>6, <4>1, <4>2
    <3>7. KeptOf(y, k, artifacts, turns, n)
      BY <3>2, <3>3, <3>4, <3>6 DEF KeptOf, DistinctIds
    <3>8. k \in 0..l
      BY <1>1
    <3> QED BY <3>1, <3>2, <3>7, <3>8
  <2>4. CASE ~ range_matches_turns(x, turns, n)
    <3>1. G[<<v, x>>] = v
      BY <2>2, <2>4 DEF Retain
    <3>2. /\ k \in 0..l /\ 1..(k - 1) \subseteq 1..k
          /\ \A j \in 1..k : j \in 1..(k - 1) \/ j = k
      BY <1>1
    <3>3. KeptOf(v, k, artifacts, turns, n)
      BY <2>1, <2>4, <3>2 DEF KeptOf
    <3> QED BY <2>1, <3>1, <3>2, <3>3
  <2> QED BY <2>3, <2>4
<1>4. G \in [V \X Artifacts -> V] /\ Traced(V, G, << >>, artifacts, out)
  BY RetainTraced, Zenon
<1>5. << >> \in V
  OBVIOUS
<1>6. out \in V /\ <<Len(artifacts), out>> \in R
  <2> HIDE DEF V, G, R, out
  <2>1. Kept(V, G, << >>, artifacts, R)
    BY <1>2, <1>3, Zenon DEF Kept, l
  <2> QED BY <1>4, <1>5, <2>1, TraceInvariant, Zenon
<1> QED BY <1>6

-----------------------------------------------------------------------------
(***************************************************************************)
(* One conversation.                                                       *)
(***************************************************************************)
Chained(s) ==
    /\ s.head <= s.ceiling
    /\ s.ceiling <= Len(s.lineage)
    /\ \A i \in 1..s.ceiling :
          /\ s.lineage[i] \in Range(s.raw)
          /\ s.lineage[i].parent = AnchorAt(s.lineage, i - 1)
    /\ s.pending # NoValue => s.pending.parent = tip_id(s)

Unique(t) ==
    \A i, j \in 1..Len(t) :
        \/ i = j
        \/ t[i].id # t[j].id /\ (t[i].call = t[j].call => t[i].call = NoCall)

IndexFits(s) ==
    /\ Indexed(s.index, s.lineage)
    /\ s.head <= Len(s.index.ends)
    /\ s.visibleTurns = s.head
    /\ s.visibleEntries = entry_count_for_turns(s.index, s.head)

IdsBetween(turns, from, to) == [i \in 1..(to - from) |-> turns[from + i].id]

(* Every artifact stands for the turns of its range, and every compacted     *)
(* span has its artifact.                                                    *)
Summarised(a, turns, n) ==
    range_matches_turns(a, turns, n) /\ a.sources = IdsBetween(turns, a.start, a.end)

HasArtifact(x, artifacts) ==
    \E k \in 1..Len(artifacts) :
        artifacts[k].id = x.artifact /\ artifacts[k].start = x.start /\ artifacts[k].end = x.end

Projected(s) ==
    /\ TilesExactly(s.spans, s.ceiling)
    /\ DistinctIds(s.artifacts)
    /\ \A k \in 1..Len(s.artifacts) : Summarised(s.artifacts[k], s.lineage, s.ceiling)
    /\ \A x \in Compacted(s.spans) : HasArtifact(x, s.artifacts)

Good(s) ==
    Chained(s) /\ Unique(s.raw) /\ Unique(s.lineage) /\ IndexFits(s) /\ Projected(s)

LEMMA ConvFields ==
    ASSUME NEW s \in Conversations
    PROVE  /\ s.raw \in Seq(Turns) /\ s.lineage \in Seq(Turns)
           /\ s.ceiling \in Nat /\ s.head \in Nat /\ s.version \in 0..MaxVersion /\ s.version \in Nat
           /\ s.pending \in [id: TurnIds, parent: Anchors] \cup {NoValue}
           /\ s.index \in Indexes /\ s.visibleTurns \in Nat /\ s.visibleEntries \in Nat
           /\ s.spans \in Seq(Spans) /\ s.artifacts \in Seq(Artifacts)
           /\ s.origin \in [parent: Convs, point: BoundaryTokens] \cup {NoValue}
           /\ s.panicked \in BOOLEAN
<1>1. s.version \in 0..MaxVersion
  BY DEF Conversations
<1>2. s.version \in Nat
  BY <1>1, VersionAssumption
<1> QED BY <1>1, <1>2 DEF Conversations, Indexes

LEMMA ConvMade ==
    ASSUME NEW s, NEW raw \in Seq(Turns), NEW lineage \in Seq(Turns),
           NEW ceiling \in Nat, NEW head \in Nat, NEW version \in 0..MaxVersion,
           NEW pending \in [id: TurnIds, parent: Anchors] \cup {NoValue},
           NEW index \in Indexes, NEW visibleTurns \in Nat, NEW visibleEntries \in Nat,
           NEW spans \in Seq(Spans), NEW artifacts \in Seq(Artifacts),
           NEW origin \in [parent: Convs, point: BoundaryTokens] \cup {NoValue},
           NEW panicked \in BOOLEAN,
           s = [raw |-> raw, lineage |-> lineage, ceiling |-> ceiling, head |-> head,
                version |-> version, pending |-> pending, index |-> index,
                visibleTurns |-> visibleTurns, visibleEntries |-> visibleEntries,
                spans |-> spans, artifacts |-> artifacts, origin |-> origin,
                panicked |-> panicked]
    PROVE  s \in Conversations
BY DEF Conversations, Indexes

LEMMA NewConversationGood ==
    NewConversation \in Conversations /\ Good(NewConversation)
<1> DEFINE s == NewConversation
<1>1. /\ s.raw = << >> /\ s.lineage = << >> /\ s.ceiling = 0 /\ s.head = 0
      /\ s.pending = NoValue /\ s.index = EmptyIndex /\ s.visibleTurns = 0 /\ s.visibleEntries = 0
      /\ s.spans = << >> /\ s.artifacts = << >> /\ s.panicked = FALSE
  BY DEF NewConversation
<1>2. s \in Conversations
  <2>1. 0 \in 0..MaxVersion
    BY VersionAssumption
  <2>2. << >> \in Seq(Turns) /\ << >> \in Seq(Spans) /\ << >> \in Seq(Artifacts)
    OBVIOUS
  <2>3. EmptyIndex \in Indexes
    BY DEF EmptyIndex, Indexes
  <2> QED BY <2>1, <2>2, <2>3, ConvMade DEF NewConversation
<1>3. Len(<< >>) = 0 /\ 1..0 = {}
  OBVIOUS
<1> HIDE DEF s
<1>4. Chained(s) /\ Unique(s.raw) /\ Unique(s.lineage)
  BY <1>1, <1>3 DEF Chained, Unique
<1>5. IndexFits(s)
  <2>1. EmptyIndex.ends = << >> /\ EmptyIndex.entries = << >>
    BY DEF EmptyIndex
  <2> QED BY <1>1, <1>3, <2>1 DEF IndexFits, Indexed, entry_count_for_turns
<1>6. Projected(s)
  <2>1. TilesExactly(<< >>, 0) /\ Compacted(<< >>) = {}
    BY EmptyTiles
  <2> QED BY <1>1, <1>3, <2>1 DEF Projected, DistinctIds
<1> QED BY <1>2, <1>4, <1>5, <1>6 DEF Good, s

(* Good does not depend on the version, the origin or a panic. *)
LEMMA GoodElsewhere ==
    ASSUME NEW s \in Conversations, Good(s), NEW r \in Conversations,
           r.raw = s.raw, r.lineage = s.lineage, r.ceiling = s.ceiling, r.head = s.head,
           r.index = s.index, r.visibleTurns = s.visibleTurns,
           r.visibleEntries = s.visibleEntries, r.spans = s.spans, r.artifacts = s.artifacts,
           r.pending # NoValue => r.pending.parent = tip_id(s)
    PROVE  Good(r)
<1>1. tip_id(r) = tip_id(s)
  BY DEF tip_id
<1>2. Chained(r) /\ Unique(r.raw) /\ Unique(r.lineage)
  BY <1>1 DEF Good, Chained
<1>3. IndexFits(r) /\ Projected(r)
  BY DEF Good, IndexFits, Projected
<1> QED BY <1>2, <1>3 DEF Good

LEMMA PendingSetGood ==
    ASSUME NEW s \in Conversations, Good(s), NEW t \in TurnIds
    PROVE  /\ [s EXCEPT !.pending = [id |-> t, parent |-> tip_id(s)]] \in Conversations
           /\ Good([s EXCEPT !.pending = [id |-> t, parent |-> tip_id(s)]])
<1> DEFINE p == [id |-> t, parent |-> tip_id(s)]
           r == [s EXCEPT !.pending = p]
<1>1. /\ s.lineage \in Seq(Turns) /\ s.head \in 0..Len(s.lineage)
  BY ConvFields DEF Good, Chained
<1>2. tip_id(s) \in Anchors
  BY <1>1, AnchorType DEF tip_id
<1>3. p \in [id: TurnIds, parent: Anchors] /\ p.parent = tip_id(s)
  BY <1>2
<1> HIDE DEF p
<1>4. r \in Conversations
  BY <1>3 DEF Conversations
<1>5. /\ r.raw = s.raw /\ r.lineage = s.lineage /\ r.ceiling = s.ceiling /\ r.head = s.head
      /\ r.index = s.index /\ r.visibleTurns = s.visibleTurns
      /\ r.visibleEntries = s.visibleEntries /\ r.spans = s.spans /\ r.artifacts = s.artifacts
      /\ r.pending = p
  BY DEF Conversations
<1> HIDE DEF r
<1>6. Good(r)
  BY <1>3, <1>4, <1>5, GoodElsewhere
<1> QED BY <1>4, <1>6 DEF p, r

LEMMA PendingClearedGood ==
    ASSUME NEW s \in Conversations, Good(s)
    PROVE  [s EXCEPT !.pending = NoValue] \in Conversations /\ Good([s EXCEPT !.pending = NoValue])
<1> DEFINE r == [s EXCEPT !.pending = NoValue]
<1>1. r \in Conversations
  BY DEF Conversations
<1>2. /\ r.raw = s.raw /\ r.lineage = s.lineage /\ r.ceiling = s.ceiling /\ r.head = s.head
      /\ r.index = s.index /\ r.visibleTurns = s.visibleTurns
      /\ r.visibleEntries = s.visibleEntries /\ r.spans = s.spans /\ r.artifacts = s.artifacts
      /\ r.pending = NoValue
  BY DEF Conversations
<1> HIDE DEF r
<1>3. Good(r)
  BY <1>1, <1>2, GoodElsewhere
<1> QED BY <1>1, <1>3 DEF r

LEMMA SummarisedElsewhere ==
    ASSUME NEW turns, NEW others, NEW n, NEW m \in Nat, NEW a \in Artifacts,
           Summarised(a, turns, n), a.end <= m, \A i \in 1..m : others[i] = turns[i]
    PROVE  Summarised(a, others, m)
<1>1. a.start \in Nat /\ a.end \in Nat /\ a.start < a.end
  BY DEF Artifacts, Summarised, range_matches_turns
<1>2. ASSUME NEW i \in 0..m PROVE AnchorAt(others, i) = AnchorAt(turns, i)
  <2>1. i # 0 => i \in 1..m
    OBVIOUS
  <2> QED BY <2>1 DEF AnchorAt
<1>3. a.start \in 0..m /\ a.end \in 0..m
  BY <1>1
<1>4. range_matches_turns(a, others, m)
  BY <1>1, <1>2, <1>3 DEF Summarised, range_matches_turns
<1>5. IdsBetween(others, a.start, a.end) = IdsBetween(turns, a.start, a.end)
  <2>1. \A i \in 1..(a.end - a.start) : a.start + i \in 1..m
    BY <1>1
  <2> QED BY <2>1 DEF IdsBetween
<1> QED BY <1>4, <1>5 DEF Summarised

(* The head can move to any position the index reaches. *)
LEMMA MoveGood ==
    ASSUME NEW s \in Conversations, Good(s), s.pending = NoValue, NEW n \in 0..s.ceiling,
           s.version < MaxVersion
    PROVE  /\ move_head(s, n) \in Conversations
           /\ \/ move_head(s, n).panicked
              \/ Good(move_head(s, n)) /\ move_head(s, n).version = s.version + 1
<1> DEFINE r == move_head(s, n)
<1>1. /\ s.index \in Indexes /\ s.ceiling \in Nat /\ n \in Nat /\ n <= s.ceiling
      /\ s.version \in Nat /\ MaxVersion \in Nat /\ s.version + 1 \in 0..MaxVersion
      /\ s.lineage \in Seq(Turns)
  BY ConvFields, VersionAssumption
<1>2. CASE entry_count_known(s.index, n)
  <2> DEFINE e == entry_count_for_turns(s.index, n)
             v == s.version + 1
  <2>1. n \in 0..Len(s.index.ends)
    BY <1>1, <1>2 DEF entry_count_known
  <2>2. e \in Nat
    <3>1. Indexed(s.index, s.lineage)
      BY DEF Good, IndexFits
    <3>2. Len(s.index.entries) \in Nat
      BY <1>1 DEF Indexes
    <3> QED BY <1>1, <2>1, <3>1, <3>2, CountsGrow
  <2>3. /\ r = [s EXCEPT !.head = n, !.visibleTurns = n, !.visibleEntries = e, !.version = v]
        /\ v \in 0..MaxVersion
    BY <1>1, <1>2 DEF move_head, scope_committed_turns, Conversations
  <2> HIDE DEF e, v
  <2>4. r \in Conversations
    BY <1>1, <2>2, <2>3 DEF Conversations
  <2>5. /\ r.raw = s.raw /\ r.lineage = s.lineage /\ r.ceiling = s.ceiling /\ r.head = n
        /\ r.index = s.index /\ r.visibleTurns = n
        /\ r.visibleEntries = e /\ r.spans = s.spans /\ r.artifacts = s.artifacts
        /\ r.pending = s.pending /\ r.version = v
    BY <2>3 DEF Conversations
  <2> HIDE DEF r
  <2>6. Chained(r) /\ Unique(r.raw) /\ Unique(r.lineage) /\ Projected(r)
    BY <1>1, <2>5 DEF Good, Chained, Projected
  <2>7. IndexFits(r)
    BY <2>1, <2>5 DEF Good, IndexFits, e
  <2> QED BY <2>4, <2>5, <2>6, <2>7 DEF Good, r, v
<1>3. CASE ~ entry_count_known(s.index, n)
  <2>1. r = [s EXCEPT !.head = n, !.panicked = TRUE]
    BY <1>3 DEF move_head
  <2>2. r \in Conversations /\ r.panicked
    BY <1>1, <2>1 DEF Conversations
  <2> QED BY <2>2
<1> QED BY <1>2, <1>3

(* A fork shares the backing lineage and its index, up to a ceiling of its   *)
(* own.                                                                      *)
LEMMA ForkGood ==
    ASSUME NEW s \in Conversations, Good(s), NEW c \in Convs, NEW b \in BoundaryTokens,
           NEW n \in 0..s.ceiling, n <= Len(s.index.ends)
    PROVE  ForkOf(s, c, b, n) \in Conversations /\ Good(ForkOf(s, c, b, n))
<1> DEFINE r == ForkOf(s, c, b, n)
           own == SubSeq(s.lineage, 1, n)
           raws == raw_for_active_turns(own)
           e == entry_count_for_turns(s.index, n)
           o == [parent |-> c, point |-> b]
<1>1. /\ s.index \in Indexes /\ s.ceiling \in Nat /\ n \in Nat /\ n <= s.ceiling
      /\ s.lineage \in Seq(Turns) /\ s.ceiling <= Len(s.lineage) /\ Len(s.lineage) \in Nat
  BY ConvFields DEF Good, Chained
<1>2. e \in Nat
  <2>1. Indexed(s.index, s.lineage) /\ n \in 0..Len(s.index.ends)
    BY <1>1 DEF Good, IndexFits
  <2>2. Len(s.index.entries) \in Nat
    BY <1>1 DEF Indexes
  <2> QED BY <1>1, <2>1, <2>2, CountsGrow
<1>3. own \in Seq(Turns) /\ Len(own) = n /\ DOMAIN own = 1..n /\ \A i \in 1..n : own[i] = s.lineage[i]
  BY <1>1
<1> HIDE DEF own
<1>4. raws \in Seq(Spans) /\ TilesExactly(raws, n) /\ Compacted(raws) = {}
  <2>1. raws = push_raw_span(<< >>, own, 0, n)
    BY <1>3 DEF raw_for_active_turns
  <2>2. << >> \in Seq(Spans) /\ TilesExactly(<< >>, 0) /\ Compacted(<< >>) = {}
    BY EmptyTiles, Zenon
  <2> DEFINE none == << >>
             zero == 0
  <2>3. /\ none \in Seq(Spans) /\ TilesExactly(none, zero) /\ zero \in Nat /\ zero <= n
        /\ raws = push_raw_span(none, own, zero, n) /\ n <= Len(own)
    BY <1>1, <1>3, <2>1, <2>2
  <2> HIDE DEF none, zero, raws
  <2>4. /\ raws \in Seq(Spans) /\ TilesExactly(raws, n)
        /\ Compacted(raws) \subseteq Compacted(none)
    BY <1>1, <1>3, <2>3, PushRawTiles
  <2> QED BY <2>2, <2>4 DEF none
<1> HIDE DEF raws, e
<1>5. /\ r = [raw |-> own, lineage |-> s.lineage, ceiling |-> n, head |-> n,
              version |-> 0, pending |-> NoValue, index |-> s.index, visibleTurns |-> n,
              visibleEntries |-> e, spans |-> raws, artifacts |-> << >>,
              origin |-> o, panicked |-> FALSE]
  BY DEF ForkOf, own, raws, e
<1>6. r \in Conversations
  <2>1. 0 \in 0..MaxVersion
    BY VersionAssumption
  <2>2. << >> \in Seq(Artifacts)
    OBVIOUS
  <2>3. o \in [parent: Convs, point: BoundaryTokens]
    OBVIOUS
  <2> HIDE DEF r, o
  <2> QED BY <1>1, <1>2, <1>3, <1>4, <1>5, <2>1, <2>2, <2>3 DEF Conversations, Indexes
<1>7. /\ r.raw = own /\ r.lineage = s.lineage /\ r.ceiling = n /\ r.head = n
      /\ r.index = s.index /\ r.visibleTurns = n
      /\ r.visibleEntries = e /\ r.spans = raws /\ r.artifacts = << >>
      /\ r.pending = NoValue
  BY <1>5
<1> HIDE DEF r
<1>8. Chained(r)
  <2>1. ASSUME NEW i \in 1..n
        PROVE  /\ s.lineage[i] \in Range(own)
               /\ s.lineage[i].parent = AnchorAt(s.lineage, i - 1)
    <3>1. i \in 1..s.ceiling
      BY <1>1
    <3>2. s.lineage[i] = own[i] /\ i \in DOMAIN own
      BY <1>3
    <3> QED BY <3>1, <3>2 DEF Good, Chained, Range
  <2> QED BY <1>1, <1>7, <2>1 DEF Chained
<1>9. Unique(r.raw) /\ Unique(r.lineage)
  <2>1. 1..n \subseteq 1..Len(s.lineage)
    BY <1>1
  <2>2. Unique(s.lineage)
    BY DEF Good
  <2> QED BY <1>3, <1>7, <2>1, <2>2 DEF Unique
<1>10. IndexFits(r)
  BY <1>7 DEF Good, IndexFits, e
<1>11. Projected(r)
  <2>1. Len(<< >>) = 0 /\ 1..0 = {}
    OBVIOUS
  <2> QED BY <1>4, <1>7, <2>1 DEF Projected, DistinctIds
<1> QED BY <1>6, <1>8, <1>9, <1>10, <1>11 DEF Good, r

(* What a restart rebuilds is what the conversation was about. *)
LEMMA RestoreGood ==
    ASSUME NEW s \in Conversations, Good(s), s.pending = NoValue
    PROVE  /\ restore_v1(s) \in Conversations /\ Good(restore_v1(s))
           /\ restore_v1(s).version = s.version
           /\ Structure(restore_v1(s)) = Structure(s)
<1> DEFINE r == restore_v1(s)
           active == ActiveTurns(s)
           own == SubSeq(s.lineage, 1, s.ceiling)
           x == rebuild(active)
           e == Len(x.entries)
<1>1. /\ s.ceiling \in Nat /\ s.head \in Nat /\ s.head <= s.ceiling
      /\ s.lineage \in Seq(Turns) /\ s.ceiling <= Len(s.lineage) /\ Len(s.lineage) \in Nat
  BY ConvFields DEF Good, Chained
<1>2. /\ own \in Seq(Turns) /\ Len(own) = s.ceiling /\ DOMAIN own = 1..s.ceiling
      /\ \A i \in 1..s.ceiling : own[i] = s.lineage[i]
  BY <1>1
<1>3. /\ active \in Seq(Turns) /\ Len(active) = s.head
      /\ \A i \in 1..s.head : active[i] = s.lineage[i]
  BY <1>1 DEF ActiveTurns
<1> HIDE DEF own, active
<1>4. x \in Indexes /\ Indexed(x, active) /\ Len(x.ends) = s.head
  BY <1>3, RebuildIndexes
<1> HIDE DEF x
<1>5. e \in Nat
  BY <1>4 DEF Indexes
<1>6. r = [s EXCEPT !.lineage = own, !.index = x, !.visibleTurns = s.head, !.visibleEntries = e]
  BY DEF restore_v1, lineage_turns, own, x, active
<1>7. e = entry_count_for_turns(x, s.head)
  BY <1>4 DEF Indexed
<1> HIDE DEF e
<1>8. r \in Conversations
  <2>1. own \in Seq(Turns) /\ x \in Indexes /\ s.head \in Nat
    BY <1>1, <1>2, <1>4
  <2> HIDE DEF r
  <2> QED BY <1>5, <1>6, <2>1 DEF Conversations, Indexes
<1>9. /\ r.raw = s.raw /\ r.lineage = own /\ r.ceiling = s.ceiling /\ r.head = s.head
      /\ r.index = x /\ r.visibleTurns = s.head
      /\ r.visibleEntries = e /\ r.spans = s.spans /\ r.artifacts = s.artifacts
      /\ r.pending = NoValue /\ r.version = s.version
  BY <1>6 DEF Conversations
<1> HIDE DEF r
<1>10. Chained(r)
  <2>1. ASSUME NEW i \in 1..s.ceiling
        PROVE  own[i] \in Range(s.raw) /\ own[i].parent = AnchorAt(own, i - 1)
    <3>1. own[i] = s.lineage[i] /\ s.lineage[i] \in Range(s.raw)
          /\ s.lineage[i].parent = AnchorAt(s.lineage, i - 1)
      BY <1>2 DEF Good, Chained
    <3>2. i - 1 # 0 => i - 1 \in 1..s.ceiling
      BY <1>1
    <3>3. AnchorAt(own, i - 1) = AnchorAt(s.lineage, i - 1)
      BY <1>2, <3>2 DEF AnchorAt
    <3> QED BY <3>1, <3>3
  <2> QED BY <1>1, <1>2, <1>9, <2>1 DEF Chained
<1>11. Unique(r.raw) /\ Unique(r.lineage)
  <2>1. 1..s.ceiling \subseteq 1..Len(s.lineage)
    BY <1>1
  <2>2. Unique(s.lineage) /\ Unique(s.raw)
    BY DEF Good
  <2>3. Unique(own)
    BY <1>2, <2>1, <2>2 DEF Unique
  <2> QED BY <1>9, <2>2, <2>3
<1>12. IndexFits(r)
  <2>1. 1..Len(x.ends) \subseteq 1..s.ceiling
    BY <1>1, <1>4
  <2>2. \A i \in 1..Len(x.ends) : own[i] = active[i]
    BY <1>2, <1>3, <1>4, <2>1
  <2>3. Len(x.ends) <= Len(own)
    BY <1>1, <1>2, <1>4
  <2>4. Indexed(x, own)
    BY <1>2, <1>3, <1>4, <2>2, <2>3, IndexedElsewhere
  <2> QED BY <1>1, <1>4, <1>7, <1>9, <2>4 DEF IndexFits
<1>13. Projected(r)
  <2>1. ASSUME NEW k \in 1..Len(s.artifacts) PROVE Summarised(s.artifacts[k], own, s.ceiling)
    <3>1. s.artifacts[k] \in Artifacts
      BY ConvFields
    <3>2. Summarised(s.artifacts[k], s.lineage, s.ceiling)
      BY DEF Good, Projected
    <3>3. s.artifacts[k].end <= s.ceiling
      BY <3>2 DEF Summarised, range_matches_turns
    <3> QED BY <1>1, <1>2, <3>1, <3>2, <3>3, SummarisedElsewhere
  <2> QED BY <1>9, <2>1 DEF Good, Projected
<1>14. Structure(r) = Structure(s)
  <2>1. SubSeq(own, 1, s.ceiling) = own
    BY <1>2, SubSeqFull
  <2> QED BY <1>9, <2>1 DEF Structure, lineage_turns, own
<1> QED BY <1>8, <1>9, <1>10, <1>11, <1>12, <1>13, <1>14 DEF Good, r

-----------------------------------------------------------------------------
(***************************************************************************)
(* A commit.  It cuts the lineage at the head, and what is kept about the  *)
(* turns behind the head goes with them.                                   *)
(***************************************************************************)

(* l is the lineage of s up to its head, and one turn. *)
Extends(l, s, turn) ==
    /\ l \in Seq(Turns)
    /\ Len(l) = s.head + 1
    /\ l[s.head + 1] = turn
    /\ \A i \in 1..s.head : l[i] = s.lineage[i]

LEMMA AppendedExtends ==
    ASSUME NEW s \in Conversations, Good(s), NEW turn \in Turns
    PROVE  Extends(Append(SubSeq(s.lineage, 1, s.head), turn), s, turn)
<1>1. /\ s.head \in Nat /\ s.lineage \in Seq(Turns) /\ s.head <= Len(s.lineage)
  BY ConvFields DEF Good, Chained
<1> DEFINE own == SubSeq(s.lineage, 1, s.head)
<1>2. own \in Seq(Turns) /\ Len(own) = s.head /\ \A i \in 1..s.head : own[i] = s.lineage[i]
  BY <1>1
<1> HIDE DEF own
<1> QED BY <1>1, <1>2 DEF Extends, own

PushedIndex(s, turn) ==
    IF s.visibleTurns = Len(s.index.ends)
    THEN push_turn(s.index, turn)
    ELSE push_turn(visible_prefix(s.index, s.visibleTurns, s.visibleEntries), turn)

LEMMA PushedFits ==
    ASSUME NEW s \in Conversations, Good(s), NEW turn \in Turns, NEW l, Extends(l, s, turn)
    PROVE  /\ PushedIndex(s, turn) \in Indexes /\ Indexed(PushedIndex(s, turn), l)
           /\ Len(PushedIndex(s, turn).ends) = s.head + 1
<1>1. /\ s.index \in Indexes /\ s.lineage \in Seq(Turns) /\ s.head \in Nat
      /\ Indexed(s.index, s.lineage) /\ s.head <= Len(s.index.ends)
      /\ s.visibleTurns = s.head /\ s.visibleEntries = entry_count_for_turns(s.index, s.head)
      /\ l \in Seq(Turns) /\ Len(l) = s.head + 1 /\ l[s.head + 1] = turn
      /\ \A i \in 1..s.head : l[i] = s.lineage[i]
  BY ConvFields DEF Good, IndexFits, Extends
<1>2. CASE s.head = Len(s.index.ends)
  <2>1. PushedIndex(s, turn) = push_turn(s.index, l[Len(s.index.ends) + 1])
    BY <1>1, <1>2 DEF PushedIndex
  <2>2. Len(s.index.ends) + 1 <= Len(l)
    BY <1>1, <1>2
  <2>3. \A i \in 1..Len(s.index.ends) : l[i] = s.lineage[i]
    BY <1>1, <1>2
  <2> DEFINE x == s.index
             p == push_turn(x, l[Len(x.ends) + 1])
  <2>4. x \in Indexes /\ Indexed(x, s.lineage) /\ Len(x.ends) + 1 <= Len(l)
        /\ \A i \in 1..Len(x.ends) : l[i] = s.lineage[i]
    BY <1>1, <2>2, <2>3
  <2> HIDE DEF x
  <2>5. p \in Indexes /\ Indexed(p, l) /\ Len(p.ends) = Len(x.ends) + 1
    BY <1>1, <2>4, PushKeepsIndexed
  <2> QED BY <1>2, <2>1, <2>5 DEF x
<1>3. CASE s.head # Len(s.index.ends)
  <2> DEFINE x == visible_prefix(s.index, s.head, entry_count_for_turns(s.index, s.head))
  <2>1. s.head \in 0..Len(s.index.ends)
    <3>1. Len(s.index.ends) \in Nat
      BY <1>1 DEF Indexes
    <3> QED BY <1>1, <3>1
  <2>2. x \in Indexes /\ Indexed(x, s.lineage) /\ Len(x.ends) = s.head
    BY <1>1, <2>1, PrefixKeepsIndexed
  <2>3. PushedIndex(s, turn) = push_turn(x, turn)
    BY <1>1, <1>3 DEF PushedIndex
  <2> HIDE DEF x
  <2>4. Len(x.ends) + 1 <= Len(l) /\ l[Len(x.ends) + 1] = turn
        /\ \A i \in 1..Len(x.ends) : l[i] = s.lineage[i]
    BY <1>1, <2>2
  <2>5. /\ push_turn(x, l[Len(x.ends) + 1]) \in Indexes
        /\ Indexed(push_turn(x, l[Len(x.ends) + 1]), l)
        /\ Len(push_turn(x, l[Len(x.ends) + 1]).ends) = Len(x.ends) + 1
    BY <1>1, <2>2, <2>4, PushKeepsIndexed
  <2> QED BY <2>2, <2>3, <2>4, <2>5
<1> QED BY <1>2, <1>3

LEMMA ExtendedProjection ==
    ASSUME NEW s \in Conversations, Good(s), NEW turn \in Turns, NEW l, Extends(l, s, turn)
    PROVE  LET spans == extend_after_commit(s.spans, l, s.head)
               artifacts == MatchingArtifacts(s.artifacts, l, s.head)
           IN  /\ spans \in Seq(Spans) /\ artifacts \in Seq(Artifacts)
               /\ TilesExactly(spans, s.head + 1)
               /\ DistinctIds(artifacts)
               /\ \A k \in 1..Len(artifacts) : Summarised(artifacts[k], l, s.head + 1)
               /\ \A x \in Compacted(spans) : HasArtifact(x, artifacts)
<1> DEFINE clipped == active_projection_spans(s.spans, l, s.head)
           spans == push_raw_span(clipped, l, s.head, s.head + 1)
           kept == MatchingArtifacts(s.artifacts, l, s.head)
<1>1. /\ s.head \in Nat /\ s.ceiling \in Nat /\ s.head <= s.ceiling
      /\ s.spans \in Seq(Spans) /\ s.artifacts \in Seq(Artifacts) /\ s.lineage \in Seq(Turns)
      /\ l \in Seq(Turns) /\ Len(l) = s.head + 1
      /\ \A i \in 1..s.head : l[i] = s.lineage[i]
      /\ TilesExactly(s.spans, s.ceiling) /\ DistinctIds(s.artifacts)
      /\ \A k \in 1..Len(s.artifacts) : Summarised(s.artifacts[k], s.lineage, s.ceiling)
      /\ \A x \in Compacted(s.spans) : HasArtifact(x, s.artifacts)
  BY ConvFields DEF Good, Chained, Projected, Extends
<1>2. s.head \in 0..Len(l) /\ s.head + 1 \in Nat /\ s.head <= s.head + 1 /\ s.head + 1 <= Len(l)
      /\ Len(s.artifacts) \in Nat
  BY <1>1
<1>3. /\ clipped \in Seq(Spans) /\ TilesExactly(clipped, s.head)
      /\ \A x \in Compacted(clipped) : x \in Compacted(s.spans) /\ range_matches_turns(x, l, s.head)
  BY <1>1, <1>2, ClipTiles
<1> HIDE DEF clipped
<1>4. /\ spans \in Seq(Spans) /\ TilesExactly(spans, s.head + 1)
      /\ Compacted(spans) \subseteq Compacted(clipped)
  <2> DEFINE to == s.head + 1
  <2>1. to \in Nat /\ s.head <= to /\ to <= Len(l)
    BY <1>1
  <2> HIDE DEF to
  <2>2. LET sp == push_raw_span(clipped, l, s.head, to)
        IN  sp \in Seq(Spans) /\ TilesExactly(sp, to) /\ Compacted(sp) \subseteq Compacted(clipped)
    BY <1>1, <1>3, <2>1, PushRawTiles
  <2> QED BY <2>2 DEF to
<1> HIDE DEF spans
<1>5. kept \in Seq(Artifacts) /\ KeptOf(kept, Len(s.artifacts), s.artifacts, l, s.head)
  BY <1>1, ArtifactsKept
<1> HIDE DEF kept
<1>6. ASSUME NEW k \in 1..Len(kept) PROVE Summarised(kept[k], l, s.head + 1)
  <2>1. PICK j \in 1..Len(s.artifacts) : kept[k] = s.artifacts[j]
    BY <1>5 DEF KeptOf
  <2>2. range_matches_turns(kept[k], l, s.head)
    BY <1>5 DEF KeptOf
  <2>3. kept[k] \in Artifacts /\ Summarised(kept[k], s.lineage, s.ceiling)
    BY <1>1, <2>1
  <2>4. kept[k].end <= s.head /\ kept[k].end \in Nat
    BY <2>2, <2>3 DEF range_matches_turns, Artifacts
  <2>5. Summarised(kept[k], l, s.head)
    BY <1>1, <2>3, <2>4, SummarisedElsewhere
  <2> QED BY <1>1, <2>4, <2>5 DEF Summarised, range_matches_turns
<1>7. ASSUME NEW x \in Compacted(spans) PROVE HasArtifact(x, kept)
  <2>1. x \in Compacted(s.spans) /\ range_matches_turns(x, l, s.head)
    BY <1>3, <1>4
  <2>2. PICK j \in 1..Len(s.artifacts) :
            s.artifacts[j].id = x.artifact /\ s.artifacts[j].start = x.start /\ s.artifacts[j].end = x.end
    BY <1>1, <2>1 DEF HasArtifact
  <2> DEFINE a == s.artifacts[j]
  <2>3. a \in Artifacts /\ Summarised(a, s.lineage, s.ceiling) /\ a.id = x.artifact
        /\ a.start = x.start /\ a.end = x.end
    BY <1>1, <2>2
  <2> HIDE DEF a
  <2>4. a.end <= s.head
    BY <2>1, <2>3 DEF range_matches_turns
  <2>5. Summarised(a, l, s.head)
    BY <1>1, <2>3, <2>4, SummarisedElsewhere
  <2>6. PICK i \in 1..Len(kept) : kept[i] = a
    BY <1>5, <2>5 DEF KeptOf, Summarised, a
  <2> QED BY <2>3, <2>6 DEF HasArtifact
<1>8. extend_after_commit(s.spans, l, s.head) = spans
  BY DEF extend_after_commit, spans, clipped
<1> QED BY <1>4, <1>5, <1>6, <1>7, <1>8 DEF KeptOf, kept

LEMMA CommitFields ==
    ASSUME NEW s \in Conversations, Good(s), NEW turn \in Turns, s.version < MaxVersion
    PROVE  LET r == commit_draft(s, turn)
               l == Append(SubSeq(s.lineage, 1, s.head), turn)
           IN  /\ r \in Conversations
               /\ r.raw = Append(s.raw, turn) /\ r.lineage = l
               /\ r.head = s.head + 1 /\ r.ceiling = s.head + 1 /\ r.version = s.version + 1
               /\ r.pending = NoValue /\ r.index = PushedIndex(s, turn)
               /\ r.visibleTurns = s.head + 1
               /\ r.visibleEntries = entry_count_for_turns(PushedIndex(s, turn), s.head + 1)
               /\ r.spans = extend_after_commit(s.spans, l, s.head)
               /\ r.artifacts = MatchingArtifacts(s.artifacts, l, s.head)
               /\ r.panicked = s.panicked
<1> DEFINE r == commit_draft(s, turn)
           l == Append(SubSeq(s.lineage, 1, s.head), turn)
           raw == Append(s.raw, turn)
           x == PushedIndex(s, turn)
           e == entry_count_for_turns(x, s.head + 1)
           spans == extend_after_commit(s.spans, l, s.head)
           kept == MatchingArtifacts(s.artifacts, l, s.head)
           h == s.head + 1
           v == s.version + 1
<1>1. /\ s.head \in Nat /\ s.raw \in Seq(Turns) /\ s.version \in Nat /\ s.visibleTurns = s.head
  BY ConvFields DEF Good, IndexFits
<1>2. Extends(l, s, turn)
  BY AppendedExtends
<1> HIDE DEF l
<1>3. x \in Indexes /\ Indexed(x, l) /\ Len(x.ends) = h
  BY <1>2, PushedFits
<1> HIDE DEF x
<1>4. e \in Nat
  <2>1. l \in Seq(Turns) /\ h \in 0..Len(x.ends)
    BY <1>1, <1>2, <1>3 DEF Extends
  <2>2. Len(x.entries) \in Nat
    BY <1>3 DEF Indexes
  <2> HIDE DEF h
  <2>3. entry_count_for_turns(x, h) \in Nat
    BY <1>3, <2>1, <2>2, CountsGrow
  <2> QED BY <2>3 DEF h
<1>5. spans \in Seq(Spans) /\ kept \in Seq(Artifacts)
  BY <1>2, ExtendedProjection
<1>6. raw \in Seq(Turns) /\ h \in Nat /\ v \in 0..MaxVersion /\ l \in Seq(Turns)
  BY <1>1, <1>2, VersionAssumption DEF Extends
<1>7. SubSeq(l, 1, h) = l
  <2>1. Len(l) = h
    BY <1>2 DEF Extends
  <2> QED BY <1>6, <2>1, SubSeqFull
<1> DEFINE a == append(s, turn)
           p == [a EXCEPT !.spans = spans, !.artifacts = kept]
           q == push_committed_turn(p, turn)
<1>8. a = [s EXCEPT !.raw = raw, !.lineage = l, !.head = h, !.ceiling = h]
  BY DEF append, Conversations, l
<1>9. /\ a.head = h /\ a.lineage = l /\ a.index = s.index
      /\ a.visibleTurns = s.visibleTurns /\ a.visibleEntries = s.visibleEntries
  BY <1>8 DEF Conversations
<1>10. ActiveTurns(a) = l
  BY <1>7, <1>9 DEF ActiveTurns
<1>11. r = [q EXCEPT !.version = @ + 1, !.pending = NoValue]
  BY <1>10, Zenon DEF commit_draft
<1> HIDE DEF raw, h, spans, kept, a
<1>12. p = [s EXCEPT !.raw = raw, !.lineage = l, !.head = h, !.ceiling = h,
                     !.spans = spans, !.artifacts = kept]
  BY <1>8 DEF Conversations
<1>13. /\ p.index = s.index /\ p.visibleTurns = s.visibleTurns
       /\ p.visibleEntries = s.visibleEntries
  BY <1>12 DEF Conversations
<1> HIDE DEF p
<1>14. q = [p EXCEPT !.index = x, !.visibleTurns = h, !.visibleEntries = e]
  <2>1. push_committed_turn(p, turn) =
           [p EXCEPT !.index = PushedIndex(p, turn),
                     !.visibleTurns = p.visibleTurns + 1,
                     !.visibleEntries = entry_count_for_turns(PushedIndex(p, turn), p.visibleTurns + 1)]
    BY <1>12 DEF push_committed_turn, PushedIndex, Conversations
  <2>2. PushedIndex(p, turn) = x
    BY <1>13 DEF PushedIndex, x
  <2>3. p.visibleTurns + 1 = h
    BY <1>1, <1>13 DEF h
  <2> QED BY <2>1, <2>2, <2>3 DEF h
<1> HIDE DEF q, e, v
<1>15. r = [s EXCEPT !.raw = raw, !.lineage = l, !.head = h, !.ceiling = h,
                     !.spans = spans, !.artifacts = kept,
                     !.index = x, !.visibleTurns = h, !.visibleEntries = e,
                     !.version = v, !.pending = NoValue]
  <2>1. q = [s EXCEPT !.raw = raw, !.lineage = l, !.head = h, !.ceiling = h,
                      !.spans = spans, !.artifacts = kept,
                      !.index = x, !.visibleTurns = h, !.visibleEntries = e]
    BY <1>12, <1>14 DEF Conversations
  <2>2. q.version = s.version
    BY <2>1 DEF Conversations
  <2> QED BY <1>11, <2>1, <2>2 DEF Conversations, v
<1> HIDE DEF r
<1>16. r \in Conversations
  BY <1>3, <1>4, <1>5, <1>6, <1>15 DEF Conversations, Indexes
<1>17. /\ r.raw = raw /\ r.lineage = l /\ r.head = h /\ r.ceiling = h /\ r.version = v
       /\ r.pending = NoValue /\ r.index = x /\ r.visibleTurns = h /\ r.visibleEntries = e
       /\ r.spans = spans /\ r.artifacts = kept /\ r.panicked = s.panicked
  BY <1>15 DEF Conversations
<1> QED BY <1>16, <1>17 DEF r, l, raw, x, e, spans, kept, h, v

(* A turn with ids of its own joins a sequence of turns. *)
LEMMA UniqueAppend ==
    ASSUME NEW t \in Seq(Turns), Unique(t), NEW turn \in Turns, NEW l \in Seq(Turns),
           NEW n \in Nat, n <= Len(t), Len(l) = n + 1, l[n + 1] = turn,
           \A i \in 1..n : l[i] = t[i],
           \A i \in 1..n : t[i].id # turn.id /\ (t[i].call = turn.call => turn.call = NoCall)
    PROVE  Unique(l)
<1>1. Len(t) \in Nat
  OBVIOUS
<1> SUFFICES ASSUME NEW i \in 1..(n + 1), NEW j \in 1..(n + 1), i # j
             PROVE  l[i].id # l[j].id /\ (l[i].call = l[j].call => l[i].call = NoCall)
  BY DEF Unique
<1>2. (i \in 1..n \/ i = n + 1) /\ (j \in 1..n \/ j = n + 1)
  OBVIOUS
<1>3. CASE i \in 1..n /\ j \in 1..n
  <2>1. i \in 1..Len(t) /\ j \in 1..Len(t)
    BY <1>1, <1>3
  <2>2. t[i].id # t[j].id /\ (t[i].call = t[j].call => t[i].call = NoCall)
    BY <2>1 DEF Unique
  <2> QED BY <1>3, <2>2
<1>4. CASE i \in 1..n /\ j = n + 1
  BY <1>4
<1>5. CASE i = n + 1 /\ j \in 1..n
  BY <1>5
<1> QED BY <1>2, <1>3, <1>4, <1>5

LEMMA CommitGood ==
    ASSUME NEW s \in Conversations, Good(s), NEW turn \in Turns, s.version < MaxVersion,
           turn.id \notin RawTurnIds(s), turn.parent = tip_id(s), turn.call \notin RawCallIds(s)
    PROVE  /\ commit_draft(s, turn) \in Conversations /\ Good(commit_draft(s, turn))
           /\ commit_draft(s, turn).version = s.version + 1
<1> DEFINE r == commit_draft(s, turn)
           l == Append(SubSeq(s.lineage, 1, s.head), turn)
           raw == Append(s.raw, turn)
           n == Len(s.raw)
<1>1. /\ s.head \in Nat /\ s.ceiling \in Nat /\ s.head <= s.ceiling
      /\ s.lineage \in Seq(Turns) /\ s.ceiling <= Len(s.lineage) /\ Len(s.lineage) \in Nat
      /\ s.raw \in Seq(Turns) /\ n \in Nat /\ s.version \in Nat
      /\ Unique(s.raw) /\ Unique(s.lineage)
      /\ \A i \in 1..s.ceiling : /\ s.lineage[i] \in Range(s.raw)
                                 /\ s.lineage[i].parent = AnchorAt(s.lineage, i - 1)
  BY ConvFields DEF Good, Chained
<1>2. Extends(l, s, turn)
  BY AppendedExtends
<1>3. /\ r \in Conversations
      /\ r.raw = raw /\ r.lineage = l
      /\ r.head = s.head + 1 /\ r.ceiling = s.head + 1 /\ r.version = s.version + 1
      /\ r.pending = NoValue /\ r.index = PushedIndex(s, turn)
      /\ r.visibleTurns = s.head + 1
      /\ r.visibleEntries = entry_count_for_turns(PushedIndex(s, turn), s.head + 1)
      /\ r.spans = extend_after_commit(s.spans, l, s.head)
      /\ r.artifacts = MatchingArtifacts(s.artifacts, l, s.head)
  BY CommitFields
<1> HIDE DEF r, l
<1>4. /\ raw \in Seq(Turns) /\ Len(raw) = n + 1 /\ raw[n + 1] = turn
      /\ \A i \in 1..n : raw[i] = s.raw[i]
      /\ DOMAIN raw = 1..(n + 1) /\ DOMAIN s.raw = 1..n
  BY <1>1
<1> HIDE DEF raw, n
<1>5. ASSUME NEW i \in 1..n
      PROVE  s.raw[i].id # turn.id /\ (s.raw[i].call = turn.call => turn.call = NoCall)
  <2>1. i \in DOMAIN s.raw
    BY <1>4
  <2>2. s.raw[i].id \in RawTurnIds(s)
    BY <2>1, Zenon DEF RawTurnIds
  <2>3. s.raw[i].call \in RawCallIds(s) \/ s.raw[i].call = NoCall
    BY <2>1, Zenon DEF RawCallIds
  <2> QED BY <2>2, <2>3
<1>6. Unique(raw)
  <2>1. n <= Len(s.raw)
    BY <1>1 DEF n
  <2>2. s.raw \in Seq(Turns) /\ Unique(s.raw) /\ n \in Nat
    BY <1>1
  <2> QED BY <1>4, <1>5, <2>1, <2>2, UniqueAppend
<1>7. /\ l \in Seq(Turns) /\ Len(l) = s.head + 1 /\ l[s.head + 1] = turn
      /\ \A i \in 1..s.head : l[i] = s.lineage[i]
  BY <1>2 DEF Extends
<1>8. ASSUME NEW i \in 1..s.head
      PROVE  /\ i \in 1..s.ceiling
             /\ \E j \in 1..n : s.lineage[i] = s.raw[j]
  <2>1. i \in 1..s.ceiling
    BY <1>1
  <2>2. s.lineage[i] \in Range(s.raw)
    BY <1>1, <2>1
  <2> QED BY <1>4, <2>1, <2>2 DEF Range
<1>9. Unique(l)
  <2>1. \A i \in 1..s.head : /\ s.lineage[i].id # turn.id
                             /\ s.lineage[i].call = turn.call => turn.call = NoCall
    BY <1>5, <1>8
  <2>2. s.head <= Len(s.lineage)
    BY <1>1
  <2> QED BY <1>1, <1>7, <2>1, <2>2, UniqueAppend
<1>10. Chained(r)
  <2>1. ASSUME NEW i \in 1..(s.head + 1)
        PROVE  l[i] \in Range(raw) /\ l[i].parent = AnchorAt(l, i - 1)
    <3>1. AnchorAt(l, i - 1) = AnchorAt(s.lineage, i - 1)
      <4>1. i - 1 # 0 => i - 1 \in 1..s.head
        BY <1>1
      <4> QED BY <1>7, <4>1 DEF AnchorAt
    <3>2. CASE i = s.head + 1
      <4>1. n + 1 \in DOMAIN raw
        BY <1>1, <1>4
      <4>2. l[i] \in Range(raw)
        BY <1>4, <1>7, <3>2, <4>1 DEF Range
      <4>3. AnchorAt(s.lineage, i - 1) = turn.parent
        BY <1>1, <3>2 DEF tip_id
      <4> QED BY <1>7, <3>1, <3>2, <4>2, <4>3
    <3>3. CASE i # s.head + 1
      <4>1. i \in 1..s.head
        BY <1>1, <3>3
      <4>2. PICK j \in 1..n : s.lineage[i] = s.raw[j]
        BY <1>8, <4>1
      <4>3. j \in DOMAIN raw /\ raw[j] = l[i]
        BY <1>1, <1>4, <1>7, <4>1, <4>2
      <4>4. s.lineage[i].parent = AnchorAt(s.lineage, i - 1)
        BY <1>1, <1>8, <4>1
      <4> QED BY <1>7, <3>1, <4>1, <4>3, <4>4 DEF Range
    <3> QED BY <3>2, <3>3
  <2>2. s.head + 1 <= Len(l) /\ s.head + 1 <= s.head + 1
    BY <1>1, <1>7
  <2> QED BY <1>3, <2>1, <2>2 DEF Chained
<1>11. IndexFits(r)
  <2>1. /\ PushedIndex(s, turn) \in Indexes /\ Indexed(PushedIndex(s, turn), l)
        /\ Len(PushedIndex(s, turn).ends) = s.head + 1
    BY <1>2, PushedFits
  <2> QED BY <1>1, <1>3, <2>1 DEF IndexFits
<1>12. Projected(r)
  BY <1>2, <1>3, ExtendedProjection DEF Projected
<1> QED BY <1>3, <1>6, <1>9, <1>10, <1>11, <1>12 DEF Good, r

-----------------------------------------------------------------------------
(***************************************************************************)
(* A compaction.                                                           *)
(***************************************************************************)

(* Spans of a tiling that start earlier end before. *)
LEMMA TilingOrder ==
    ASSUME NEW spans \in Seq(Spans), NEW m \in Nat, TilesExactly(spans, m),
           NEW i \in 1..Len(spans), NEW j \in 1..Len(spans)
    PROVE  /\ spans[i].start < spans[j].start => spans[i].end <= spans[j].start
           /\ spans[i].end < spans[j].end => spans[i].end <= spans[j].start
<1> DEFINE e(k) == EndOf(spans, k)
<1>1. /\ Len(spans) \in Nat
      /\ spans[i].start = e(i - 1) /\ spans[i].end = e(i) /\ spans[j].start = e(j - 1)
      /\ spans[j].end = e(j)
      /\ \A k \in 0..Len(spans) : e(k) \in Nat
  BY TilingFacts
<1>2. i \in 0..Len(spans) /\ i - 1 \in 0..Len(spans) /\ j - 1 \in 0..Len(spans) /\ j \in 0..Len(spans)
  BY <1>1
<1>3. \A k \in 0..Len(spans) : \A l \in 0..k : e(l) <= e(k)
  BY TilingGrows
<1> HIDE DEF e
<1>4. e(i) \in Nat /\ e(i - 1) \in Nat /\ e(j) \in Nat /\ e(j - 1) \in Nat
  BY <1>1, <1>2
<1>5. CASE i <= j - 1
  <2>1. i \in 0..(j - 1)
    BY <1>2, <1>5
  <2> QED BY <1>1, <1>2, <1>3, <2>1
<1>6. CASE ~(i <= j - 1)
  <2>1. j - 1 \in 0..(i - 1) /\ j \in 0..i
    BY <1>2, <1>6
  <2>2. e(j - 1) <= e(i - 1) /\ e(j) <= e(i)
    BY <1>2, <1>3, <2>1
  <2> QED BY <1>1, <1>4, <2>2
<1> QED BY <1>5, <1>6

(* A valid target lies on span boundaries, or on raw spans only. *)
LEMMA TargetInside ==
    ASSUME NEW source \in Seq(Spans), NEW n \in Nat, TilesExactly(source, n),
           plan.start \in Nat, plan.end \in Nat, plan.start < plan.end, plan.end <= n,
           validate_target(source)
    PROVE  Inside(source, 0, plan.start) /\ Inside(source, plan.end, n)
<1> DEFINE from == plan.start
           to == plan.end
           over == overlapping_spans(source, from, to)
           k == Len(source)
<1>1. /\ k \in Nat /\ DOMAIN source = 1..k /\ from \in Nat /\ to \in Nat /\ from < to /\ to <= n
  OBVIOUS
<1>2. Covers(over, source, from, to)
  BY FilterCovers
<1>3. IF plan.target = "Raw" THEN \A i \in DOMAIN over : IsRaw(over[i])
      ELSE Head(over).start = from /\ Last(over).end = to
  BY DEF validate_target
<1> HIDE DEF over
<1>4. /\ over \in Seq(Spans) /\ Len(over) # 0 /\ Len(over) \in Nat /\ DOMAIN over = 1..Len(over)
      /\ \A i \in 1..Len(over) : \E j \in 1..k : over[i] = source[j]
      /\ \A j \in 1..k : Overlaps(source[j], from, to) => \E i \in 1..Len(over) : over[i] = source[j]
  BY <1>2 DEF Covers, Links
<1>5. ASSUME NEW j \in 1..k
      PROVE  /\ source[j].start \in Nat /\ source[j].end \in Nat /\ source[j].end <= n
             /\ source[j].start < source[j].end
  <2>1. /\ source[j].start \in Nat /\ source[j].end \in Nat /\ source[j].end = EndOf(source, j)
        /\ source[j].start < source[j].end /\ EndOf(source, k) = n
    BY TilingFacts
  <2>2. k \in 0..k /\ j \in 0..k
    BY <1>1
  <2>3. EndOf(source, j) <= EndOf(source, k)
    BY <2>2, TilingGrows
  <2> QED BY <2>1, <2>3
<1>6. ASSUME NEW j \in 1..k, ~ IsRaw(source[j])
      PROVE  /\ source[j].start < from => source[j].end <= from
             /\ to < source[j].end => to <= source[j].start
  <2>1. CASE plan.target = "Raw"
    <3>1. ~ Overlaps(source[j], from, to)
      BY <1>3, <1>4, <1>6, <2>1
    <3> HIDE DEF from, to
    <3> QED BY <1>1, <1>5, <3>1 DEF Overlaps
  <2>2. CASE plan.target # "Raw"
    <3>1. 1 \in 1..Len(over) /\ Len(over) \in 1..Len(over)
      BY <1>4
    <3>2. Head(over) = over[1] /\ Last(over) = over[Len(over)]
      BY <1>4 DEF Last
    <3>3. PICK a \in 1..k : over[1] = source[a]
      BY <1>4, <3>1
    <3>4. PICK b \in 1..k : over[Len(over)] = source[b]
      BY <1>4, <3>1
    <3>5. source[a].start = from /\ source[b].end = to
      BY <1>3, <2>2, <3>2, <3>3, <3>4
    <3>6. source[j].start < source[a].start => source[j].end <= source[a].start
      BY TilingOrder
    <3>7. source[b].end < source[j].end => source[b].end <= source[j].start
      BY TilingOrder
    <3> QED BY <3>5, <3>6, <3>7
  <2> QED BY <2>1, <2>2
<1>7. \A x \in Compacted(source) : \E j \in 1..k : x = source[j] /\ ~ IsRaw(source[j])
  BY <1>1 DEF Compacted
<1> HIDE DEF from, to, k
<1>8. Inside(source, 0, from)
  <2> SUFFICES ASSUME NEW x \in Compacted(source), Overlaps(x, 0, from)
               PROVE  0 <= x.start /\ x.end <= from
    BY DEF Inside
  <2>1. PICK j \in 1..k : x = source[j] /\ ~ IsRaw(source[j])
    BY <1>7
  <2>2. x.start < from
    BY DEF Overlaps
  <2> QED BY <1>5, <1>6, <2>1, <2>2
<1>9. Inside(source, to, n)
  <2> SUFFICES ASSUME NEW x \in Compacted(source), Overlaps(x, to, n)
               PROVE  to <= x.start /\ x.end <= n
    BY DEF Inside
  <2>1. PICK j \in 1..k : x = source[j] /\ ~ IsRaw(source[j])
    BY <1>7
  <2>2. to < x.end
    BY <1>1, <1>5, <2>1 DEF Overlaps
  <2> QED BY <1>5, <1>6, <2>1, <2>2
<1> QED BY <1>8, <1>9 DEF from, to

LEMMA ReplacementTiles ==
    ASSUME NEW turns \in Seq(Turns), NEW source \in Seq(Spans),
           TilesExactly(source, Len(turns)),
           plan.start \in Nat, plan.end \in Nat, plan.start < plan.end, plan.end <= Len(turns),
           plan.artifact \in ArtifactIds, validate_target(source)
    PROVE  LET result == build_replacement_spans(source, turns, Len(turns))
           IN  /\ result \in Seq(Spans) /\ TilesExactly(result, Len(turns))
               /\ \A x \in Compacted(result) :
                     \/ x \in Compacted(source)
                     \/ x.start = plan.start /\ x.end = plan.end /\ x.artifact = plan.artifact
<1> DEFINE n == Len(turns)
           from == plan.start
           to == plan.end
           y == SpanOf(turns, from, to, plan.artifact)
           before == append_source_segment(<< >>, source, turns, 0, from)
           middle == Append(before, y)
           result == append_source_segment(middle, source, turns, to, n)
<1>1. /\ n \in Nat /\ from \in Nat /\ to \in Nat /\ from < to /\ to <= n /\ from <= n
      /\ from \in 0..n /\ to \in 0..n /\ source \in Seq(Spans)
  OBVIOUS
<1>2. Inside(source, 0, from) /\ Inside(source, to, n)
  BY <1>1, TargetInside
<1>3. y \in Spans /\ y.start = from /\ y.end = to /\ y.artifact = plan.artifact
  BY <1>1, SpanOfType
<1>4. << >> \in SpansWithin(n) /\ TilesExactly(<< >>, 0) /\ Compacted(<< >>) = {}
  BY EmptyWithin, EmptyTiles
<1>5. /\ before \in SpansWithin(n) /\ TilesExactly(before, from)
      /\ Compacted(before) \subseteq Compacted(source)
  <2> DEFINE none == << >>
             zero == 0
  <2>1. /\ none \in SpansWithin(Len(turns)) /\ TilesExactly(none, zero) /\ Compacted(none) = {}
        /\ zero \in Nat /\ zero <= from /\ from <= Len(turns) /\ Inside(source, zero, from)
        /\ (zero = from => zero = 0 \/ zero = Len(turns))
        /\ before = append_source_segment(none, source, turns, zero, from)
    BY <1>1, <1>2, <1>4
  <2> HIDE DEF none, zero, before, from, n
  <2>2. LET r == append_source_segment(none, source, turns, zero, from)
        IN  /\ r \in SpansWithin(Len(turns)) /\ TilesExactly(r, from)
            /\ Compacted(r) \subseteq Compacted(none) \cup Compacted(source)
    BY <1>1, <2>1, SegmentTiles
  <2> QED BY <2>1, <2>2 DEF n
<1> HIDE DEF y, before
<1>6. /\ middle \in SpansWithin(n) /\ TilesExactly(middle, to)
      /\ Compacted(middle) = Compacted(before) \cup (IF IsRaw(y) THEN {} ELSE {y})
  <2>1. before \in Seq(Spans)
    BY <1>5 DEF SpansWithin
  <2>2. y.start <= n
    BY <1>1, <1>3
  <2> HIDE DEF from, to, n
  <2>3. middle \in SpansWithin(n)
    BY <1>1, <1>3, <1>5, <2>2, WithinType
  <2>4. /\ TilesExactly(middle, y.end)
        /\ Compacted(middle) = Compacted(before) \cup (IF IsRaw(y) THEN {} ELSE {y})
    BY <1>1, <1>3, <1>5, <2>1, AppendTiles
  <2> QED BY <1>3, <2>3, <2>4
<1> HIDE DEF middle
<1>7. /\ result \in SpansWithin(n) /\ TilesExactly(result, n)
      /\ Compacted(result) \subseteq Compacted(middle) \cup Compacted(source)
  <2>1. n <= Len(turns) /\ (to = n => to = 0 \/ to = Len(turns)) /\ TilesExactly(source, Len(turns))
        /\ middle \in SpansWithin(Len(turns))
    BY <1>1, <1>6
  <2>2. n = Len(turns)
    OBVIOUS
  <2> HIDE DEF result, to, n
  <2>3. LET r == append_source_segment(middle, source, turns, to, n)
        IN  /\ r \in SpansWithin(Len(turns)) /\ TilesExactly(r, n)
            /\ Compacted(r) \subseteq Compacted(middle) \cup Compacted(source)
    BY <1>1, <1>2, <1>6, <2>1, SegmentTiles
  <2> QED BY <2>2, <2>3 DEF result
<1> HIDE DEF result
<1>8. build_replacement_spans(source, turns, n) = result
  BY DEF build_replacement_spans, result, middle, before, y
<1>9. result \in Seq(Spans)
  BY <1>7 DEF SpansWithin
<1>10. ASSUME NEW x \in Compacted(result)
       PROVE  \/ x \in Compacted(source)
              \/ x.start = plan.start /\ x.end = plan.end /\ x.artifact = plan.artifact
  BY <1>3, <1>5, <1>6, <1>7
<1> QED BY <1>7, <1>8, <1>9, <1>10

(* What is known of a kept plan. *)
PlanTyped ==
    /\ plan.conv \in Convs /\ plan.version \in Nat
    /\ plan.start \in Nat /\ plan.end \in Nat /\ plan.artifact \in ArtifactIds
    /\ plan.startAfter \in Anchors /\ plan.endAfter \in Anchors
    /\ plan.sources \in Seq(TurnIds)

PlannedArtifact ==
    [id |-> plan.artifact, start |-> plan.start, end |-> plan.end,
     startAfter |-> plan.startAfter, endAfter |-> plan.endAfter, sources |-> plan.sources]

Replaced(s) ==
    build_replacement_spans(active_projection_spans(s.spans, lineage_turns(s), s.head),
                            ActiveTurns(s), s.head)

KeptArtifacts(s) == MatchingArtifacts(s.artifacts, lineage_turns(s), s.head)

LEMMA AppliedProjection ==
    ASSUME NEW s \in Conversations, Good(s), s.head = s.ceiling, PlanTyped,
           range_matches_turns(plan, s.lineage, s.head),
           plan.sources = IdsBetween(s.lineage, plan.start, plan.end),
           validate_target(active_projection_spans(s.spans, lineage_turns(s), s.head)),
           plan.artifact \notin {KeptArtifacts(s)[i].id : i \in DOMAIN KeptArtifacts(s)}
    PROVE  LET artifacts == Append(KeptArtifacts(s), PlannedArtifact)
           IN  /\ Replaced(s) \in Seq(Spans) /\ artifacts \in Seq(Artifacts)
               /\ TilesExactly(Replaced(s), s.ceiling)
               /\ DistinctIds(artifacts)
               /\ \A k \in 1..Len(artifacts) : Summarised(artifacts[k], s.lineage, s.ceiling)
               /\ \A x \in Compacted(Replaced(s)) : HasArtifact(x, artifacts)
<1> DEFINE own == ActiveTurns(s)
           n == s.head
           source == active_projection_spans(s.spans, own, n)
           kept == KeptArtifacts(s)
           q == Len(kept)
           new == PlannedArtifact
           artifacts == Append(kept, new)
<1>1. /\ n \in Nat /\ s.lineage \in Seq(Turns) /\ n <= Len(s.lineage)
      /\ s.spans \in Seq(Spans) /\ s.artifacts \in Seq(Artifacts)
      /\ TilesExactly(s.spans, n) /\ DistinctIds(s.artifacts)
      /\ \A k \in 1..Len(s.artifacts) : Summarised(s.artifacts[k], s.lineage, n)
      /\ \A x \in Compacted(s.spans) : HasArtifact(x, s.artifacts)
      /\ lineage_turns(s) = own
  BY ConvFields DEF Good, Chained, Projected, lineage_turns, ActiveTurns
<1>2. /\ own \in Seq(Turns) /\ Len(own) = n
      /\ \A i \in 1..n : own[i] = s.lineage[i] /\ s.lineage[i] = own[i]
  BY <1>1 DEF ActiveTurns
<1> HIDE DEF own
<1>3. /\ source \in Seq(Spans) /\ TilesExactly(source, n)
      /\ \A x \in Compacted(source) : x \in Compacted(s.spans) /\ range_matches_turns(x, own, n)
  <2>1. n \in 0..Len(own) /\ n <= n
    BY <1>1, <1>2
  <2> HIDE DEF n
  <2> QED BY <1>1, <1>2, <2>1, ClipTiles
<1>4. validate_target(source)
  BY <1>1
<1>5. /\ plan.start \in Nat /\ plan.end \in Nat /\ plan.start < plan.end /\ plan.end <= n
      /\ plan.artifact \in ArtifactIds
  BY DEF PlanTyped, range_matches_turns
<1> HIDE DEF source
<1>6. LET result == build_replacement_spans(source, own, Len(own))
      IN  /\ result \in Seq(Spans) /\ TilesExactly(result, Len(own))
          /\ \A x \in Compacted(result) :
                \/ x \in Compacted(source)
                \/ x.start = plan.start /\ x.end = plan.end /\ x.artifact = plan.artifact
  BY <1>2, <1>3, <1>4, <1>5, ReplacementTiles
<1>7. Replaced(s) = build_replacement_spans(source, own, Len(own))
  BY <1>1, <1>2 DEF Replaced, source, own
<1>8. kept \in Seq(Artifacts) /\ KeptOf(kept, Len(s.artifacts), s.artifacts, own, n)
  BY <1>1, ArtifactsKept DEF KeptArtifacts
<1>9. plan.artifact \notin {kept[i].id : i \in DOMAIN kept}
  OBVIOUS
<1> HIDE DEF kept
<1>10. /\ new \in Artifacts /\ new.id = plan.artifact /\ new.start = plan.start /\ new.end = plan.end
  BY DEF PlannedArtifact, PlanTyped, Artifacts
<1>11. Summarised(new, s.lineage, n)
  BY DEF PlannedArtifact, Summarised, range_matches_turns
<1> HIDE DEF new
<1>12. /\ artifacts \in Seq(Artifacts) /\ q \in Nat /\ Len(artifacts) = q + 1
       /\ artifacts[q + 1] = new /\ \A i \in 1..q : artifacts[i] = kept[i]
       /\ DOMAIN kept = 1..q
  BY <1>8, <1>10
<1> HIDE DEF artifacts, q
<1>13. \A i \in 1..q : kept[i].id # new.id
  BY <1>9, <1>10, <1>12
<1>14. DistinctIds(artifacts)
  <2> SUFFICES ASSUME NEW i \in 1..(q + 1), NEW j \in 1..(q + 1), artifacts[i].id = artifacts[j].id
               PROVE  i = j
    BY <1>12 DEF DistinctIds
  <2>1. (i \in 1..q \/ i = q + 1) /\ (j \in 1..q \/ j = q + 1)
    BY <1>12
  <2>2. \A a, b \in 1..q : kept[a].id = kept[b].id => a = b
    BY <1>8 DEF KeptOf, DistinctIds, q
  <2> QED BY <1>12, <1>13, <2>1, <2>2
<1>15. ASSUME NEW k \in 1..(q + 1) PROVE Summarised(artifacts[k], s.lineage, n)
  <2>1. CASE k = q + 1
    BY <1>11, <1>12, <2>1
  <2>2. CASE k # q + 1
    <3>1. k \in 1..q
      BY <1>12, <2>2
    <3>2. PICK j \in 1..Len(s.artifacts) : kept[k] = s.artifacts[j]
      BY <1>8, <3>1 DEF KeptOf, q
    <3> QED BY <1>1, <1>12, <3>1, <3>2
  <2> QED BY <2>1, <2>2
<1>16. ASSUME NEW x \in Compacted(Replaced(s)) PROVE HasArtifact(x, artifacts)
  <2>1. CASE x.start = plan.start /\ x.end = plan.end /\ x.artifact = plan.artifact
    <3>1. q + 1 \in 1..Len(artifacts)
      BY <1>12
    <3> QED BY <1>10, <1>12, <2>1, <3>1 DEF HasArtifact
  <2>2. CASE x \in Compacted(source)
    <3>1. x \in Compacted(s.spans) /\ range_matches_turns(x, own, n)
      BY <1>3, <2>2
    <3>2. PICK j \in 1..Len(s.artifacts) :
              s.artifacts[j].id = x.artifact /\ s.artifacts[j].start = x.start /\ s.artifacts[j].end = x.end
      BY <1>1, <3>1 DEF HasArtifact
    <3>3. s.artifacts[j] \in Artifacts /\ Summarised(s.artifacts[j], s.lineage, n)
      BY <1>1
    <3>4. s.artifacts[j].end <= n
      BY <3>3 DEF Summarised, range_matches_turns
    <3>5. Summarised(s.artifacts[j], own, n)
      BY <1>1, <1>2, <3>3, <3>4, SummarisedElsewhere
    <3>6. PICK i \in 1..q : kept[i] = s.artifacts[j]
      BY <1>8, <3>5 DEF KeptOf, Summarised, q
    <3>7. i \in 1..Len(artifacts) /\ artifacts[i] = s.artifacts[j]
      BY <1>12, <3>6
    <3> QED BY <3>2, <3>7 DEF HasArtifact
  <2> QED BY <1>6, <1>7, <2>1, <2>2
<1> QED BY <1>2, <1>6, <1>7, <1>12, <1>14, <1>15, <1>16 DEF artifacts, kept, new

LEMMA ApplyGood ==
    ASSUME NEW s \in Conversations, Good(s), s.pending = NoValue, s.head = s.ceiling, PlanTyped,
           s.version < MaxVersion,
           range_matches_turns(plan, s.lineage, s.head),
           plan.sources = IdsBetween(s.lineage, plan.start, plan.end),
           validate_target(active_projection_spans(s.spans, lineage_turns(s), s.head)),
           plan.artifact \notin {KeptArtifacts(s)[i].id : i \in DOMAIN KeptArtifacts(s)}
    PROVE  LET r == [s EXCEPT !.spans = Replaced(s),
                              !.artifacts = Append(KeptArtifacts(s), PlannedArtifact),
                              !.version = @ + 1]
           IN  r \in Conversations /\ Good(r) /\ r.version = s.version + 1
<1> DEFINE spans == Replaced(s)
           artifacts == Append(KeptArtifacts(s), PlannedArtifact)
           v == s.version + 1
           r == [s EXCEPT !.spans = spans, !.artifacts = artifacts, !.version = v]
<1>1. /\ spans \in Seq(Spans) /\ artifacts \in Seq(Artifacts)
      /\ TilesExactly(spans, s.ceiling)
      /\ DistinctIds(artifacts)
      /\ \A k \in 1..Len(artifacts) : Summarised(artifacts[k], s.lineage, s.ceiling)
      /\ \A x \in Compacted(spans) : HasArtifact(x, artifacts)
  BY AppliedProjection
<1>2. v \in 0..MaxVersion
  BY ConvFields, VersionAssumption
<1> HIDE DEF spans, artifacts, v
<1>3. r \in Conversations
  BY <1>1, <1>2 DEF Conversations
<1>4. /\ r.raw = s.raw /\ r.lineage = s.lineage /\ r.ceiling = s.ceiling /\ r.head = s.head
      /\ r.index = s.index /\ r.visibleTurns = s.visibleTurns
      /\ r.visibleEntries = s.visibleEntries /\ r.spans = spans /\ r.artifacts = artifacts
      /\ r.pending = s.pending /\ r.version = v
  BY DEF Conversations
<1> HIDE DEF r
<1>5. Chained(r) /\ Unique(r.raw) /\ Unique(r.lineage) /\ IndexFits(r)
  BY <1>4 DEF Good, Chained, IndexFits
<1>6. Projected(r)
  BY <1>1, <1>4 DEF Projected
<1>7. Good(r)
  BY <1>5, <1>6 DEF Good
<1>8. [s EXCEPT !.spans = Replaced(s),
                !.artifacts = Append(KeptArtifacts(s), PlannedArtifact),
                !.version = @ + 1] = r
  BY DEF r, spans, artifacts, v
<1> QED BY <1>3, <1>4, <1>7, <1>8 DEF v

-----------------------------------------------------------------------------
(***************************************************************************)
(* What the index and the view show of a conversation.                     *)
(***************************************************************************)
LEMMA IndexShowsCalls ==
    ASSUME NEW s \in Conversations, Good(s)
    PROVE  /\ SubSeq(s.index.entries, 1, s.visibleEntries) = rebuild(ActiveTurns(s)).entries
           /\ {call \in CallIds : by_call_id(s, call)}
                  = {s.lineage[i].call : i \in 1..s.head} \ {NoCall}
<1> DEFINE x == s.index
           own == ActiveTurns(s)
           y == rebuild(own)
           n == s.head
           e == s.visibleEntries
           last == Len(x.ends)
<1>1. /\ x \in Indexes /\ s.lineage \in Seq(Turns) /\ Indexed(x, s.lineage)
      /\ n \in Nat /\ n <= Len(s.lineage) /\ n <= last /\ e = entry_count_for_turns(x, n)
      /\ x.entries \in Seq(CallIds) /\ x.ends \in Seq(Nat)
      /\ Unique(s.lineage)
  BY ConvFields DEF Good, Chained, IndexFits, Indexes
<1>2. own \in Seq(Turns) /\ Len(own) = n /\ \A i \in 1..n : s.lineage[i] = own[i]
  BY <1>1 DEF ActiveTurns
<1> HIDE DEF own
<1>3. y \in Indexes /\ Indexed(y, own) /\ Len(y.ends) = n
  BY <1>2, RebuildIndexes
<1> HIDE DEF y, x, n, e
<1>4. last \in Nat /\ n \in 0..last /\ last \in 0..last /\ Len(x.entries) \in Nat
  BY <1>1
<1>5. /\ entry_count_for_turns(x, n) = entry_count_for_turns(y, n)
      /\ \A k \in 1..entry_count_for_turns(x, n) : x.entries[k] = y.entries[k]
  <2>1. n <= Len(y.ends)
    BY <1>1, <1>3
  <2> QED BY <1>1, <1>2, <1>3, <2>1, IndexesAgree
<1>6. e \in 0..Len(x.entries) /\ Len(x.entries) = entry_count_for_turns(x, last)
  BY <1>1, <1>4, CountsGrow DEF Indexed
<1>7. SubSeq(x.entries, 1, e) = y.entries
  <2> DEFINE t == SubSeq(x.entries, 1, e)
  <2>1. t \in Seq(CallIds) /\ Len(t) = e /\ \A k \in 1..e : t[k] = x.entries[k]
    BY <1>1, <1>4, <1>6
  <2>2. y.entries \in Seq(CallIds) /\ Len(y.entries) = e
    BY <1>1, <1>3, <1>5 DEF Indexed, Indexes
  <2> HIDE DEF t
  <2>3. \A k \in 1..Len(t) : t[k] = y.entries[k]
    BY <1>1, <1>5, <2>1
  <2> QED BY <2>1, <2>2, <2>3, SeqEqual DEF t
<1> HIDE DEF last
<1>8. ASSUME NEW call \in CallIds, by_call_id(s, call)
      PROVE  \E i \in 1..n : s.lineage[i].call = call
  <2> DEFINE at == {i \in DOMAIN x.entries : x.entries[i] = call}
  <2>1. at # {} /\ Max(at) <= e
    BY <1>8 DEF by_call_id, x, e
  <2>2. at \in SUBSET (1..Len(x.entries))
    BY <1>1
  <2> HIDE DEF at
  <2>3. Max(at) \in at
    BY <1>4, <2>1, <2>2, MaxUpTo
  <2>4. Max(at) \in 1..e /\ x.entries[Max(at)] = call
    BY <1>4, <1>6, <2>1, <2>2, <2>3 DEF at
  <2>5. Max(at) \in 1..entry_count_for_turns(x, n)
    BY <1>1, <2>4
  <2>6. n \in 0..Len(x.ends)
    BY <1>4 DEF last
  <2>7. \E i \in 1..n : x.entries[Max(at)] = s.lineage[i].call
    BY <1>1, <2>5, <2>6, EntryIsCall
  <2> QED BY <2>4, <2>7
<1>9. ASSUME NEW i \in 1..n, s.lineage[i].call # NoCall
      PROVE  s.lineage[i].call \in CallIds /\ by_call_id(s, s.lineage[i].call)
  <2> DEFINE call == s.lineage[i].call
             at == {k \in DOMAIN x.entries : x.entries[k] = call}
             k0 == entry_count_for_turns(x, i)
  <2>1. i \in 1..Len(s.lineage) /\ s.lineage[i] \in Turns
    <3>1. i \in 1..Len(s.lineage)
      BY <1>1
    <3> QED BY <1>1, <3>1
  <2>2. call \in CallIds
    BY <1>9, <2>1 DEF Turns
  <2>3. k0 \in 1..entry_count_for_turns(x, n) /\ x.entries[k0] = call
    <3>1. n \in 0..Len(x.ends)
      BY <1>4 DEF last
    <3> QED BY <1>1, <1>9, <3>1, CallIsEntry
  <2> HIDE DEF k0
  <2>4. k0 \in 1..Len(x.entries) /\ k0 <= e
    BY <1>1, <1>4, <1>6, <2>3
  <2>5. at \in SUBSET (1..Len(x.entries)) /\ at # {}
    BY <1>1, <2>3, <2>4
  <2> DEFINE m == Max(at)
  <2>6. m \in at
    <3> HIDE DEF at
    <3> QED BY <1>4, <2>5, MaxUpTo
  <2> HIDE DEF m
  <2>7. m \in 1..Len(x.entries) /\ x.entries[m] = call
    BY <2>5, <2>6
  <2>8. m \in 1..entry_count_for_turns(x, last)
    BY <1>6, <2>7
  <2>9. PICK j \in 1..last : /\ s.lineage[j].call # NoCall
                             /\ entry_count_for_turns(x, j) = m
                             /\ x.entries[m] = s.lineage[j].call
    <3>1. last \in 0..Len(x.ends)
      BY <1>4 DEF last
    <3> QED BY <1>1, <2>8, <3>1, EntryIsCall
  <2>10. j \in 1..Len(s.lineage)
    <3>1. last <= Len(s.lineage) /\ Len(s.lineage) \in Nat
      BY <1>1 DEF Indexed, last
    <3> QED BY <1>4, <3>1
  <2>11. i = j
    BY <1>1, <1>9, <2>1, <2>7, <2>9, <2>10 DEF Unique
  <2>12. m = k0
    BY <2>9, <2>11 DEF k0
  <2>13. at # {} /\ Max(at) <= e
    BY <2>4, <2>5, <2>12 DEF m
  <2>14. by_call_id(s, call)
    BY <2>13, Zenon DEF by_call_id, x, e
  <2> QED BY <2>2, <2>14
<1>10. {call \in CallIds : by_call_id(s, call)} = {s.lineage[i].call : i \in 1..n} \ {NoCall}
  <2>1. \A call \in CallIds : call # NoCall
    BY NoneAssumption
  <2> QED BY <1>8, <1>9, <2>1
<1> QED BY <1>7, <1>10 DEF x, y, own, n, e

(* A fold over one element more takes one step more. *)
OneStepMore(V, G, b, t, x) ==
    \A end, next : Traced(V, G, b, t, end) /\ Traced(V, G, b, Append(t, x), next) =>
        end \in V /\ next = G[<<end, x>>]

LEMMA FoldAppend ==
    ASSUME NEW V, NEW E, NEW G \in [V \X E -> V], NEW b \in V, NEW t \in Seq(E), NEW x \in E
    PROVE  OneStepMore(V, G, b, t, x)
<1> SUFFICES ASSUME NEW end, NEW next, Traced(V, G, b, t, end), Traced(V, G, b, Append(t, x), next)
             PROVE  end \in V /\ next = G[<<end, x>>]
  BY Zenon DEF OneStepMore
<1> DEFINE n == Len(t)
           u == Append(t, x)
<1>1. n \in Nat /\ Len(u) = n + 1 /\ u[n + 1] = x /\ \A i \in 1..n : u[i] = t[i]
  OBVIOUS
<1>2. PICK g \in [0..n -> V] : end = g[n] /\ g[0] = b /\ \A i \in 1..n : g[i] = G[<<g[i - 1], t[i]>>]
  BY Zenon DEF Traced
<1>3. PICK h \in [0..Len(u) -> V] :
          next = h[Len(u)] /\ h[0] = b /\ \A i \in 1..Len(u) : h[i] = G[<<h[i - 1], u[i]>>]
  BY Zenon DEF Traced
<1> HIDE DEF n, u
<1> DEFINE P == {i \in 0..n : g[i] = h[i]}
<1>4. 0 \in P
  BY <1>1, <1>2, <1>3
<1>5. \A i \in 0..(n - 1) : i \in P => i + 1 \in P
  <2> SUFFICES ASSUME NEW i \in 0..(n - 1), i \in P PROVE i + 1 \in P
    OBVIOUS
  <2>1. i + 1 \in 1..n /\ i + 1 \in 1..Len(u) /\ (i + 1) - 1 = i /\ i + 1 \in 0..n
    BY <1>1
  <2>2. g[i + 1] = G[<<g[i], t[i + 1]>>] /\ h[i + 1] = G[<<h[i], u[i + 1]>>]
    BY <1>2, <1>3, <2>1
  <2> QED BY <1>1, <2>1, <2>2
<1>6. n \in P
  <2> HIDE DEF P
  <2>1. \A i \in 0..n : i \in P
    BY <1>1, <1>4, <1>5, BoundedInduction
  <2> QED BY <1>1, <2>1
<1>7. n + 1 \in 1..Len(u) /\ (n + 1) - 1 = n /\ n \in 0..n
  BY <1>1
<1>8. next = G[<<h[n], u[n + 1]>>]
  BY <1>1, <1>3, <1>7
<1> QED BY <1>1, <1>2, <1>6, <1>7, <1>8

(* What a view may consist of. *)
Known(s) == TurnIds \cup {s.artifacts[k].id : k \in 1..Len(s.artifacts)}

LEMMA SourcesKnown ==
    ASSUME NEW s \in Conversations, Good(s)
    PROVE  /\ \A x \in Known(s) : SourcesOf(s, x) \in Seq(TurnIds)
           /\ \A x \in TurnIds : x \in Known(s) /\ SourcesOf(s, x) = <<x>>
           /\ \A k \in 1..Len(s.artifacts) :
                 /\ s.artifacts[k].id \in Known(s)
                 /\ SourcesOf(s, s.artifacts[k].id) = s.artifacts[k].sources
<1>1. s.artifacts \in Seq(Artifacts) /\ DistinctIds(s.artifacts)
  BY ConvFields DEF Good, Projected
<1>2. /\ DOMAIN s.artifacts = 1..Len(s.artifacts)
      /\ \A k \in 1..Len(s.artifacts) : s.artifacts[k] \in Artifacts
  BY <1>1
<1>3. ASSUME NEW k \in 1..Len(s.artifacts)
      PROVE  /\ s.artifacts[k].id \in Known(s)
             /\ SourcesOf(s, s.artifacts[k].id) = s.artifacts[k].sources
             /\ s.artifacts[k].sources \in Seq(TurnIds)
  <2> DEFINE a == s.artifacts[k]
  <2>1. a \in Artifacts /\ a.id \in ArtifactIds /\ a.sources \in Seq(TurnIds)
    BY <1>2 DEF Artifacts
  <2>2. a \in Range(s.artifacts)
    BY <1>2 DEF Range
  <2>3. \A c \in Range(s.artifacts) : c.id = a.id => c = a
    BY <1>1, <1>2 DEF Range, DistinctIds
  <2>4. (CHOOSE c \in Range(s.artifacts) : c.id = a.id) = a
    <3> HIDE DEF a
    <3> QED BY <2>2, <2>3
  <2>5. SourcesOf(s, a.id) = a.sources
    <3> HIDE DEF a
    <3> QED BY <2>1, <2>4 DEF SourcesOf
  <2> QED BY <2>1, <2>5 DEF Known
<1>4. ASSUME NEW x \in TurnIds PROVE x \in Known(s) /\ SourcesOf(s, x) = <<x>> /\ <<x>> \in Seq(TurnIds)
  <2>1. x \notin ArtifactIds
    BY ValueAssumption
  <2> QED BY <2>1 DEF SourcesOf, Known
<1>5. ASSUME NEW x \in Known(s) PROVE SourcesOf(s, x) \in Seq(TurnIds)
  <2>1. CASE x \in TurnIds
    BY <1>4, <2>1
  <2>2. CASE x \notin TurnIds
    <3>1. PICK k \in 1..Len(s.artifacts) : x = s.artifacts[k].id
      BY <2>2 DEF Known
    <3> QED BY <1>3, <3>1
  <2> QED BY <2>1, <2>2
<1> QED BY <1>3, <1>4, <1>5

ExpandFunction(s) == [p \in Seq(TurnIds) \X Known(s) |-> p[1] \o SourcesOf(s, p[2])]

LEMMA ExpandTraced ==
    ASSUME NEW s \in Conversations, Good(s), NEW view \in Seq(Known(s))
    PROVE  /\ ExpandFunction(s) \in [Seq(TurnIds) \X Known(s) -> Seq(TurnIds)]
           /\ Traced(Seq(TurnIds), ExpandFunction(s), << >>, view, Expanded(s, view))
<1> DEFINE V == Seq(TurnIds)
           E == Known(s)
           G == ExpandFunction(s)
           k == Len(view)
           Iter(f) == [d \in SUBSET (1..k) |->
                          IF d = {} THEN << >>
                          ELSE f[d \ {Max(d)}] \o SourcesOf(s, view[Max(d)])]
           h == CHOOSE x : x = Iter(x)
<1>1. G \in [V \X E -> V]
  <2>1. \A p \in V \X E : p[1] \o SourcesOf(s, p[2]) \in V
    BY SourcesKnown, ConcatProperties
  <2> QED BY <2>1 DEF ExpandFunction
<1>2. << >> \in V
  OBVIOUS
<1>3. DOMAIN view = 1..k /\ k \in Nat /\ \A i \in 1..k : view[i] \in E
  OBVIOUS
<1>4. PICK f : IsFold(V, E, G, << >>, view, f)
  <2> HIDE DEF G, V
  <2> QED BY <1>1, <1>2, FoldFacts, Zenon
<1>5. f = Iter(f)
  BY <1>4 DEF IsFold, ExpandFunction
<1>6. h = Iter(h)
  BY <1>5
<1>7. Expanded(s, view) = h[1..k]
  BY <1>3 DEF Expanded, FoldLeft, MapThenFoldSet
<1> HIDE DEF h
<1>8. h[{}] = << >> /\ \A i \in 1..k : h[1..i] = h[1..(i - 1)] \o SourcesOf(s, view[i])
  BY <1>3, <1>6, PrefixFacts
<1>9. Folding(V, G, << >>, view, h)
  BY <1>3, <1>8 DEF Folding, ExpandFunction
<1>10. Traced(V, G, << >>, view, h[1..k])
  <2> HIDE DEF G, V
  <2> QED BY <1>1, <1>2, <1>9, FoldTrace, Zenon
<1> QED BY <1>1, <1>7, <1>10, Zenon

LEMMA ExpandedAppend ==
    ASSUME NEW s \in Conversations, Good(s), NEW view \in Seq(Known(s)), NEW x \in Known(s)
    PROVE  /\ Expanded(s, view) \in Seq(TurnIds)
           /\ Expanded(s, Append(view, x)) = Expanded(s, view) \o SourcesOf(s, x)
<1> DEFINE V == Seq(TurnIds)
           E == Known(s)
           G == ExpandFunction(s)
           next == Append(view, x)
           a == Expanded(s, view)
           b == Expanded(s, next)
<1>1. << >> \in V /\ next \in Seq(E)
  OBVIOUS
<1>2. G \in [V \X E -> V] /\ Traced(V, G, << >>, view, a)
  BY ExpandTraced, Zenon
<1>3. Traced(V, G, << >>, next, b)
  <2> HIDE DEF next
  <2> QED BY <1>1, ExpandTraced, Zenon
<1>4. a \in V /\ b = G[<<a, x>>]
  <2> DEFINE none == << >>
  <2>1. none \in V /\ view \in Seq(E) /\ x \in E /\ Traced(V, G, none, view, a)
    BY <1>1, <1>2
  <2>2. Traced(V, G, none, Append(view, x), b)
    BY <1>3
  <2>3. G \in [V \X E -> V]
    BY <1>2
  <2> HIDE DEF V, G, E, a, b, none
  <2>4. OneStepMore(V, G, none, view, x)
    BY <2>1, <2>3, FoldAppend, Zenon
  <2> QED BY <2>1, <2>2, <2>4, Zenon DEF OneStepMore
<1> HIDE DEF a, b
<1>5. b = a \o SourcesOf(s, x)
  BY <1>4 DEF ExpandFunction
<1> QED BY <1>4, <1>5 DEF a, b

LEMMA ExpandedEmpty ==
    ASSUME NEW s \in Conversations, Good(s)
    PROVE  Expanded(s, << >>) = << >>
<1>1. << >> \in Seq(Known(s)) /\ Len(<< >>) = 0
  OBVIOUS
<1> DEFINE none == << >>
           e == Expanded(s, none)
<1>2. Traced(Seq(TurnIds), ExpandFunction(s), none, none, e)
  BY <1>1, ExpandTraced, Zenon
<1>3. PICK g \in [0..Len(none) -> Seq(TurnIds)] : e = g[Len(none)] /\ g[0] = none
  <2> HIDE DEF none, e
  <2> QED BY <1>2, Zenon DEF Traced
<1>4. Len(none) = 0
  BY <1>1
<1> HIDE DEF e, none
<1>5. e = none
  BY <1>3, <1>4
<1> QED BY <1>5 DEF e, none

LEMMA Regrouped ==
    ASSUME NEW a \in Seq(TurnIds), NEW b \in Seq(TurnIds), NEW c \in Seq(TurnIds)
    PROVE  (a \o b) \o c = a \o (b \o c)
BY ConcatAssociative

(* Turn ids in a view stand for themselves. *)
LEMMA ExpandedIds ==
    ASSUME NEW s \in Conversations, Good(s), NEW view \in Seq(Known(s)), NEW ids \in Seq(TurnIds)
    PROVE  /\ view \o ids \in Seq(Known(s))
           /\ Expanded(s, view \o ids) = Expanded(s, view) \o ids
<1> DEFINE n == Len(ids)
           pre(k) == SubSeq(ids, 1, k)
           base == Expanded(s, view)
           P == {k \in 0..n : /\ view \o pre(k) \in Seq(Known(s))
                              /\ Expanded(s, view \o pre(k)) = base \o pre(k)}
<1>1. n \in Nat /\ (\A i \in 1..n : ids[i] \in TurnIds) /\ TurnIds \subseteq Known(s)
  BY SourcesKnown
<1>2. base \in Seq(TurnIds)
  <2>1. << >> \in Seq(TurnIds)
    OBVIOUS
  <2>2. /\ ExpandFunction(s) \in [Seq(TurnIds) \X Known(s) -> Seq(TurnIds)]
        /\ Traced(Seq(TurnIds), ExpandFunction(s), << >>, view, base)
    BY ExpandTraced, Zenon
  <2>3. Len(view) \in Nat
    OBVIOUS
  <2> HIDE DEF base
  <2>4. PICK g \in [0..Len(view) -> Seq(TurnIds)] : base = g[Len(view)]
    BY <2>2, Zenon DEF Traced
  <2> QED BY <2>3, <2>4
<1>3. 0 \in P
  <2>1. pre(0) = << >> /\ 0 \in 0..n
    BY <1>1
  <2>2. view \o << >> = view /\ base \o << >> = base
    BY <1>2, ConcatEmptySeq
  <2> QED BY <2>1, <2>2
<1>4. \A k \in 0..(n - 1) : k \in P => k + 1 \in P
  <2> SUFFICES ASSUME NEW k \in 0..(n - 1), k \in P PROVE k + 1 \in P
    OBVIOUS
  <2>1. k + 1 \in 1..n /\ (k + 1) - 1 = k /\ k + 1 \in 0..n /\ k \in 0..n /\ 1 \in 1..n
    BY <1>1
  <2> DEFINE x == ids[k + 1]
             p == pre(k)
             q == pre(k + 1)
  <2>2. x \in TurnIds /\ x \in Known(s) /\ SourcesOf(s, x) = <<x>> /\ <<x>> \in Seq(TurnIds)
    BY <1>1, <2>1, SourcesKnown
  <2>3. p \in Seq(TurnIds) /\ q \in Seq(TurnIds)
    BY <1>1, <2>1
  <2>4. q = p \o <<x>>
    <3>1. 1 \in 1..Len(ids) /\ k + 1 \in 1..Len(ids)
      BY <2>1
    <3> QED BY <2>1, <3>1, SubSeqRecursiveSecond
  <2>5. view \o p \in Seq(Known(s)) /\ Expanded(s, view \o p) = base \o p
    OBVIOUS
  <2> HIDE DEF p, q, x, base, P
  <2>6. p \in Seq(Known(s)) /\ <<x>> \in Seq(Known(s))
    BY <1>1, <2>2, <2>3, SeqMonotonic
  <2>7. view \o q = (view \o p) \o <<x>>
    BY <2>4, <2>6, ConcatAssociative
  <2>8. (view \o p) \o <<x>> = Append(view \o p, x)
    BY <2>2, <2>5
  <2>9. Append(view \o p, x) \in Seq(Known(s))
    BY <2>2, <2>5
  <2>10. Expanded(s, Append(view \o p, x)) = Expanded(s, view \o p) \o SourcesOf(s, x)
    BY <2>2, <2>5, ExpandedAppend
  <2>11. (base \o p) \o <<x>> = base \o q
    <3> DEFINE u == <<x>>
    <3>1. q = p \o u
      BY <2>4
    <3>2. (base \o p) \o u = base \o (p \o u)
      <4>1. p \in Seq(TurnIds)
        BY <2>3
      <4>2. u \in Seq(TurnIds)
        BY <2>2
      <4> HIDE DEF u, pre, n
      <4>3. \A a, b, c \in Seq(TurnIds) : (a \o b) \o c = a \o (b \o c)
        BY Regrouped
      <4> QED BY <1>2, <4>1, <4>2, <4>3, Zenon
    <3> QED BY <3>1, <3>2
  <2>12. view \o q \in Seq(Known(s)) /\ Expanded(s, view \o q) = base \o q
    BY <2>2, <2>5, <2>7, <2>8, <2>9, <2>10, <2>11
  <2> QED BY <2>1, <2>12 DEF P, q
<1>5. n \in P
  <2> HIDE DEF P
  <2>1. \A k \in 0..n : k \in P
    BY <1>1, <1>3, <1>4, BoundedInduction
  <2> QED BY <1>1, <2>1
<1>6. pre(n) = ids
  BY SubSeqFull
<1> QED BY <1>5, <1>6

LEMMA IdsBetweenJoin ==
    ASSUME NEW turns \in Seq(Turns), NEW a \in Nat, NEW b \in Nat, a <= b, b <= Len(turns)
    PROVE  /\ IdsBetween(turns, a, b) \in Seq(TurnIds)
           /\ IdsBetween(turns, 0, a) \o IdsBetween(turns, a, b) = IdsBetween(turns, 0, b)
<1>1. ASSUME NEW i \in 1..Len(turns) PROVE turns[i].id \in TurnIds
  <2>1. turns[i] \in Turns
    OBVIOUS
  <2> QED BY <2>1 DEF Turns
<1>2. ASSUME NEW c \in Nat, NEW d \in Nat, c <= d, d <= Len(turns)
      PROVE  /\ IdsBetween(turns, c, d) \in Seq(TurnIds)
             /\ Len(IdsBetween(turns, c, d)) = d - c
             /\ \A i \in 1..(d - c) : IdsBetween(turns, c, d)[i] = turns[c + i].id
  <2> DEFINE t == IdsBetween(turns, c, d)
  <2>1. d - c \in Nat /\ \A i \in 1..(d - c) : c + i \in 1..Len(turns)
    BY <1>2
  <2>2. t = [i \in 1..(d - c) |-> turns[c + i].id]
    BY DEF IdsBetween
  <2>3. \A i \in 1..(d - c) : turns[c + i].id \in TurnIds
    BY <1>1, <2>1
  <2> DEFINE m == d - c
  <2>4. [i \in 1..m |-> turns[c + i].id] \in Seq(TurnIds)
    <3> HIDE DEF m
    <3> QED BY <2>1, <2>3 DEF m
  <2>5. Len(t) = m
    <3>1. DOMAIN t = 1..m
      BY <2>2
    <3> HIDE DEF t, m
    <3> QED BY <2>1, <3>1 DEF m
  <2> QED BY <2>2, <2>4, <2>5
<1> DEFINE p == IdsBetween(turns, 0, a)
           q == IdsBetween(turns, a, b)
           r == IdsBetween(turns, 0, b)
<1>3. /\ p \in Seq(TurnIds) /\ q \in Seq(TurnIds) /\ r \in Seq(TurnIds)
      /\ Len(p) = a /\ Len(q) = b - a /\ Len(r) = b
      /\ \A i \in 1..a : p[i] = turns[i].id
      /\ \A i \in 1..(b - a) : q[i] = turns[a + i].id
      /\ \A i \in 1..b : r[i] = turns[i].id
  <2>1. 0 \in Nat /\ 0 <= a /\ 0 <= b /\ a <= Len(turns) /\ a - 0 = a /\ b - 0 = b
        /\ Len(turns) \in Nat
    OBVIOUS
  <2>2. /\ p \in Seq(TurnIds) /\ Len(p) = a /\ \A i \in 1..a : p[i] = turns[0 + i].id
    BY <1>2, <2>1
  <2>3. /\ r \in Seq(TurnIds) /\ Len(r) = b /\ \A i \in 1..b : r[i] = turns[0 + i].id
    BY <1>2, <2>1
  <2>4. /\ q \in Seq(TurnIds) /\ Len(q) = b - a /\ \A i \in 1..(b - a) : q[i] = turns[a + i].id
    BY <1>2
  <2> QED BY <2>2, <2>3, <2>4
<1> HIDE DEF p, q, r
<1>4. p \o q \in Seq(TurnIds) /\ Len(p \o q) = b
  <2>1. p \o q \in Seq(TurnIds) /\ Len(p \o q) = Len(p) + Len(q)
    BY <1>3, ConcatProperties
  <2>2. a + (b - a) = b
    OBVIOUS
  <2> QED BY <1>3, <2>1, <2>2
<1>5. ASSUME NEW i \in 1..b PROVE (p \o q)[i] = r[i]
  <2>1. CASE i <= a
    <3>1. i \in 1..a /\ (p \o q)[i] = p[i]
      BY <1>3, <2>1
    <3> QED BY <1>3, <3>1
  <2>2. CASE ~(i <= a)
    <3>1. i - a \in 1..(b - a) /\ a + (i - a) = i
      BY <2>2
    <3>2. (p \o q)[i] = q[i - a]
      BY <1>3, <2>2, ConcatProperties
    <3> QED BY <1>3, <3>1, <3>2
  <2> QED BY <2>1, <2>2
<1>6. p \o q = r
  BY <1>3, <1>4, <1>5, SeqEqual
<1> QED BY <1>3, <1>6 DEF p, q, r

Show(s, out, span) ==
    IF span.start >= s.head THEN out
    ELSE IF ~ IsRaw(span) /\ span.end <= s.head
    THEN Append(out, span.artifact)
    ELSE out \o IdsBetween(s.lineage, span.start, Smaller(span.end, s.head))

Showable(s) ==
    {x \in Spans : x.start < x.end /\ (IsRaw(x) \/ x.artifact \in Known(s))}

ShowFunction(s) == [p \in Seq(Known(s)) \X Showable(s) |-> Show(s, p[1], p[2])]

LEMMA ShowType ==
    ASSUME NEW s \in Conversations, Good(s), NEW out \in Seq(Known(s)), NEW x \in Showable(s)
    PROVE  Show(s, out, x) \in Seq(Known(s))
<1>1. /\ s.lineage \in Seq(Turns) /\ s.head \in Nat /\ s.head <= Len(s.lineage)
      /\ Len(s.lineage) \in Nat
  BY ConvFields DEF Good, Chained
<1>2. /\ x \in Spans /\ x.start \in Nat /\ x.end \in Nat /\ x.start < x.end
      /\ IsRaw(x) \/ x.artifact \in Known(s)
  BY SpanFields DEF Showable
<1>3. CASE x.start >= s.head
  BY <1>3 DEF Show
<1>4. CASE ~(x.start >= s.head) /\ ~ IsRaw(x) /\ x.end <= s.head
  <2>1. Show(s, out, x) = Append(out, x.artifact)
    BY <1>4 DEF Show
  <2>2. x.artifact \in Known(s)
    BY <1>2, <1>4
  <2> QED BY <2>1, <2>2
<1>5. CASE ~(x.start >= s.head) /\ ~(~ IsRaw(x) /\ x.end <= s.head)
  <2> DEFINE a == x.start
             b == Smaller(x.end, s.head)
             ids == IdsBetween(s.lineage, a, b)
  <2>1. Show(s, out, x) = out \o ids
    BY <1>5 DEF Show
  <2>2. a \in Nat /\ b \in Nat /\ a <= b /\ b <= Len(s.lineage)
    BY <1>1, <1>2, <1>5 DEF Smaller
  <2> HIDE DEF a, b
  <2>3. ids \in Seq(TurnIds)
    BY <1>1, <2>2, IdsBetweenJoin
  <2> HIDE DEF ids
  <2>4. out \o ids \in Seq(Known(s))
    BY <2>3, ExpandedIds
  <2> QED BY <2>1, <2>4
<1> QED BY <1>3, <1>4, <1>5

LEMMA ShowTraced ==
    ASSUME NEW s \in Conversations, Good(s), s.spans \in Seq(Showable(s))
    PROVE  /\ ShowFunction(s) \in [Seq(Known(s)) \X Showable(s) -> Seq(Known(s))]
           /\ Traced(Seq(Known(s)), ShowFunction(s), << >>, s.spans, effective_view(s))
<1> DEFINE V == Seq(Known(s))
           E == Showable(s)
           G == ShowFunction(s)
           spans == s.spans
           k == Len(spans)
           Iter(f) == [d \in SUBSET (1..k) |->
                          IF d = {} THEN << >>
                          ELSE Show(s, f[d \ {Max(d)}], spans[Max(d)])]
           h == CHOOSE x : x = Iter(x)
<1>1. G \in [V \X E -> V]
  BY ShowType DEF ShowFunction
<1>2. << >> \in V /\ spans \in Seq(E)
  OBVIOUS
<1>3. DOMAIN spans = 1..k /\ k \in Nat /\ \A i \in 1..k : spans[i] \in E
  BY <1>2
<1>4. PICK f : IsFold(V, E, G, << >>, spans, f)
  <2> HIDE DEF G, V, E, spans
  <2> QED BY <1>1, <1>2, FoldFacts, Zenon
<1>5. f = Iter(f)
  BY <1>4 DEF IsFold, ShowFunction
<1>6. h = Iter(h)
  BY <1>5
<1>7. effective_view(s) = h[1..k]
  BY <1>3 DEF effective_view, FoldLeft, MapThenFoldSet, Show, IdsBetween
<1> HIDE DEF h
<1>8. h[{}] = << >> /\ \A i \in 1..k : h[1..i] = Show(s, h[1..(i - 1)], spans[i])
  BY <1>3, <1>6, PrefixFacts
<1>9. Folding(V, G, << >>, spans, h)
  BY <1>3, <1>8 DEF Folding, ShowFunction
<1>10. Traced(V, G, << >>, spans, h[1..k])
  <2> HIDE DEF G, V, E, spans
  <2> QED BY <1>1, <1>2, <1>9, FoldTrace, Zenon
<1> QED BY <1>1, <1>7, <1>10, Zenon

LEMMA ViewShowsTurns ==
    ASSUME NEW s \in Conversations, Good(s)
    PROVE  Expanded(s, effective_view(s)) = [i \in 1..s.head |-> s.lineage[i].id]
<1> DEFINE V == Seq(Known(s))
           E == Showable(s)
           G == ShowFunction(s)
           spans == s.spans
           n == Len(spans)
           l == s.lineage
           m == s.head
           out == effective_view(s)
           upto(k) == Smaller(EndOf(spans, k), m)
           R == {p \in Nat \X V : Expanded(s, p[2]) = IdsBetween(l, 0, upto(p[1]))}
<1>1. /\ l \in Seq(Turns) /\ Len(l) \in Nat /\ m \in Nat /\ s.ceiling \in Nat /\ m <= s.ceiling
      /\ s.ceiling <= Len(l) /\ m <= Len(l) /\ spans \in Seq(Spans) /\ n \in Nat
      /\ TilesExactly(spans, s.ceiling)
      /\ s.artifacts \in Seq(Artifacts)
      /\ \A k \in 1..Len(s.artifacts) : Summarised(s.artifacts[k], l, s.ceiling)
      /\ \A x \in Compacted(spans) : HasArtifact(x, s.artifacts)
  BY ConvFields DEF Good, Chained, Projected
<1> HIDE DEF l, m, spans
<1>2. /\ EndOf(spans, n) = s.ceiling
      /\ \A i \in 0..n : EndOf(spans, i) \in Nat
      /\ \A i \in 1..n : /\ spans[i] \in Spans /\ spans[i].start \in Nat /\ spans[i].end \in Nat
                         /\ spans[i].start = EndOf(spans, i - 1)
                         /\ spans[i].end = EndOf(spans, i)
                         /\ spans[i].start < spans[i].end
  BY <1>1, TilingFacts
<1>3. ASSUME NEW i \in 1..n, ~ IsRaw(spans[i])
      PROVE  /\ spans[i].artifact \in Known(s)
             /\ SourcesOf(s, spans[i].artifact) = IdsBetween(l, spans[i].start, spans[i].end)
  <2>1. spans[i] \in Compacted(spans)
    <3>1. i \in DOMAIN spans
      BY <1>1
    <3> QED BY <1>3, <3>1 DEF Compacted
  <2>2. PICK k \in 1..Len(s.artifacts) :
            /\ s.artifacts[k].id = spans[i].artifact
            /\ s.artifacts[k].start = spans[i].start /\ s.artifacts[k].end = spans[i].end
    BY <1>1, <2>1 DEF HasArtifact
  <2>3. s.artifacts[k].sources = IdsBetween(l, s.artifacts[k].start, s.artifacts[k].end)
    BY <1>1 DEF Summarised
  <2>4. /\ s.artifacts[k].id \in Known(s)
        /\ SourcesOf(s, s.artifacts[k].id) = s.artifacts[k].sources
    BY SourcesKnown
  <2> QED BY <2>2, <2>3, <2>4
<1>4. spans \in Seq(E)
  <2>1. \A i \in 1..n : spans[i] \in E
    BY <1>2, <1>3 DEF Showable
  <2> HIDE DEF E
  <2> QED BY <1>1, <2>1
<1>5. G \in [V \X E -> V] /\ Traced(V, G, << >>, spans, out)
  <2>1. s.spans \in Seq(Showable(s))
    BY <1>4 DEF spans
  <2> QED BY <2>1, ShowTraced, Zenon DEF spans
<1>6. << >> \in V
  OBVIOUS
<1>7. <<0, << >> >> \in R
  <2>1. upto(0) = 0
    BY <1>1 DEF EndOf, Smaller
  <2>2. IdsBetween(l, 0, 0) = << >>
    <3> DEFINE zero == 0
               ids == IdsBetween(l, zero, zero)
    <3>1. zero \in Nat /\ zero <= Len(l)
      BY <1>1
    <3>2. ids = [i \in 1..(zero - zero) |-> l[zero + i].id]
      BY DEF IdsBetween
    <3> HIDE DEF zero
    <3>3. ids \in Seq(TurnIds)
      <4>1. zero <= zero
        BY <3>1
      <4> QED BY <1>1, <3>1, <4>1, IdsBetweenJoin
    <3>4. DOMAIN ids = 1..(zero - zero)
      BY <3>2
    <3> HIDE DEF ids
    <3>5. ids = << >>
      BY <3>1, <3>3, <3>4
    <3> QED BY <3>5 DEF ids, zero
  <2>3. Expanded(s, << >>) = << >>
    BY ExpandedEmpty
  <2> HIDE DEF V, upto
  <2> QED BY <1>6, <2>1, <2>2, <2>3
<1>8. ASSUME NEW k \in 1..n, NEW v \in V, <<k - 1, v>> \in R
      PROVE  <<k, G[<<v, spans[k]>>]>> \in R
  <2> DEFINE x == spans[k]
             y == Show(s, v, x)
             w == Expanded(s, v)
             a == x.start
             b == Smaller(x.end, m)
  <2>1. x \in E
    BY <1>1, <1>4
  <2>2. G[<<v, x>>] = y /\ y \in V
    BY <2>1, ShowType DEF ShowFunction
  <2>3. w = IdsBetween(l, 0, upto(k - 1)) /\ v \in Seq(Known(s))
    BY <1>8
  <2>4. /\ a \in Nat /\ x.end \in Nat /\ a < x.end
        /\ upto(k - 1) = Smaller(a, m) /\ upto(k) = b
    BY <1>2
  <2> HIDE DEF w
  <2>5. Expanded(s, y) = IdsBetween(l, 0, upto(k))
    <3>1. CASE a >= m
      <4>1. y = v
        BY <3>1 DEF Show, m
      <4>2. upto(k) = upto(k - 1)
        BY <1>1, <2>4, <3>1 DEF Smaller
      <4> QED BY <2>3, <4>1, <4>2 DEF w
    <3>2. CASE a < m
      <4>1. upto(k - 1) = a /\ b \in Nat /\ a <= b /\ b <= Len(l)
        BY <1>1, <2>4, <3>2 DEF Smaller
      <4>2. ~(a >= m)
        BY <1>1, <2>4, <3>2
      <4> HIDE DEF b
      <4>3. /\ IdsBetween(l, a, b) \in Seq(TurnIds)
            /\ IdsBetween(l, 0, a) \o IdsBetween(l, a, b) = IdsBetween(l, 0, b)
        BY <1>1, <2>4, <4>1, IdsBetweenJoin
      <4>4. Expanded(s, y) = w \o IdsBetween(l, a, b)
        <5>1. CASE ~ IsRaw(x) /\ x.end <= m
          <6>1. y = Append(v, x.artifact)
            BY <4>2, <5>1 DEF Show, m
          <6>2. b = x.end
            BY <5>1 DEF b, Smaller
          <6>3. x.artifact \in Known(s) /\ SourcesOf(s, x.artifact) = IdsBetween(l, a, x.end)
            BY <1>3, <5>1
          <6> HIDE DEF x, y, a
          <6>4. Expanded(s, Append(v, x.artifact)) = w \o SourcesOf(s, x.artifact)
            BY <2>3, <6>3, ExpandedAppend DEF w
          <6> QED BY <6>1, <6>2, <6>3, <6>4
        <5>2. CASE ~(~ IsRaw(x) /\ x.end <= m)
          <6>1. y = v \o IdsBetween(l, a, b)
            BY <4>2, <5>2 DEF Show, m, l, b
          <6> DEFINE ids == IdsBetween(l, a, b)
          <6> HIDE DEF ids, y
          <6>2. Expanded(s, v \o ids) = w \o ids
            BY <2>3, <4>3, ExpandedIds DEF w, ids
          <6> QED BY <6>1, <6>2 DEF ids
        <5> QED BY <5>1, <5>2
      <4> QED BY <2>3, <2>4, <4>1, <4>3, <4>4
    <3> QED BY <1>1, <2>4, <3>1, <3>2
  <2> HIDE DEF y, upto, x, V
  <2>6. <<k, y>> \in R
    <3>1. k \in Nat
      BY <1>1
    <3> QED BY <2>2, <2>5, <3>1
  <2> QED BY <2>2, <2>6 DEF x
<1>9. <<Len(spans), out>> \in R
  <2> HIDE DEF V, E, G, R, out
  <2>1. Kept(V, G, << >>, spans, R)
    BY <1>7, <1>8, Zenon DEF Kept, n
  <2> QED BY <1>4, <1>5, <1>6, <2>1, TraceInvariant, Zenon
<1>10. Expanded(s, out) = IdsBetween(l, 0, upto(n))
  <2> HIDE DEF V, upto
  <2> QED BY <1>9
<1>11. upto(n) = m
  BY <1>1, <1>2 DEF Smaller
<1>12. IdsBetween(l, 0, m) = [i \in 1..m |-> l[i].id]
  BY <1>1 DEF IdsBetween
<1> QED BY <1>10, <1>11, <1>12 DEF l, m, out

-----------------------------------------------------------------------------
(***************************************************************************)
(* All conversations, the token and the plan a caller kept.                *)
(***************************************************************************)
(* A token, or a plan, is never ahead of its conversation; while the version *)
(* is the one it was made at, what it says of the structure is still true.   *)
StillHeld(s) ==
    held.token.version <= s.version /\ (held.token.version = s.version => held.structure = Structure(s))

StillPlanned(s) ==
    /\ plan.version <= s.version
    /\ plan.version = s.version =>
           /\ plan.start < plan.end /\ plan.end <= s.ceiling
           /\ plan.sources = IdsBetween(s.lineage, plan.start, plan.end)

HeldInv ==
    held # NoValue =>
        /\ held.token \in BoundaryTokens
        /\ conv[held.token.conv] # NoValue
        /\ ~ conv[held.token.conv].panicked => StillHeld(conv[held.token.conv])

PlannedInv ==
    plan # NoValue =>
        /\ PlanTyped
        /\ conv[plan.conv] # NoValue
        /\ ~ conv[plan.conv].panicked => StillPlanned(conv[plan.conv])

IInv ==
    /\ conv \in [Convs -> Conversations \cup {NoValue}]
    /\ \A c \in Live : Good(conv[c])
    /\ HeldInv
    /\ PlannedInv

(* The structure changes only with the version, which only grows. *)
Succeeds(s, r) ==
    \/ r.panicked
    \/ r.version > s.version
    \/ r.version = s.version /\ Structure(r) = Structure(s)

LEMMA LiveGood ==
    ASSUME IInv, NEW c \in Live
    PROVE  /\ c \in Convs /\ conv[c] # NoValue /\ ~ conv[c].panicked
           /\ conv[c] \in Conversations /\ Good(conv[c])
BY DEF IInv, Live

LEMMA SameStructure ==
    ASSUME NEW s \in Conversations, Good(s), NEW r \in Conversations, Good(r),
           Structure(r) = Structure(s)
    PROVE  r.ceiling = s.ceiling /\ \A i \in 1..s.ceiling : r.lineage[i] = s.lineage[i]
<1>1. /\ s.lineage \in Seq(Turns) /\ s.ceiling \in Nat /\ s.ceiling <= Len(s.lineage)
      /\ r.lineage \in Seq(Turns) /\ r.ceiling \in Nat /\ r.ceiling <= Len(r.lineage)
  BY ConvFields DEF Good, Chained
<1>2. SubSeq(r.lineage, 1, r.ceiling) = SubSeq(s.lineage, 1, s.ceiling)
  BY DEF Structure, lineage_turns
<1>3. /\ Len(SubSeq(s.lineage, 1, s.ceiling)) = s.ceiling
      /\ \A i \in 1..s.ceiling : SubSeq(s.lineage, 1, s.ceiling)[i] = s.lineage[i]
  BY <1>1
<1>4. /\ Len(SubSeq(r.lineage, 1, r.ceiling)) = r.ceiling
      /\ \A i \in 1..r.ceiling : SubSeq(r.lineage, 1, r.ceiling)[i] = r.lineage[i]
  BY <1>1
<1>5. r.ceiling = s.ceiling
  BY <1>2, <1>3, <1>4
<1> QED BY <1>2, <1>3, <1>4, <1>5

LEMMA HeldAdvances ==
    ASSUME NEW s \in Conversations, NEW r \in Conversations, held.token \in BoundaryTokens,
           StillHeld(s), Succeeds(s, r), ~ r.panicked
    PROVE  StillHeld(r)
<1>1. s.version \in Nat /\ r.version \in Nat
  BY ConvFields
<1>2. held.token.version \in Nat
  BY DEF BoundaryTokens
<1>3. CASE r.version > s.version
  BY <1>1, <1>2, <1>3 DEF StillHeld
<1>4. CASE r.version = s.version /\ Structure(r) = Structure(s)
  BY <1>4 DEF StillHeld
<1> QED BY <1>3, <1>4 DEF Succeeds

LEMMA PlanAdvances ==
    ASSUME NEW s \in Conversations, Good(s), NEW r \in Conversations, Good(r), PlanTyped,
           StillPlanned(s), Succeeds(s, r), ~ r.panicked
    PROVE  StillPlanned(r)
<1>1. s.version \in Nat /\ r.version \in Nat /\ s.ceiling \in Nat
  BY ConvFields
<1>2. plan.version \in Nat /\ plan.start \in Nat /\ plan.end \in Nat
  BY DEF PlanTyped
<1>3. CASE r.version > s.version
  BY <1>1, <1>2, <1>3 DEF StillPlanned
<1>4. CASE r.version = s.version /\ Structure(r) = Structure(s)
  <2>1. r.ceiling = s.ceiling /\ \A i \in 1..s.ceiling : r.lineage[i] = s.lineage[i]
    BY <1>4, SameStructure
  <2>2. ASSUME plan.version = r.version
        PROVE  /\ plan.start < plan.end /\ plan.end <= r.ceiling
               /\ plan.sources = IdsBetween(r.lineage, plan.start, plan.end)
    <3>1. /\ plan.start < plan.end /\ plan.end <= s.ceiling
          /\ plan.sources = IdsBetween(s.lineage, plan.start, plan.end)
      BY <1>4, <2>2 DEF StillPlanned
    <3>2. \A i \in 1..(plan.end - plan.start) : plan.start + i \in 1..s.ceiling
      BY <1>1, <1>2, <3>1
    <3>3. IdsBetween(r.lineage, plan.start, plan.end) = IdsBetween(s.lineage, plan.start, plan.end)
      BY <2>1, <3>2 DEF IdsBetween
    <3> QED BY <2>1, <3>1, <3>3
  <2> QED BY <1>4, <2>2 DEF StillPlanned
<1> QED BY <1>3, <1>4 DEF Succeeds

(* An operation may put r in the place of conversation d. *)
Storable(d, r) ==
    /\ r \in Conversations
    /\ r.panicked \/ Good(r)
    /\ conv[d] = NoValue \/ (d \in Live /\ Succeeds(conv[d], r))

LEMMA StoreKeeps ==
    ASSUME IInv, NEW d \in Convs, NEW r, Storable(d, r),
           conv' = [conv EXCEPT ![d] = r], UNCHANGED <<held, plan>>
    PROVE  IInv'
<1>1. /\ conv \in [Convs -> Conversations \cup {NoValue}]
      /\ r \in Conversations /\ r # NoValue /\ (r.panicked \/ Good(r))
      /\ conv[d] = NoValue \/ (d \in Live /\ Succeeds(conv[d], r))
  BY ValueAssumption DEF IInv, Storable
<1>2. /\ conv' \in [Convs -> Conversations \cup {NoValue}]
      /\ conv'[d] = r /\ \A c \in Convs : c # d => conv'[c] = conv[c]
  BY <1>1
<1>3. ASSUME NEW c \in Live' PROVE Good(conv'[c])
  <2>1. c \in Convs /\ conv'[c] # NoValue /\ ~ conv'[c].panicked
    BY <1>3 DEF Live
  <2>2. CASE c = d
    BY <1>1, <1>2, <2>1, <2>2
  <2>3. CASE c # d
    <3>1. c \in Live
      BY <1>2, <2>1, <2>3 DEF Live
    <3> QED BY <1>2, <2>1, <2>3, <3>1 DEF IInv
  <2> QED BY <2>2, <2>3
<1>4. HeldInv'
  <2> SUFFICES ASSUME held # NoValue
               PROVE  /\ held.token \in BoundaryTokens
                      /\ conv'[held.token.conv] # NoValue
                      /\ ~ conv'[held.token.conv].panicked => StillHeld(conv'[held.token.conv])
    BY DEF HeldInv, StillHeld
  <2> DEFINE c == held.token.conv
  <2>1. /\ held.token \in BoundaryTokens /\ conv[c] # NoValue
        /\ ~ conv[c].panicked => StillHeld(conv[c])
    BY DEF IInv, HeldInv
  <2>2. c \in Convs
    BY <2>1 DEF BoundaryTokens
  <2> HIDE DEF c
  <2>3. CASE c = d
    <3>1. d \in Live /\ Succeeds(conv[d], r)
      BY <1>1, <2>1, <2>3
    <3>2. conv[d] \in Conversations /\ StillHeld(conv[d])
      BY <2>1, <2>3, <3>1, LiveGood
    <3>3. ~ r.panicked => StillHeld(r)
      BY <1>1, <2>1, <3>1, <3>2, HeldAdvances
    <3> QED BY <1>1, <1>2, <2>1, <2>3, <3>3 DEF c
  <2>4. CASE c # d
    BY <1>2, <2>1, <2>2, <2>4 DEF c
  <2> QED BY <2>3, <2>4
<1>5. PlannedInv'
  <2> SUFFICES ASSUME plan # NoValue
               PROVE  /\ PlanTyped
                      /\ conv'[plan.conv] # NoValue
                      /\ ~ conv'[plan.conv].panicked => StillPlanned(conv'[plan.conv])
    BY DEF PlannedInv, StillPlanned, PlanTyped
  <2> DEFINE c == plan.conv
  <2>1. /\ PlanTyped /\ conv[c] # NoValue
        /\ ~ conv[c].panicked => StillPlanned(conv[c])
    BY DEF IInv, PlannedInv
  <2>2. c \in Convs
    BY <2>1 DEF PlanTyped
  <2> HIDE DEF c
  <2>3. CASE c = d
    <3>1. d \in Live /\ Succeeds(conv[d], r)
      BY <1>1, <2>1, <2>3
    <3>2. conv[d] \in Conversations /\ Good(conv[d]) /\ StillPlanned(conv[d])
      BY <2>1, <2>3, <3>1, LiveGood
    <3>3. ~ r.panicked => StillPlanned(r)
      BY <1>1, <2>1, <3>1, <3>2, PlanAdvances
    <3> QED BY <1>1, <1>2, <2>1, <2>3, <3>3 DEF c
  <2>4. CASE c # d
    BY <1>2, <2>1, <2>2, <2>4 DEF c
  <2> QED BY <2>3, <2>4
<1> QED BY <1>2, <1>3, <1>4, <1>5 DEF IInv

LEMMA InitKeeps == Init => IInv
<1> SUFFICES ASSUME Init PROVE IInv
  OBVIOUS
<1>1. NewConversation \in Conversations /\ Good(NewConversation)
  BY NewConversationGood
<1>2. \A c \in Convs : conv[c] = NoValue \/ conv[c] = NewConversation
  BY DEF Init
<1>3. conv \in [Convs -> Conversations \cup {NoValue}]
  <2> HIDE DEF NewConversation
  <2> QED BY <1>1 DEF Init
<1>4. \A c \in Live : Good(conv[c])
  BY <1>1, <1>2 DEF Live
<1> QED BY <1>3, <1>4 DEF IInv, Init, HeldInv, PlannedInv

-----------------------------------------------------------------------------
(***************************************************************************)
(* Every operation keeps IInv.                                             *)
(***************************************************************************)
LEMMA IssuedTyped ==
    ASSUME IInv, NEW c \in Live, NEW n \in 0..conv[c].ceiling
    PROVE  issue_boundary_at(c, n) \in BoundaryTokens
<1> DEFINE s == conv[c]
<1>1. c \in Convs /\ s \in Conversations /\ Good(s)
  BY LiveGood
<1> HIDE DEF s
<1>2. /\ s.lineage \in Seq(Turns) /\ s.ceiling \in Nat /\ s.ceiling <= Len(s.lineage)
      /\ s.version \in Nat
  BY <1>1, ConvFields DEF Good, Chained
<1>3. n \in 0..s.ceiling
  BY DEF s
<1>4. n \in Nat /\ n \in 0..Len(s.lineage)
  BY <1>2, <1>3
<1>5. AnchorAt(s.lineage, n) \in Anchors
  BY <1>2, <1>4, AnchorType
<1>6. [conv |-> c, count |-> n, after |-> AnchorAt(s.lineage, n), version |-> s.version]
         \in BoundaryTokens
  BY <1>1, <1>2, <1>4, <1>5 DEF BoundaryTokens
<1> QED BY <1>6 DEF issue_boundary_at, s

LEMMA TokensTyped ==
    ASSUME IInv, NEW c \in Live, NEW b \in Tokens(c)
    PROVE  b \in BoundaryTokens
<1>1. CASE b \in valid_boundaries(c)
  <2>1. PICK n \in 0..conv[c].ceiling : b = issue_boundary_at(c, n)
    BY <1>1, Zenon DEF valid_boundaries
  <2> QED BY <2>1, IssuedTyped
<1>2. CASE held # NoValue /\ b = held.token
  BY <1>2 DEF IInv, HeldInv
<1> QED BY <1>1, <1>2 DEF Tokens

LEMMA BeginKeeps ==
    ASSUME IInv, NEW c \in Live, NEW t \in TurnIds, begin_turn(c, t) PROVE IInv'
<1> DEFINE s == conv[c]
           r == [s EXCEPT !.pending = [id |-> t, parent |-> tip_id(s)]]
<1>1. c \in Convs /\ s # NoValue /\ s \in Conversations /\ Good(s)
      /\ conv \in [Convs -> Conversations \cup {NoValue}]
  BY LiveGood DEF IInv
<1>2. conv' = [conv EXCEPT ![c] = r] /\ UNCHANGED <<held, plan>>
  BY DEF begin_turn
<1>3. r \in Conversations /\ Good(r)
  BY <1>1, PendingSetGood
<1>4. r.version = s.version /\ Structure(r) = Structure(s)
  BY <1>1 DEF Conversations, Structure, lineage_turns
<1> HIDE DEF r
<1>5. Storable(c, r)
  BY <1>3, <1>4 DEF Storable, Succeeds
<1> QED BY <1>1, <1>2, <1>5, StoreKeeps

LEMMA DiscardKeeps ==
    ASSUME IInv, NEW c \in Live, discard_pending_turn(c) PROVE IInv'
<1> DEFINE s == conv[c]
           r == [s EXCEPT !.pending = NoValue]
<1>1. c \in Convs /\ s # NoValue /\ s \in Conversations /\ Good(s)
      /\ conv \in [Convs -> Conversations \cup {NoValue}]
  BY LiveGood DEF IInv
<1>2. conv' = [conv EXCEPT ![c] = r] /\ UNCHANGED <<held, plan>>
  BY DEF discard_pending_turn
<1>3. r \in Conversations /\ Good(r)
  BY <1>1, PendingClearedGood
<1>4. r.version = s.version /\ Structure(r) = Structure(s)
  BY <1>1 DEF Conversations, Structure, lineage_turns
<1> HIDE DEF r
<1>5. Storable(c, r)
  BY <1>3, <1>4 DEF Storable, Succeeds
<1> QED BY <1>1, <1>2, <1>5, StoreKeeps

LEMMA CommitKeeps ==
    ASSUME IInv, NEW c \in Live, NEW call \in CallIds \cup {NoCall}, commit_pending(c, call)
    PROVE  IInv'
<1> DEFINE s == conv[c]
           turn == [id |-> s.pending.id, parent |-> s.pending.parent, call |-> call]
           r == commit_draft(s, turn)
<1>1. c \in Convs /\ s # NoValue /\ s \in Conversations /\ Good(s)
  BY LiveGood
<1>2. /\ s.pending # NoValue /\ s.version < MaxVersion
      /\ turn.id \notin RawTurnIds(s) /\ turn.parent = tip_id(s) /\ turn.call \notin RawCallIds(s)
      /\ conv' = [conv EXCEPT ![c] = r] /\ UNCHANGED <<held, plan>>
  BY DEF commit_pending
<1>3. s.pending \in [id: TurnIds, parent: Anchors] /\ s.version \in Nat
  BY <1>1, <1>2, ConvFields
<1>4. turn \in Turns
  BY <1>3 DEF Turns
<1> HIDE DEF turn, s
<1>5. r \in Conversations /\ Good(r) /\ r.version = s.version + 1
  BY <1>1, <1>2, <1>4, CommitGood
<1> HIDE DEF r
<1>6. Succeeds(s, r)
  BY <1>3, <1>5 DEF Succeeds
<1>7. Storable(c, r)
  BY <1>5, <1>6 DEF Storable, s
<1> QED BY <1>1, <1>2, <1>7, StoreKeeps

LEMMA IssueKeeps ==
    ASSUME IInv, NEW c \in Live, NEW n \in 0..conv[c].ceiling, IssueBoundary(c, n) PROVE IInv'
<1> DEFINE b == issue_boundary_at(c, n)
<1>1. /\ c \in Convs /\ conv[c] # NoValue /\ conv[c] \in Conversations
      /\ conv \in [Convs -> Conversations \cup {NoValue}]
  BY LiveGood DEF IInv
<1>2. b \in BoundaryTokens
  BY IssuedTyped
<1>3. b.conv = c /\ b.version = conv[c].version
  BY DEF issue_boundary_at
<1>4. /\ held' = [token |-> b, structure |-> Structure(conv[c])]
      /\ UNCHANGED <<conv, plan>>
  BY DEF IssueBoundary
<1> HIDE DEF b
<1>5. held'.token = b /\ held'.structure = Structure(conv[c])
  BY <1>4
<1>6. conv[c].version \in Nat
  BY <1>1, ConvFields
<1>7. HeldInv'
  BY <1>1, <1>2, <1>3, <1>4, <1>5, <1>6 DEF HeldInv, StillHeld
<1>8. PlannedInv'
  BY <1>4 DEF IInv, PlannedInv, StillPlanned, PlanTyped
<1> QED BY <1>4, <1>7, <1>8 DEF IInv, Live

LEMMA RevertKeeps ==
    ASSUME IInv, NEW c \in Live, NEW b \in Tokens(c), revert_to(c, b) PROVE IInv'
<1> DEFINE s == conv[c]
           r == move_head(s, b.count)
<1>1. c \in Convs /\ s # NoValue /\ s \in Conversations /\ Good(s)
      /\ conv \in [Convs -> Conversations \cup {NoValue}]
  BY LiveGood DEF IInv
<1>2. /\ s.pending = NoValue /\ s.version < MaxVersion /\ b.count <= s.ceiling
      /\ conv' = [conv EXCEPT ![c] = r] /\ UNCHANGED <<held, plan>>
  BY DEF revert_to, resolve_boundary
<1>3. s.ceiling \in Nat /\ s.version \in Nat /\ b.count \in Nat
  BY <1>1, ConvFields, TokensTyped DEF BoundaryTokens
<1>4. b.count \in 0..s.ceiling
  BY <1>2, <1>3
<1>5. r \in Conversations /\ (r.panicked \/ (Good(r) /\ r.version = s.version + 1))
  BY <1>1, <1>2, <1>4, MoveGood
<1> HIDE DEF r, s
<1>6. Succeeds(s, r)
  BY <1>3, <1>5 DEF Succeeds
<1>7. Storable(c, r)
  BY <1>5, <1>6 DEF Storable, s
<1> QED BY <1>1, <1>2, <1>7, StoreKeeps

LEMMA ForkKeeps ==
    ASSUME IInv, NEW c \in Live, NEW b \in Tokens(c), NEW child \in Convs, fork_at(c, b, child)
    PROVE  IInv'
<1> DEFINE s == conv[c]
<1>1. /\ c \in Convs /\ s # NoValue /\ s \in Conversations /\ Good(s)
      /\ conv \in [Convs -> Conversations \cup {NoValue}]
  BY LiveGood DEF IInv
<1>2. /\ conv[child] = NoValue /\ b.count <= s.ceiling /\ UNCHANGED <<held, plan>>
      /\ conv' = IF entry_count_known(s.index, b.count)
                 THEN [conv EXCEPT ![child] = ForkOf(s, c, b, b.count)]
                 ELSE [conv EXCEPT ![c].panicked = TRUE]
  BY DEF fork_at, resolve_boundary
<1>3. b \in BoundaryTokens /\ s.ceiling \in Nat /\ b.count \in Nat
  BY <1>1, ConvFields, TokensTyped DEF BoundaryTokens
<1>4. CASE entry_count_known(s.index, b.count)
  <2> DEFINE r == ForkOf(s, c, b, b.count)
  <2>1. b.count \in 0..s.ceiling /\ b.count <= Len(s.index.ends)
    BY <1>2, <1>3, <1>4 DEF entry_count_known
  <2>2. r \in Conversations /\ Good(r)
    BY <1>1, <1>3, <2>1, ForkGood
  <2>3. conv' = [conv EXCEPT ![child] = r]
    BY <1>2, <1>4
  <2> HIDE DEF r
  <2>4. Storable(child, r)
    BY <1>2, <2>2 DEF Storable
  <2> QED BY <1>2, <2>3, <2>4, StoreKeeps
<1>5. CASE ~ entry_count_known(s.index, b.count)
  <2> DEFINE r == [s EXCEPT !.panicked = TRUE]
  <2>1. r \in Conversations /\ r.panicked
    BY <1>1 DEF Conversations
  <2>2. conv' = [conv EXCEPT ![c] = r]
    BY <1>2, <1>5
  <2> HIDE DEF r
  <2>3. Storable(c, r)
    BY <2>1 DEF Storable, Succeeds
  <2> QED BY <1>1, <1>2, <2>2, <2>3, StoreKeeps
<1> QED BY <1>4, <1>5

LEMMA PlanKeeps ==
    ASSUME IInv, NEW c \in Live, NEW from \in 0..conv[c].head, NEW to \in 0..conv[c].head,
           NEW target \in {"Raw", "Spans"}, NEW a \in ArtifactIds,
           MakePlan(c, from, to, target, a)
    PROVE  IInv'
<1> DEFINE s == conv[c]
           p == [conv |-> c, version |-> s.version, head |-> s.head, target |-> target,
                 artifact |-> a, start |-> from, end |-> to,
                 startAfter |-> AnchorAt(s.lineage, from), endAfter |-> AnchorAt(s.lineage, to),
                 sources |-> [i \in 1..(to - from) |-> s.lineage[from + i].id]]
<1>1. /\ c \in Convs /\ s # NoValue /\ s \in Conversations /\ Good(s) /\ ~ s.panicked
      /\ conv \in [Convs -> Conversations \cup {NoValue}]
  BY LiveGood DEF IInv
<1>2. plan' = p /\ from < to /\ UNCHANGED <<conv, held>>
  BY DEF MakePlan
<1> HIDE DEF p
<1>3. /\ plan'.conv = c /\ plan'.version = s.version /\ plan'.artifact = a
      /\ plan'.start = from /\ plan'.end = to
      /\ plan'.startAfter = AnchorAt(s.lineage, from) /\ plan'.endAfter = AnchorAt(s.lineage, to)
      /\ plan'.sources = IdsBetween(s.lineage, from, to)
  BY <1>2 DEF p, IdsBetween
<1>4. /\ s.lineage \in Seq(Turns) /\ s.head \in Nat /\ s.ceiling \in Nat /\ s.version \in Nat
      /\ s.head <= s.ceiling /\ s.ceiling <= Len(s.lineage) /\ Len(s.lineage) \in Nat
  BY <1>1, ConvFields DEF Good, Chained
<1>5. /\ from \in Nat /\ to \in Nat /\ from <= to /\ to <= s.ceiling
      /\ from \in 0..Len(s.lineage) /\ to \in 0..Len(s.lineage) /\ to <= Len(s.lineage)
  BY <1>2, <1>4
<1> HIDE DEF s
<1>6. AnchorAt(s.lineage, from) \in Anchors /\ AnchorAt(s.lineage, to) \in Anchors
  BY <1>4, <1>5, AnchorType
<1>7. IdsBetween(s.lineage, from, to) \in Seq(TurnIds)
  BY <1>4, <1>5, IdsBetweenJoin
<1>8. PlanTyped'
  BY <1>1, <1>3, <1>4, <1>5, <1>6, <1>7 DEF PlanTyped
<1>9. conv'[plan'.conv] = s
  BY <1>2, <1>3 DEF s
<1>10. /\ plan'.version <= s.version
       /\ plan'.start < plan'.end /\ plan'.end <= s.ceiling
       /\ plan'.sources = IdsBetween(s.lineage, plan'.start, plan'.end)
  BY <1>2, <1>3, <1>4, <1>5
<1>11. PlannedInv'
  BY <1>1, <1>8, <1>9, <1>10 DEF PlannedInv, StillPlanned
<1>12. HeldInv'
  BY <1>2 DEF IInv, HeldInv, StillHeld
<1> QED BY <1>2, <1>11, <1>12 DEF IInv, Live

LEMMA ApplyKeeps ==
    ASSUME IInv, NEW c \in Live, apply_compaction(c) PROVE IInv'
<1> DEFINE s == conv[c]
           artifacts == Append(KeptArtifacts(s), PlannedArtifact)
           r == [s EXCEPT !.spans = Replaced(s), !.artifacts = artifacts, !.version = @ + 1]
<1>1. /\ c \in Convs /\ s # NoValue /\ s \in Conversations /\ Good(s) /\ ~ s.panicked
      /\ conv \in [Convs -> Conversations \cup {NoValue}]
  BY LiveGood DEF IInv
<1>2. /\ plan # NoValue /\ plan.conv = c /\ plan.version = s.version /\ s.pending = NoValue
      /\ s.head = s.ceiling /\ s.version < MaxVersion
      /\ range_matches_turns(plan, s.lineage, s.head)
      /\ validate_target(active_projection_spans(s.spans, lineage_turns(s), s.head))
      /\ plan.artifact \notin {KeptArtifacts(s)[i].id : i \in DOMAIN KeptArtifacts(s)}
      /\ UNCHANGED <<held, plan>>
  BY DEF apply_compaction, validate_compaction_plan_header, KeptArtifacts
<1>3. conv' = [conv EXCEPT ![c].spans = Replaced(s), ![c].artifacts = artifacts,
                           ![c].version = @ + 1]
  BY DEF apply_compaction, KeptArtifacts, Replaced, PlannedArtifact
<1>4. PlanTyped /\ StillPlanned(s)
  BY <1>1, <1>2 DEF IInv, PlannedInv
<1>5. plan.sources = IdsBetween(s.lineage, plan.start, plan.end)
  BY <1>2, <1>4 DEF StillPlanned
<1>6. r \in Conversations /\ Good(r) /\ r.version = s.version + 1
  <2> HIDE DEF s
  <2> QED BY <1>1, <1>2, <1>4, <1>5, ApplyGood
<1>7. conv' = [conv EXCEPT ![c] = r]
  <2> HIDE DEF artifacts
  <2> QED BY <1>1, <1>3
<1>8. s.version \in Nat
  BY <1>1, ConvFields
<1> HIDE DEF r, s
<1>9. Succeeds(s, r)
  BY <1>6, <1>8 DEF Succeeds
<1>10. Storable(c, r)
  BY <1>6, <1>9 DEF Storable, s
<1> QED BY <1>1, <1>2, <1>7, <1>10, StoreKeeps

LEMMA RestoreKeeps ==
    ASSUME IInv, NEW c \in Live, SnapshotAndRestore(c) PROVE IInv'
<1> DEFINE s == conv[c]
           r == restore_v1(s)
<1>1. c \in Convs /\ s # NoValue /\ s \in Conversations /\ Good(s)
      /\ conv \in [Convs -> Conversations \cup {NoValue}]
  BY LiveGood DEF IInv
<1>2. s.pending = NoValue /\ conv' = [conv EXCEPT ![c] = r] /\ UNCHANGED <<held, plan>>
  BY DEF SnapshotAndRestore
<1>3. r \in Conversations /\ Good(r) /\ r.version = s.version /\ Structure(r) = Structure(s)
  BY <1>1, <1>2, RestoreGood
<1> HIDE DEF r
<1>4. Storable(c, r)
  BY <1>3 DEF Storable, Succeeds
<1> QED BY <1>1, <1>2, <1>4, StoreKeeps

LEMMA NextKeeps == IInv /\ [Next]_vars => IInv'
<1> SUFFICES ASSUME IInv, [Next]_vars PROVE IInv'
  OBVIOUS
<1>1. CASE UNCHANGED vars
  BY <1>1 DEF vars, IInv, HeldInv, PlannedInv, StillHeld, StillPlanned, PlanTyped, Live
<1>2. ASSUME NEW c \in Live, TurnStep(c) PROVE IInv'
  BY <1>2, BeginKeeps, DiscardKeeps, CommitKeeps DEF TurnStep
<1>3. ASSUME NEW c \in Live, HeadStep(c) PROVE IInv'
  BY <1>3, IssueKeeps, RevertKeeps, ForkKeeps DEF HeadStep
<1>4. ASSUME NEW c \in Live, CompactionStep(c) PROVE IInv'
  BY <1>4, PlanKeeps, ApplyKeeps DEF CompactionStep
<1>5. ASSUME NEW c \in Live, SnapshotAndRestore(c) PROVE IInv'
  BY <1>5, RestoreKeeps
<1> QED BY <1>1, <1>2, <1>3, <1>4, <1>5 DEF Next

LEMMA IInvHolds == Spec => []IInv
<1>1. Init => IInv
  BY InitKeeps
<1>2. IInv /\ [Next]_vars => IInv'
  BY NextKeeps
<1> QED BY <1>1, <1>2, PTL DEF Spec

-----------------------------------------------------------------------------
(***************************************************************************)
(* What follows from IInv.                                                 *)
(***************************************************************************)
LEMMA LineageFollows == IInv => LineageInv
<1> SUFFICES ASSUME IInv PROVE LineageInv
  OBVIOUS
<1>1. TypeOK
  <2>1. ASSUME NEW c \in Live
        PROVE  conv[c].head <= conv[c].ceiling /\ conv[c].ceiling <= Len(conv[c].lineage)
    BY LiveGood DEF Good, Chained
  <2> QED BY <2>1 DEF TypeOK, IInv
<1>2. LineageIsOwnParentChain
  <2>1. ASSUME NEW c \in Live PROVE Chained(conv[c])
    BY LiveGood DEF Good
  <2> QED BY <2>1 DEF LineageIsOwnParentChain, Chained
<1>3. RetainedIdsUnique
  <2>1. ASSUME NEW c \in Live
        PROVE  DOMAIN conv[c].raw = 1..Len(conv[c].raw) /\ Unique(conv[c].raw)
    <3>1. conv[c] \in Conversations /\ Good(conv[c])
      BY LiveGood
    <3>2. conv[c].raw \in Seq(Turns)
      BY <3>1, ConvFields
    <3> QED BY <3>1, <3>2 DEF Good
  <2> QED BY <2>1 DEF RetainedIdsUnique, Unique
<1>4. IndexShowsActiveCalls
  <2>1. ASSUME NEW c \in Live
        PROVE  LET s == conv[c] IN
               /\ SubSeq(s.index.entries, 1, s.visibleEntries) = rebuild(ActiveTurns(s)).entries
               /\ {call \in CallIds : by_call_id(s, call)}
                      = {s.lineage[i].call : i \in 1..s.head} \ {NoCall}
    <3>1. conv[c] \in Conversations /\ Good(conv[c])
      BY LiveGood
    <3> QED BY <3>1, IndexShowsCalls
  <2> QED BY <2>1, Zenon DEF IndexShowsActiveCalls
<1> QED BY <1>1, <1>2, <1>3, <1>4 DEF LineageInv

LEMMA TokenFollows == IInv => TokenResolvesOnlyUnchanged
<1> SUFFICES ASSUME IInv, held # NoValue, NEW c \in Live, resolve_boundary(c, held.token)
             PROVE  held.structure = Structure(conv[c])
  BY DEF TokenResolvesOnlyUnchanged
<1>1. held.token.conv = c /\ held.token.version = conv[c].version
  BY DEF resolve_boundary
<1>2. ~ conv[c].panicked
  BY LiveGood
<1>3. StillHeld(conv[c])
  BY <1>1, <1>2 DEF IInv, HeldInv
<1> QED BY <1>1, <1>3 DEF StillHeld

LEMMA ProjectionFollows == IInv => ProjectionInv
<1> SUFFICES ASSUME IInv, NEW c \in Live
             PROVE  /\ TilesExactly(conv[c].spans, conv[c].ceiling)
                    /\ Expanded(conv[c], effective_view(conv[c]))
                          = [i \in 1..conv[c].head |-> conv[c].lineage[i].id]
  BY Zenon DEF ProjectionInv, ProjectionTilesLineage, ViewStandsForActiveTurns
<1>1. conv[c] \in Conversations /\ Good(conv[c])
  BY LiveGood
<1> QED BY <1>1, ViewShowsTurns DEF Good, Projected

(* Whatever its parent, its siblings and its own reverts, redos, forks and   *)
(* restarts did (append, move_head, fork_at and restore_v1 over a shared     *)
(* backing lineage): a conversation addresses a parent chain of turns it     *)
(* retains itself, with turn and call ids of their own, and its index, kept  *)
(* incrementally or rebuilt, shows exactly the calls of the active turns.    *)
THEOREM LineageCorrect == Spec => []LineageInv
<1>1. IInv => LineageInv
  BY LineageFollows
<1> QED BY <1>1, IInvHolds, PTL

(* A boundary token that resolve_boundary still accepts, however long it was *)
(* kept, finds the lineage, the head and the projection it was issued for:   *)
(* the version is checked and only grows with every structural change.       *)
THEOREM TokenCorrect == Spec => []TokenResolvesOnlyUnchanged
<1>1. IInv => TokenResolvesOnlyUnchanged
  BY TokenFollows
<1> QED BY <1>1, IInvHolds, PTL

(* The spans that extend_after_commit, build_replacement_spans and forks     *)
(* leave tile the addressable lineage, and what effective_view shows of them *)
(* at any head stands for exactly the active turns in order, a summary in    *)
(* place of the turns it was made from: the model misses no turn and sees    *)
(* none twice.                                                               *)
THEOREM ProjectionCorrect == Spec => []ProjectionInv
<1>1. IInv => ProjectionInv
  BY ProjectionFollows
<1> QED BY <1>1, IInvHolds, PTL
=============================================================================
