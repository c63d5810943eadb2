---------------------------- MODULE DriveLoopProofs ---------------------------
(***************************************************************************)
(* Every requirement a drain emits is settled at most once, and all of     *)
(* them are when the drain ends its turn: for every tree of machines,      *)
(* every nesting depth, every scope and every budget.                      *)
(*                                                                         *)
(* SettlementInv is not inductive: it says nothing of what a drain still   *)
(* holds.  IInv says for each layer which requirements it holds and where  *)
(* (Queues), that they are its own and not settled (Held), that nothing it *)
(* emitted is anywhere else (Covered), and that its machines wait for      *)
(* nothing else (Awaits).                                                  *)
(*                                                                         *)
(* The second part is about the budget they share: it is charged for the   *)
(* replies that reach a machine, each once, and for nothing else.          *)
(***************************************************************************)
EXTENDS DriveLoop, FiniteSetTheorems, NaturalsInduction, SequenceTheorems, WellFoundedInduction, TLAPS

Entries == [how: Dispositions, usage: Usages \cup {0}]
Ids == 1 .. MaxReqs

Typed ==
    /\ pc \in [Layers -> {"Off", "Loop", "Batch", "Feed", "Usage", "Return"}]
    /\ result \in [Layers -> {"None", "Ok", "Cancelled", "Err", "Quiesced"}]
    /\ since \in [Layers -> 0 .. MaxReqs]
    /\ chain \in [Layers -> Seq(Layers)]
    /\ pending \in [Layers -> Seq(Ids)]
    /\ running \in [Layers -> SUBSET Ids]
    /\ serial \in [Layers -> Seq(Ids)]
    /\ resolved \in [Layers -> Seq(Resolution)]
    /\ rest \in [Layers -> [Machines -> {"Idle", "Busy", "Done", "Error"}]]
    /\ out \in [Layers -> [Machines -> SUBSET Ids]]
    /\ reqs \in Seq(Requirement) /\ Len(reqs) <= MaxReqs
    /\ trace \in Seq(Seq(Entries)) /\ Len(trace) = Len(reqs)
    /\ used \in [steps: 0 .. MaxSteps, tokens: 0 .. MaxTokens]
    /\ sibling \in 0 .. MaxSibling
    /\ cancelled \in BOOLEAN

Distinct(s) == \A i, j \in DOMAIN s : s[i] = s[j] => i = j

(* The ids a layer has answers for, and all it has to settle. *)
Answered(d) == {resolved[d][i].id : i \in DOMAIN resolved[d]}
Unsettled(d) == Range(pending[d]) \cup Answered(d)

(* Where the requirements of a layer are, at each point of its drain. *)
Queues(d) ==
    /\ pc[d] \in {"Off", "Return"} => pending[d] = <<>>
    /\ pc[d] # "Batch" => running[d] = {} /\ serial[d] = <<>>
    /\ pc[d] \in {"Off", "Return", "Loop"} => resolved[d] = <<>>
    /\ pc[d] = "Usage" => resolved[d] # <<>>
    /\ Distinct(pending[d]) /\ Distinct(serial[d])
    /\ \A i, j \in DOMAIN resolved[d] : resolved[d][i].id = resolved[d][j].id => i = j
    /\ pc[d] = "Batch" =>
          /\ Range(pending[d]) = running[d] \cup Range(serial[d]) \cup Answered(d)
          /\ running[d] \cap Range(serial[d]) = {}
          /\ Answered(d) \cap (running[d] \cup Range(serial[d])) = {}
    /\ pc[d] # "Batch" => Range(pending[d]) \cap Answered(d) = {}

(* They are its own, and nothing has become of them. *)
Held(d) ==
    \A id \in Unsettled(d) :
        id \in 1 .. Len(reqs) /\ reqs[id].layer = d /\ trace[id] = <<>>

(* A drain that has not failed holds what it emitted and has not settled. *)
Covered(d) ==
    pc[d] # "Off" /\ (pc[d] = "Return" => result[d] \in {"Ok", "Cancelled"}) =>
        \A id \in Emitted(d) : trace[id] # <<>> \/ id \in Unsettled(d)

(* The machines of a layer wait for what the drain holds, each for its own. *)
Awaits(d) ==
    /\ pc[d] \notin {"Off", "Return"} =>
          /\ \A m \in Machines : /\ out[d][m] \subseteq Unsettled(d)
                                 /\ rest[d][m] = "Busy" <=> out[d][m] # {}
          /\ \A m, n \in Machines : m # n => out[d][m] \cap out[d][n] = {}
          /\ rest[d][Own] # "Idle"
    /\ pc[d] = "Return" /\ result[d] \in {"Ok", "Cancelled"} =>
          \A m \in Machines : out[d][m] = {}
    /\ \A m \in Machines : out[d][m] \subseteq 1 .. Len(reqs)

(* Below a subagent there is the batch that waits for it. *)
Stacked(d) ==
    d # 0 /\ pc[d] # "Off" =>
        pc[d - 1] = "Batch" /\ running[d - 1] = {} /\ serial[d - 1] # <<>>

Layer(d) == Queues(d) /\ Held(d) /\ Covered(d) /\ Awaits(d) /\ Stacked(d)

IInv ==
    /\ Typed /\ SettledAtMostOnce /\ NeverQuiesces
    /\ \A d \in Layers : Layer(d)

-----------------------------------------------------------------------------
(***************************************************************************)
(* Sequences.                                                              *)
(***************************************************************************)

(* Induction, as a fact about sets. *)
LEMMA Induction ==
    ASSUME NEW T, T \subseteq Nat, 0 \in T, \A n \in T : n + 1 \in T
    PROVE  T = Nat
<1> SUFFICES ASSUME Nat \ T # {} PROVE FALSE
  OBVIOUS
<1>1. IsWellFoundedOn(OpToRel(<, Nat), Nat)
  BY NatLessThanWellFounded, Zenon
<1>2. PICK m \in Nat \ T : \A n \in Nat \ T : ~(<<n, m>> \in OpToRel(<, Nat))
  <2>1. Nat \ T \subseteq Nat
    OBVIOUS
  <2> QED BY <1>1, <2>1, WFMin, Zenon
<1>3. \A n \in Nat \ T : ~(n < m)
  BY <1>2 DEF OpToRel
<1>4. m - 1 \in T
  BY <1>3
<1> QED BY <1>4

(* One step of the filter. *)
KeepStep(g, s, S, i) ==
    IF i = 0 THEN <<>>
    ELSE IF s[i] \in S THEN Append(g[i - 1], s[i]) ELSE g[i - 1]

Kept(s, S, n) == CHOOSE g : g = [i \in 0 .. n |-> KeepStep(g, s, S, i)]

(* The recursive function of Among exists. *)
LEMMA KeptExists ==
    ASSUME NEW s, NEW S, NEW n \in Nat
    PROVE  Kept(s, S, n) = [i \in 0 .. n |-> KeepStep(Kept(s, S, n), s, S, i)]
<1> DEFINE P == {k \in Nat : \E g : g = [i \in 0 .. k |-> KeepStep(g, s, S, i)]}
<1>1. 0 \in P
  <2> DEFINE g == [i \in 0 .. 0 |-> <<>>]
  <2>1. g = [i \in 0 .. 0 |-> KeepStep(g, s, S, i)]
    BY DEF KeepStep
  <2> HIDE DEF g
  <2> QED BY <2>1
<1>2. ASSUME NEW k \in P PROVE k + 1 \in P
  <2>1. k \in Nat /\ k + 1 \in Nat
    OBVIOUS
  <2>2. PICK g : g = [i \in 0 .. k |-> KeepStep(g, s, S, i)]
    OBVIOUS
  <2> DEFINE h == [i \in 0 .. (k + 1) |-> KeepStep(g, s, S, i)]
  <2>3. \A i \in 0 .. k : h[i] = g[i]
    BY <2>1, <2>2
  <2> HIDE DEF P
  <2>4. ASSUME NEW i \in 0 .. (k + 1) PROVE KeepStep(g, s, S, i) = KeepStep(h, s, S, i)
    <3> HIDE DEF h
    <3>1. CASE i = 0
      BY <3>1 DEF KeepStep
    <3>2. CASE i # 0
      <4>1. i - 1 \in 0 .. k
        BY <3>2, <2>1
      <4> QED BY <4>1, <2>3 DEF KeepStep
    <3> QED BY <3>1, <3>2
  <2>5. h = [i \in 0 .. (k + 1) |-> KeepStep(h, s, S, i)]
    BY <2>4
  <2> HIDE DEF h
  <2> QED BY <2>1, <2>5 DEF P
<1>3. P = Nat
  <2>1. P \subseteq Nat
    OBVIOUS
  <2> HIDE DEF P
  <2> QED BY <1>1, <1>2, <2>1, Induction
<1> QED BY <1>3 DEF Kept

(* Among selects: the elements in the set, none of them twice. *)
LEMMA AmongFacts ==
    ASSUME NEW X, NEW s \in Seq(X), NEW S
    PROVE  /\ Among(s, S) \in Seq(X)
           /\ Range(Among(s, S)) = Range(s) \cap S
           /\ Distinct(s) => Distinct(Among(s, S))
<1> DEFINE g == Kept(s, S, Len(s))
           Ok(n) == /\ g[n] \in Seq(X)
                    /\ Range(g[n]) = {s[i] : i \in 1 .. n} \cap S
                    /\ Distinct(s) => Distinct(g[n])
           P == {n \in Nat : n <= Len(s) => Ok(n)}
<1>1. Among(s, S) = g[Len(s)]
  BY DEF Among, Kept, KeepStep
<1>2. Len(s) \in Nat /\ DOMAIN s = 1 .. Len(s) /\ \A i \in DOMAIN s : s[i] \in X
  OBVIOUS
<1>3. g = [i \in 0 .. Len(s) |-> KeepStep(g, s, S, i)]
  BY <1>2, KeptExists
<1> HIDE DEF g
<1>4. \A i \in 0 .. Len(s) : g[i] = KeepStep(g, s, S, i)
  BY <1>3
<1>5. Ok(0)
  <2>1. g[0] = <<>>
    BY <1>2, <1>4 DEF KeepStep
  <2>2. <<>> \in Seq(X) /\ DOMAIN <<>> = {}
    OBVIOUS
  <2> QED BY <2>1, <2>2 DEF Range, Distinct
<1>6. ASSUME NEW n \in Nat, n + 1 <= Len(s), Ok(n) PROVE Ok(n + 1)
  <2>1. n + 1 \in 0 .. Len(s) /\ n + 1 # 0 /\ (n + 1) - 1 = n /\ n + 1 \in DOMAIN s
    BY <1>2, <1>6
  <2>2. g[n + 1] = IF s[n + 1] \in S THEN Append(g[n], s[n + 1]) ELSE g[n]
    BY <1>4, <2>1 DEF KeepStep
  <2>3. {s[i] : i \in 1 .. n + 1} = {s[i] : i \in 1 .. n} \cup {s[n + 1]}
    <3>1. 1 .. n + 1 = (1 .. n) \cup {n + 1}
      OBVIOUS
    <3> QED BY <3>1
  <2>4. CASE s[n + 1] \notin S
    BY <1>6, <2>2, <2>3, <2>4
  <2>5. CASE s[n + 1] \in S
    <3> DEFINE a == g[n]
               b == Append(a, s[n + 1])
    <3>1. a \in Seq(X) /\ s[n + 1] \in X /\ Len(a) \in Nat /\ DOMAIN a = 1 .. Len(a)
      BY <1>2, <1>6, <2>1
    <3>2. g[n + 1] = b
      BY <2>2, <2>5
    <3>3. /\ b \in Seq(X) /\ DOMAIN b = 1 .. (Len(a) + 1) /\ b[Len(a) + 1] = s[n + 1]
          /\ \A i \in 1 .. Len(a) : b[i] = a[i]
      <4> HIDE DEF a
      <4> QED BY <3>1, AppendProperties
    <3>4. Range(a) = {s[i] : i \in 1 .. n} \cap S /\ (Distinct(s) => Distinct(a))
      BY <1>6
    <3> HIDE DEF a, b
    <3>5. DOMAIN b = DOMAIN a \cup {Len(a) + 1}
      BY <3>1, <3>3
    <3>6. Range(b) = Range(a) \cup {s[n + 1]}
      BY <3>1, <3>3, <3>5 DEF Range
    <3>7. ASSUME Distinct(s) PROVE Distinct(b)
      <4>1. \A i \in 1 .. n : s[i] # s[n + 1]
        BY <1>2, <2>1, <3>7 DEF Distinct
      <4>2. \A i \in DOMAIN a : a[i] # s[n + 1]
        BY <3>4, <4>1 DEF Range
      <4> QED BY <3>1, <3>3, <3>4, <3>5, <3>7, <4>2 DEF Distinct
    <3> QED BY <2>3, <2>5, <3>2, <3>3, <3>4, <3>6, <3>7
  <2> QED BY <2>4, <2>5
<1>7. P = Nat
  <2>1. P \subseteq Nat /\ 0 \in P
    BY <1>5
  <2>2. ASSUME NEW n \in P PROVE n + 1 \in P
    <3> HIDE DEF Ok
    <3>1. n \in Nat /\ (n <= Len(s) => Ok(n))
      OBVIOUS
    <3>2. n + 1 <= Len(s) => Ok(n + 1)
      BY <1>2, <1>6, <3>1
    <3> QED BY <3>1, <3>2
  <2> HIDE DEF P
  <2> QED BY <2>1, <2>2, Induction
<1>8. Ok(Len(s))
  <2> HIDE DEF Ok
  <2>1. Len(s) \in P
    BY <1>2, <1>7
  <2> QED BY <1>2, <2>1
<1>9. {s[i] : i \in 1 .. Len(s)} = Range(s)
  BY <1>2 DEF Range
<1> QED BY <1>1, <1>8, <1>9

-----------------------------------------------------------------------------
(* The invariant says what is promised. *)

LEMMA SeqFacts ==
    ASSUME NEW S, NEW s \in Seq(S)
    PROVE  /\ Len(s) \in Nat /\ DOMAIN s = 1 .. Len(s)
           /\ \A i \in DOMAIN s : s[i] \in S
           /\ \A x \in Range(s) : x \in S
           /\ s = <<>> <=> Range(s) = {}
<1>1. Len(s) \in Nat /\ DOMAIN s = 1 .. Len(s) /\ \A i \in DOMAIN s : s[i] \in S
  OBVIOUS
<1>2. s # <<>> => 1 \in DOMAIN s
  BY <1>1, EmptySeq
<1>3. DOMAIN <<>> = {}
  OBVIOUS
<1> QED BY <1>1, <1>2, <1>3 DEF Range

LEMMA IInvImplies == IInv => SettlementInv
<1> SUFFICES ASSUME IInv PROVE SettlementInv
  OBVIOUS
<1>1. TypeOK
  <2>1. ASSUME NEW d \in Layers
        PROVE  /\ \A id \in Range(pending[d]) \cup Range(serial[d]) \cup running[d] :
                      id \in 1 .. Len(reqs)
               /\ \A r \in Range(resolved[d]) : r \in Resolution
               /\ Range(chain[d]) \subseteq Layers
               /\ \A m \in Machines : out[d][m] \subseteq 1 .. Len(reqs)
    <3>1. Range(serial[d]) \cup running[d] \subseteq Range(pending[d])
      BY DEF IInv, Layer, Queues, Range
    <3>2. \A id \in Range(pending[d]) : id \in 1 .. Len(reqs)
      BY DEF IInv, Layer, Held, Unsettled
    <3>3. resolved[d] \in Seq(Resolution) /\ chain[d] \in Seq(Layers)
      BY DEF IInv, Typed
    <3>4. \A m \in Machines : out[d][m] \subseteq 1 .. Len(reqs)
      BY DEF IInv, Layer, Awaits
    <3> QED BY <3>1, <3>2, <3>3, <3>4, SeqFacts
  <2>2. out \in [Layers -> [Machines -> SUBSET (1 .. Len(reqs))]]
    BY <2>1 DEF IInv, Typed
  <2>3. Range(reqs) \subseteq Requirement
    BY SeqFacts DEF IInv, Typed
  <2> QED BY <2>1, <2>2, <2>3 DEF IInv, Typed, TypeOK
<1>2. DriveSettlesAll
  <2> SUFFICES ASSUME NEW d \in Layers, pc[d] = "Return", result[d] \in {"Ok", "Cancelled"}
               PROVE  /\ \A id \in Emitted(d) : trace[id] # <<>>
                      /\ \A m \in Machines : out[d][m] = {}
    BY DEF DriveSettlesAll
  <2>1. Unsettled(d) = {}
    BY DEF IInv, Layer, Queues, Unsettled, Answered, Range
  <2> QED BY <2>1 DEF IInv, Layer, Covered, Awaits
<1> QED BY <1>1, <1>2 DEF IInv, SettlementInv

-----------------------------------------------------------------------------
(***************************************************************************)
(* What records do to the trace, and what a step does to the layers it is  *)
(* not about.                                                              *)
(***************************************************************************)

LEMMA RecordedFacts ==
    ASSUME Typed, NEW ids, NEW how \in Dispositions
    PROVE  LET r == Recorded(ids, how) IN
           /\ r \in Seq(Seq(Entries)) /\ Len(r) = Len(trace)
           /\ \A i \in 1 .. Len(trace) :
                 /\ i \notin ids => r[i] = trace[i]
                 /\ i \in ids => r[i] # <<>> /\ Len(r[i]) = Len(trace[i]) + 1
<1>1. trace \in Seq(Seq(Entries)) /\ Len(trace) \in Nat /\ DOMAIN trace = 1 .. Len(trace)
  BY DEF Typed
<1>2. Record(how, 0) \in Entries
  BY DEF Record, Entries
<1> DEFINE new(i) == IF i \in ids THEN Append(trace[i], Record(how, 0)) ELSE trace[i]
<1>3. ASSUME NEW i \in 1 .. Len(trace)
      PROVE  /\ new(i) \in Seq(Entries)
             /\ i \in ids => new(i) # <<>> /\ Len(new(i)) = Len(trace[i]) + 1
  <2>1. trace[i] \in Seq(Entries) /\ Len(trace[i]) \in Nat
    BY <1>1
  <2> DEFINE s == trace[i]
             x == Record(how, 0)
             a == Append(s, x)
  <2>2. s \in Seq(Entries) /\ x \in Entries /\ Len(s) \in Nat
    BY <1>2, <2>1
  <2>3. a \in Seq(Entries) /\ Len(a) = Len(s) + 1
    <3> HIDE DEF s, x
    <3> QED BY <2>2, AppendProperties
  <2>4. a # <<>>
    <3> HIDE DEF a, s
    <3> QED BY <2>2, <2>3, EmptySeq
  <2> QED BY <2>1, <2>3, <2>4
<1>4. Recorded(ids, how) = [i \in 1 .. Len(trace) |-> new(i)]
  BY <1>1 DEF Recorded
<1> HIDE DEF new
<1>5. Recorded(ids, how) \in Seq(Seq(Entries)) /\ Len(Recorded(ids, how)) = Len(trace)
  BY <1>1, <1>3, <1>4
<1>6. \A i \in 1 .. Len(trace) : i \notin ids => new(i) = trace[i]
  BY DEF new
<1> QED BY <1>3, <1>4, <1>5, <1>6

LEMMA NothingRecorded ==
    ASSUME Typed, NEW how
    PROVE  Recorded({}, how) = trace
<1>1. trace \in Seq(Seq(Entries))
  BY DEF Typed
<1> QED BY <1>1 DEF Recorded

(* A record for what a layer holds is the first one. *)
LEMMA SettledOnce ==
    ASSUME IInv, NEW d \in Layers, NEW ids, ids \subseteq Unsettled(d),
           NEW how \in Dispositions, trace' = Recorded(ids, how)
    PROVE  SettledAtMostOnce'
<1>1. trace \in Seq(Seq(Entries)) /\ Len(trace) \in Nat /\ DOMAIN trace = 1 .. Len(trace)
  BY DEF IInv, Typed
<1>2. /\ trace' \in Seq(Seq(Entries)) /\ Len(trace') = Len(trace)
      /\ \A i \in 1 .. Len(trace) :
            /\ i \notin ids => trace'[i] = trace[i]
            /\ i \in ids => Len(trace'[i]) = Len(trace[i]) + 1
  BY RecordedFacts DEF IInv
<1>3. DOMAIN trace' = 1 .. Len(trace)
  BY <1>2
<1>4. ASSUME NEW i \in 1 .. Len(trace) PROVE Len(trace'[i]) <= 1
  <2>1. CASE i \in ids
    <3>1. trace[i] = <<>>
      BY <2>1 DEF IInv, Layer, Held
    <3>2. Len(<<>>) = 0
      OBVIOUS
    <3> QED BY <1>2, <2>1, <3>1, <3>2
  <2>2. CASE i \notin ids
    BY <1>1, <1>2, <2>2 DEF IInv, SettledAtMostOnce
  <2> QED BY <2>1, <2>2
<1> QED BY <1>3, <1>4 DEF SettledAtMostOnce

(* No requirement changes; the new ones are not those of layer e. *)
Grows(e) ==
    /\ Len(reqs) <= Len(reqs')
    /\ \A id \in 1 .. Len(reqs) : reqs'[id] = reqs[id]
    /\ \A id \in 1 .. Len(reqs') : id \notin 1 .. Len(reqs) => reqs'[id].layer # e

(* A step that leaves the drain of layer e as it is. *)
Same(e) ==
    /\ pc'[e] = pc[e] /\ result'[e] = result[e] /\ since'[e] = since[e]
    /\ pending'[e] = pending[e] /\ running'[e] = running[e]
    /\ serial'[e] = serial[e] /\ resolved'[e] = resolved[e]
    /\ rest'[e] = rest[e] /\ out'[e] = out[e]
    /\ Grows(e)
    /\ \A id \in 1 .. Len(reqs) : reqs[id].layer = e => trace'[id] = trace[id]

LEMMA SameKeeps ==
    ASSUME IInv, Typed', NEW e \in Layers, Same(e), Stacked(e)'
    PROVE  Layer(e)'
<1>1. Layer(e)
  BY DEF IInv
<1>2. /\ Len(reqs) \in Nat /\ Len(reqs') \in Nat /\ Len(reqs) <= Len(reqs')
      /\ DOMAIN reqs = 1 .. Len(reqs) /\ DOMAIN reqs' = 1 .. Len(reqs')
  BY DEF IInv, Typed, Same, Grows
<1>3. Unsettled(e)' = Unsettled(e) /\ Answered(e)' = Answered(e)
  BY DEF Unsettled, Answered, Same
<1>4. Queues(e)'
  BY <1>1, <1>3 DEF Layer, Queues, Same
<1>5. Held(e)'
  BY <1>1, <1>2, <1>3 DEF Layer, Held, Same, Grows
<1>6. Emitted(e)' = Emitted(e)
  BY <1>2 DEF Emitted, Same, Grows
<1>7. Covered(e)'
  <2>1. \A id \in Emitted(e) : trace'[id] = trace[id]
    BY <1>2 DEF Emitted, Same
  <2> QED BY <1>1, <1>3, <1>6, <2>1 DEF Layer, Covered, Same
<1>8. Awaits(e)'
  BY <1>1, <1>2, <1>3 DEF Layer, Awaits, Same
<1> QED BY <1>4, <1>5, <1>7, <1>8 DEF Layer

(* What a drain holds is dropped with it. *)
LEMMA DroppedKeeps ==
    ASSUME IInv, Typed', NEW e \in Layers,
           pc'[e] = "Off", pending'[e] = <<>>, running'[e] = {}, serial'[e] = <<>>,
           resolved'[e] = <<>>, out'[e] = out[e], Len(reqs) <= Len(reqs')
    PROVE  Layer(e)'
<1>1. Awaits(e)
  BY DEF IInv, Layer
<1>2. Unsettled(e)' = {} /\ Answered(e)' = {}
  BY DEF Unsettled, Answered, Range
<1>3. Len(reqs) \in Nat /\ Len(reqs') \in Nat /\ DOMAIN reqs' = 1 .. Len(reqs')
  BY DEF IInv, Typed
<1>4. Queues(e)'
  BY <1>2 DEF Queues, Distinct, Range
<1>5. Held(e)' /\ Covered(e)' /\ Stacked(e)'
  BY <1>2 DEF Held, Covered, Stacked
<1>6. Awaits(e)'
  BY <1>1, <1>3 DEF Awaits
<1> QED BY <1>4, <1>5, <1>6 DEF Layer

-----------------------------------------------------------------------------
(***************************************************************************)
(* A drain that returns: it has recorded all it held, or it has failed.    *)
(***************************************************************************)

Returns(d, how, ids) ==
    /\ pc[d] \in {"Loop", "Batch"} /\ how \in {"Ok", "Cancelled", "Err"} /\ Return(d, how)
    /\ ids \subseteq Unsettled(d) /\ trace' = Recorded(ids, "NeverResumed")
    /\ UNCHANGED <<reqs, used, sibling, cancelled>>
    /\ rest' \in [Layers -> [Machines -> {"Idle", "Busy", "Done", "Error"}]]
    /\ out' \in [Layers -> [Machines -> SUBSET Ids]]
    /\ \A e \in Layers \ {d} : rest'[e] = rest[e] /\ out'[e] = out[e]
    /\ \A m \in Machines : out'[d][m] \subseteq out[d][m]
    /\ how # "Err" => /\ Unsettled(d) \subseteq ids
                      /\ \A m \in Machines : out'[d][m] = {}

LEMMA ReturnKeeps ==
    ASSUME IInv, NEW d \in Layers, NEW how, NEW ids, Returns(d, how, ids)
    PROVE  IInv'
<1> USE DEF Returns
<1>1. Typed /\ Layer(d) /\ d \in 0 .. MaxDepth /\ MaxDepth \in Nat
  BY DepthAssumption DEF IInv, Layers
<1>2. "NeverResumed" \in Dispositions
  BY DEF Dispositions
<1>3. /\ trace' \in Seq(Seq(Entries)) /\ Len(trace') = Len(trace)
      /\ \A i \in 1 .. Len(trace) :
            /\ i \notin ids => trace'[i] = trace[i]
            /\ i \in ids => trace'[i] # <<>>
  BY <1>1, <1>2, RecordedFacts
<1>4. SettledAtMostOnce'
  BY <1>2, SettledOnce
<1>5. Typed'
  <2>1. /\ pc' \in [Layers -> {"Off", "Loop", "Batch", "Feed", "Usage", "Return"}]
        /\ result' \in [Layers -> {"None", "Ok", "Cancelled", "Err", "Quiesced"}]
    BY <1>1 DEF Typed, Return
  <2>2. since' \in [Layers -> 0 .. MaxReqs] /\ chain' \in [Layers -> Seq(Layers)]
    BY <1>1 DEF Typed, Return
  <2>3. <<>> \in Seq(Ids) /\ <<>> \in Seq(Resolution)
    OBVIOUS
  <2>4. pending' \in [Layers -> Seq(Ids)] /\ serial' \in [Layers -> Seq(Ids)]
    BY <1>1, <2>3 DEF Typed, Return
  <2>5. running' \in [Layers -> SUBSET Ids] /\ resolved' \in [Layers -> Seq(Resolution)]
    BY <1>1, <2>3 DEF Typed, Return
  <2>6. reqs' \in Seq(Requirement) /\ Len(reqs') <= MaxReqs /\ Len(trace') = Len(reqs')
    BY <1>1, <1>3 DEF Typed
  <2>7. /\ used' \in [steps: 0 .. MaxSteps, tokens: 0 .. MaxTokens]
        /\ sibling' \in 0 .. MaxSibling /\ cancelled' \in BOOLEAN
    BY <1>1 DEF Typed
  <2> QED BY <1>3, <2>1, <2>2, <2>4, <2>5, <2>6, <2>7 DEF Typed
<1>6. NeverQuiesces'
  BY <1>1 DEF IInv, NeverQuiesces, Typed, Return
<1>7. Len(reqs) \in Nat /\ Len(trace) = Len(reqs) /\ DOMAIN reqs = 1 .. Len(reqs)
  BY <1>1 DEF Typed
<1>8. \A e \in Layers : Grows(e)
  BY <1>7 DEF Grows
<1>9. ASSUME NEW e \in Layers, e < d PROVE Layer(e)'
  <2>1. \A id \in ids : id \in 1 .. Len(reqs) /\ reqs[id].layer = d
    BY <1>1 DEF Layer, Held
  <2>2. e # d /\ ~(e >= d) /\ ~(e > d)
    BY <1>1, <1>9 DEF Layers
  <2>3. Same(e)
    BY <1>1, <1>3, <1>7, <1>8, <2>1, <2>2 DEF Typed, Return, Same
  <2>4. Stacked(e)'
    <3> SUFFICES ASSUME e # 0, pc'[e] # "Off"
                 PROVE  pc'[e - 1] = "Batch" /\ running'[e - 1] = {} /\ serial'[e - 1] # <<>>
      BY DEF Stacked
    <3>1. e - 1 \in Layers /\ ~(e - 1 >= d) /\ ~(e - 1 > d) /\ e - 1 # d
      BY <1>1, <1>9 DEF Layers
    <3>2. Stacked(e)
      BY DEF IInv, Layer
    <3>3. pc[e] # "Off"
      BY <2>3 DEF Same
    <3> QED BY <3>1, <3>2, <3>3 DEF Stacked, Return
  <2> QED BY <1>5, <2>3, <2>4, SameKeeps
<1>10. ASSUME NEW e \in Layers, e > d PROVE Layer(e)'
  <2>1. e # d /\ e >= d
    BY <1>1, <1>10 DEF Layers
  <2>2. /\ pc'[e] = "Off" /\ pending'[e] = <<>> /\ running'[e] = {} /\ serial'[e] = <<>>
        /\ resolved'[e] = <<>> /\ out'[e] = out[e]
    BY <1>10, <2>1 DEF Return
  <2>3. Len(reqs) <= Len(reqs')
    BY <1>7
  <2> QED BY <1>5, <2>2, <2>3, DroppedKeeps
<1>11. Layer(d)'
  <2>1. d >= d /\ ~(d > d)
    BY <1>1
  <2>2. /\ pc'[d] = "Return" /\ result'[d] = how /\ since'[d] = since[d]
        /\ pending'[d] = <<>> /\ running'[d] = {}
        /\ serial'[d] = <<>> /\ resolved'[d] = <<>>
    BY <1>1, <2>1 DEF Return, Typed
  <2>3. Unsettled(d)' = {} /\ Answered(d)' = {}
    BY <2>2 DEF Unsettled, Answered, Range
  <2>4. Queues(d)'
    BY <2>2, <2>3 DEF Queues, Distinct, Range
  <2>5. Held(d)'
    BY <2>3 DEF Held
  <2>6. Emitted(d)' = Emitted(d)
    BY <2>2 DEF Emitted
  <2>7. Covered(d)'
    <3> SUFFICES ASSUME how # "Err", NEW id \in Emitted(d) PROVE trace'[id] # <<>>
      BY <2>2, <2>6 DEF Covered
    <3>1. id \in 1 .. Len(trace)
      BY <1>7 DEF Emitted
    <3>2. trace[id] # <<>> \/ id \in Unsettled(d)
      BY <1>1 DEF Layer, Covered
    <3> QED BY <1>3, <3>1, <3>2
  <2>8. Awaits(d)'
    <3>1. \A m \in Machines : out[d][m] \subseteq 1 .. Len(reqs)
      BY <1>1 DEF Layer, Awaits
    <3> QED BY <2>2, <3>1 DEF Awaits
  <2>9. Stacked(d)'
    <3> SUFFICES ASSUME d # 0
                 PROVE  pc'[d - 1] = "Batch" /\ running'[d - 1] = {} /\ serial'[d - 1] # <<>>
      BY DEF Stacked
    <3>1. d - 1 \in Layers /\ ~(d - 1 >= d) /\ ~(d - 1 > d) /\ d - 1 # d
      BY <1>1 DEF Layers
    <3> QED BY <1>1, <3>1 DEF Layer, Stacked, Return
  <2> QED BY <2>4, <2>5, <2>7, <2>8, <2>9 DEF Layer
<1>12. ASSUME NEW e \in Layers PROVE Layer(e)'
  <2>1. e < d \/ e = d \/ e > d
    BY <1>1 DEF Layers
  <2> QED BY <1>9, <1>10, <1>11, <2>1
<1> QED BY <1>4, <1>5, <1>6, <1>12 DEF IInv

(* Nothing unsettled: the machines of the layer wait for nothing. *)
LEMMA ReturnsUnchanged ==
    ASSUME IInv, NEW d \in Layers, pc[d] \in {"Loop", "Batch"},
           NEW how \in {"Ok", "Cancelled", "Err"}, Return(d, how),
           UNCHANGED <<treeVars, trace, used, sibling, cancelled>>,
           how # "Err" => Unsettled(d) = {}
    PROVE  IInv'
<1>1. Typed /\ Layer(d)
  BY DEF IInv
<1>2. trace' = Recorded({}, "NeverResumed")
  BY <1>1, NothingRecorded
<1>3. how # "Err" => \A m \in Machines : out'[d][m] = {}
  BY <1>1 DEF Layer, Awaits, treeVars
<1>4. /\ rest' \in [Layers -> [Machines -> {"Idle", "Busy", "Done", "Error"}]]
      /\ out' \in [Layers -> [Machines -> SUBSET Ids]]
  BY <1>1 DEF Typed, treeVars
<1>5. UNCHANGED <<reqs, used, sibling, cancelled, rest, out>>
  BY DEF treeVars
<1>6. {} \subseteq Unsettled(d) /\ (how # "Err" => Unsettled(d) \subseteq {})
  OBVIOUS
<1>7. \A m \in Machines : out'[d][m] \subseteq out[d][m]
  BY <1>5
<1>8. \A e \in Layers \ {d} : rest'[e] = rest[e] /\ out'[e] = out[e]
  BY <1>5
<1>9. UNCHANGED <<reqs, used, sibling, cancelled>>
  BY <1>5
<1> QED BY <1>2, <1>3, <1>4, <1>6, <1>7, <1>8, <1>9, ReturnKeeps DEF Returns

LEMMA LoopEndsKeeps ==
    ASSUME IInv, NEW d \in Layers, LoopEnds(d)
    PROVE  IInv'
<1>1. Layer(d) /\ Typed
  BY DEF IInv
<1>2. Unsettled(d) = {}
  BY <1>1 DEF LoopEnds, Layer, Queues, Unsettled, Answered, Range
<1>3. is_terminal(d)
  <2>1. Own \in Machines
    BY TreeAssumption, EmptySeq DEF Own, Machines, Range
  <2>2. out[d][Own] = {} /\ rest[d][Own] # "Idle" /\ rest[d][Own] # "Busy"
    BY <1>1, <1>2, <2>1 DEF Layer, Awaits, LoopEnds
  <2>3. rest[d][Own] \in {"Idle", "Busy", "Done", "Error"}
    BY <1>1, <2>1 DEF Typed
  <2> QED BY <2>2, <2>3 DEF is_terminal
<1>4. Return(d, "Ok")
  BY <1>3 DEF LoopEnds
<1> QED BY <1>2, <1>4, ReturnsUnchanged DEF LoopEnds

(* Abandoning all that a layer holds leaves none of its machines waiting. *)
LEMMA SettleKeeps ==
    ASSUME IInv, NEW d \in Layers, pc[d] \in {"Loop", "Batch"},
           NEW ids, ids = Unsettled(d), settle_cancelled(d, ids)
    PROVE  IInv'
<1>1. Layer(d) /\ Typed
  BY DEF IInv
<1> DEFINE hit == {m \in Machines : out[d][m] \cap ids # {}}
           gone == [m \in Machines |-> IF m \in hit THEN {} ELSE out[d][m]]
           still == [m \in Machines |-> IF m \in hit THEN "Idle" ELSE rest[d][m]]
<1>2. /\ rest' = [rest EXCEPT ![d] = still] /\ out' = [out EXCEPT ![d] = gone]
      /\ UNCHANGED reqs
  BY DEF settle_cancelled, AbandonAll
<1>3. still \in [Machines -> {"Idle", "Busy", "Done", "Error"}]
  BY <1>1 DEF Typed
<1>4. \A m \in Machines : gone[m] = {}
  BY <1>1 DEF Layer, Awaits
<1>5. gone \in [Machines -> SUBSET Ids]
  BY <1>4
<1> HIDE DEF gone, still
<1>6. /\ rest' \in [Layers -> [Machines -> {"Idle", "Busy", "Done", "Error"}]]
      /\ out' \in [Layers -> [Machines -> SUBSET Ids]]
      /\ \A e \in Layers \ {d} : rest'[e] = rest[e] /\ out'[e] = out[e]
      /\ out'[d] = gone
  BY <1>1, <1>2, <1>3, <1>5 DEF Typed
<1>7. /\ trace' = Recorded(ids, "NeverResumed") /\ Return(d, "Cancelled")
      /\ UNCHANGED <<reqs, used, sibling, cancelled>>
  BY <1>2 DEF settle_cancelled
<1>8. ids \subseteq Unsettled(d) /\ Unsettled(d) \subseteq ids
  OBVIOUS
<1>9. \A m \in Machines : out'[d][m] \subseteq out[d][m] /\ out'[d][m] = {}
  BY <1>4, <1>6
<1> QED BY <1>6, <1>7, <1>8, <1>9, ReturnKeeps DEF Returns

LEMMA CancelledKeeps ==
    ASSUME IInv, NEW d \in Layers,
           LoopCancelled(d) \/ GraceExpires(d) \/ BatchCancelled(d)
    PROVE  IInv'
<1>1. Layer(d) /\ Typed
  BY DEF IInv
<1>2. CASE LoopCancelled(d)
  <2>1. Unsettled(d) = Range(pending[d])
    BY <1>1, <1>2 DEF LoopCancelled, Layer, Queues, Unsettled, Answered
  <2> QED BY <1>2, <2>1, SettleKeeps DEF LoopCancelled
<1>3. CASE GraceExpires(d)
  <2>1. Unsettled(d) = Range(pending[d])
    BY <1>1, <1>3 DEF GraceExpires, Layer, Queues, Unsettled
  <2> QED BY <1>3, <2>1, SettleKeeps DEF GraceExpires
<1>4. CASE BatchCancelled(d)
  <2>1. pc[d] = "Batch" /\ running[d] = {} /\ Range(serial[d]) = {}
    BY <1>4 DEF BatchCancelled, BatchDone, Range
  <2>2. Unsettled(d) = Answered(d)
    BY <1>1, <2>1 DEF Layer, Queues, Unsettled
  <2>3. {r.id : r \in Range(resolved[d])} = Answered(d)
    BY DEF Answered, Range
  <2> QED BY <1>4, <2>1, <2>2, <2>3, SettleKeeps DEF BatchCancelled
<1> QED BY <1>2, <1>3, <1>4

LEMMA LoopExhaustedKeeps ==
    ASSUME IInv, NEW d \in Layers, LoopExhausted(d)
    PROVE  IInv'
<1>1. Layer(d) /\ Typed
  BY DEF IInv
<1> DEFINE hit == Interrupted(d)
           gone == [m \in Machines |-> IF m \in hit THEN {} ELSE out[d][m]]
           still == [m \in Machines |-> IF m \in hit THEN "Done" ELSE rest[d][m]]
<1>2. /\ rest' = [rest EXCEPT ![d] = still] /\ out' = [out EXCEPT ![d] = gone]
      /\ UNCHANGED reqs
  BY DEF LoopExhausted, interrupt_budget_exhausted
<1>3. still \in [Machines -> {"Idle", "Busy", "Done", "Error"}]
  BY <1>1 DEF Typed
<1>4. \A m \in Machines : gone[m] = {}
  BY <1>1 DEF Layer, Awaits, Interrupted, LoopExhausted
<1>5. gone \in [Machines -> SUBSET Ids]
  BY <1>4
<1> HIDE DEF gone, still
<1>6. /\ rest' \in [Layers -> [Machines -> {"Idle", "Busy", "Done", "Error"}]]
      /\ out' \in [Layers -> [Machines -> SUBSET Ids]]
      /\ \A e \in Layers \ {d} : rest'[e] = rest[e] /\ out'[e] = out[e]
      /\ out'[d] = gone
  BY <1>1, <1>2, <1>3, <1>5 DEF Typed
<1>7. Unsettled(d) = Range(pending[d])
  BY <1>1 DEF LoopExhausted, Layer, Queues, Unsettled, Answered
<1>8. \A m \in Machines : out'[d][m] \subseteq out[d][m] /\ out'[d][m] = {}
  BY <1>4, <1>6
<1>9. /\ pc[d] \in {"Loop", "Batch"} /\ Return(d, "Ok")
      /\ trace' = Recorded(Unsettled(d), "NeverResumed")
      /\ UNCHANGED <<reqs, used, sibling, cancelled>>
  BY <1>2, <1>7 DEF LoopExhausted
<1> QED BY <1>6, <1>8, <1>9, ReturnKeeps DEF Returns

-----------------------------------------------------------------------------
(***************************************************************************)
(* Steps that only move what a layer holds between its queues.             *)
(***************************************************************************)

IdsOf(s) == {s[i].id : i \in DOMAIN s}
DistinctIds(s) == \A i, j \in DOMAIN s : s[i].id = s[j].id => i = j

LEMMA HeadOff ==
    ASSUME NEW S, NEW s \in Seq(S), s # <<>>
    PROVE  /\ Head(s) \in S /\ Tail(s) \in Seq(S)
           /\ Range(s) = Range(Tail(s)) \cup {Head(s)}
           /\ Distinct(s) => Distinct(Tail(s)) /\ Head(s) \notin Range(Tail(s))
<1> DEFINE t == Tail(s)
<1>1. /\ Len(s) \in Nat \ {0} /\ DOMAIN s = 1 .. Len(s)
      /\ Head(s) = s[1] /\ \A i \in DOMAIN s : s[i] \in S
  BY EmptySeq
<1>2. /\ t \in Seq(S) /\ DOMAIN t = 1 .. (Len(s) - 1)
      /\ \A i \in 1 .. (Len(s) - 1) : t[i] = s[i + 1]
  <2>1. /\ t \in Seq(S) /\ Len(t) = Len(s) - 1
        /\ \A i \in 1 .. Len(t) : t[i] = s[i + 1]
    BY HeadTailProperties
  <2> HIDE DEF t
  <2> QED BY <2>1
<1> HIDE DEF t
<1>3. Range(s) = Range(t) \cup {s[1]}
  <2>1. \A i \in 1 .. Len(s) : i = 1 \/ (i - 1 \in 1 .. (Len(s) - 1) /\ t[i - 1] = s[i])
    BY <1>1, <1>2
  <2>2. \A i \in 1 .. (Len(s) - 1) : i + 1 \in 1 .. Len(s)
    BY <1>1
  <2>3. ASSUME NEW x \in Range(s) PROVE x \in Range(t) \cup {s[1]}
    <3>1. PICK i \in 1 .. Len(s) : x = s[i]
      BY <1>1 DEF Range
    <3> QED BY <1>2, <2>1, <3>1 DEF Range
  <2>4. ASSUME NEW x \in Range(t) PROVE x \in Range(s)
    <3>1. PICK i \in 1 .. (Len(s) - 1) : x = t[i]
      BY <1>2 DEF Range
    <3> QED BY <1>1, <1>2, <2>2, <3>1 DEF Range
  <2>5. s[1] \in Range(s)
    BY <1>1 DEF Range
  <2> QED BY <2>3, <2>4, <2>5
<1>4. ASSUME Distinct(s) PROVE Distinct(t) /\ s[1] \notin Range(t)
  <2>1. \A i \in 1 .. (Len(s) - 1) : i + 1 \in 1 .. Len(s) /\ i + 1 # 1
    BY <1>1
  <2>2. ASSUME NEW i \in DOMAIN t, NEW j \in DOMAIN t, t[i] = t[j] PROVE i = j
    <3>1. i + 1 = j + 1
      BY <1>1, <1>2, <1>4, <2>1, <2>2 DEF Distinct
    <3> QED BY <1>2, <3>1
  <2>3. ASSUME NEW i \in DOMAIN t PROVE t[i] # s[1]
    BY <1>1, <1>2, <1>4, <2>1 DEF Distinct
  <2> QED BY <2>2, <2>3 DEF Distinct, Range
<1> QED BY <1>1, <1>2, <1>3, <1>4 DEF t

LEMMA AnswerOff ==
    ASSUME NEW s \in Seq(Resolution), s # <<>>, DistinctIds(s)
    PROVE  /\ Head(s) \in Resolution /\ Tail(s) \in Seq(Resolution)
           /\ IdsOf(s) = IdsOf(Tail(s)) \cup {Head(s).id}
           /\ DistinctIds(Tail(s)) /\ Head(s).id \notin IdsOf(Tail(s))
<1> DEFINE t == Tail(s)
<1>1. /\ Len(s) \in Nat \ {0} /\ DOMAIN s = 1 .. Len(s)
      /\ Head(s) = s[1] /\ \A i \in DOMAIN s : s[i] \in Resolution
  BY EmptySeq
<1>2. /\ t \in Seq(Resolution) /\ DOMAIN t = 1 .. (Len(s) - 1)
      /\ \A i \in 1 .. (Len(s) - 1) : t[i] = s[i + 1]
  <2>1. /\ t \in Seq(Resolution) /\ Len(t) = Len(s) - 1
        /\ \A i \in 1 .. Len(t) : t[i] = s[i + 1]
    BY HeadTailProperties
  <2> HIDE DEF t
  <2> QED BY <2>1
<1> HIDE DEF t
<1>3. IdsOf(s) = IdsOf(t) \cup {s[1].id}
  <2>1. \A i \in 1 .. Len(s) : i = 1 \/ (i - 1 \in 1 .. (Len(s) - 1) /\ t[i - 1] = s[i])
    BY <1>1, <1>2
  <2>2. \A i \in 1 .. (Len(s) - 1) : i + 1 \in 1 .. Len(s)
    BY <1>1
  <2>3. ASSUME NEW x \in IdsOf(s) PROVE x \in IdsOf(t) \cup {s[1].id}
    <3>1. PICK i \in 1 .. Len(s) : x = s[i].id
      BY <1>1 DEF IdsOf
    <3> QED BY <1>2, <2>1, <3>1 DEF IdsOf
  <2>4. ASSUME NEW x \in IdsOf(t) PROVE x \in IdsOf(s)
    <3>1. PICK i \in 1 .. (Len(s) - 1) : x = t[i].id
      BY <1>2 DEF IdsOf
    <3> QED BY <1>1, <1>2, <2>2, <3>1 DEF IdsOf
  <2>5. s[1].id \in IdsOf(s)
    BY <1>1 DEF IdsOf
  <2> QED BY <2>3, <2>4, <2>5
<1>4. DistinctIds(t) /\ s[1].id \notin IdsOf(t)
  <2>1. \A i \in 1 .. (Len(s) - 1) : i + 1 \in 1 .. Len(s) /\ i + 1 # 1
    BY <1>1
  <2>2. ASSUME NEW i \in DOMAIN t, NEW j \in DOMAIN t, t[i].id = t[j].id PROVE i = j
    <3>1. i + 1 = j + 1
      BY <1>1, <1>2, <2>1, <2>2 DEF DistinctIds
    <3> QED BY <1>2, <3>1
  <2>3. ASSUME NEW i \in DOMAIN t PROVE t[i].id # s[1].id
    BY <1>1, <1>2, <2>1 DEF DistinctIds
  <2> QED BY <2>2, <2>3 DEF DistinctIds, IdsOf
<1> QED BY <1>1, <1>2, <1>3, <1>4 DEF t

LEMMA AnswerOn ==
    ASSUME NEW s \in Seq(Resolution), NEW r \in Resolution
    PROVE  /\ Append(s, r) \in Seq(Resolution)
           /\ IdsOf(Append(s, r)) = IdsOf(s) \cup {r.id}
           /\ DistinctIds(s) /\ r.id \notin IdsOf(s) => DistinctIds(Append(s, r))
<1> DEFINE t == Append(s, r)
<1>1. Len(s) \in Nat /\ DOMAIN s = 1 .. Len(s)
  OBVIOUS
<1>2. /\ t \in Seq(Resolution) /\ DOMAIN t = 1 .. (Len(s) + 1) /\ t[Len(s) + 1] = r
      /\ \A i \in 1 .. Len(s) : t[i] = s[i]
  BY AppendProperties
<1> HIDE DEF t
<1>3. DOMAIN t = DOMAIN s \cup {Len(s) + 1} /\ Len(s) + 1 \notin DOMAIN s
  BY <1>1, <1>2
<1>4. IdsOf(t) = IdsOf(s) \cup {r.id}
  BY <1>1, <1>2, <1>3 DEF IdsOf
<1>5. DistinctIds(s) /\ r.id \notin IdsOf(s) => DistinctIds(t)
  BY <1>1, <1>2, <1>3 DEF DistinctIds, IdsOf
<1> QED BY <1>2, <1>4, <1>5 DEF t

(* What changes only in layer d, and there only in where things are. *)
Moves(d) ==
    /\ UNCHANGED <<result, since, chain, treeVars, trace, sibling, cancelled>>
    /\ pc' \in [Layers -> {"Off", "Loop", "Batch", "Feed", "Usage", "Return"}]
    /\ pending' \in [Layers -> Seq(Ids)] /\ running' \in [Layers -> SUBSET Ids]
    /\ serial' \in [Layers -> Seq(Ids)] /\ resolved' \in [Layers -> Seq(Resolution)]
    /\ used' \in [steps: 0 .. MaxSteps, tokens: 0 .. MaxTokens]
    /\ \A e \in Layers \ {d} :
          /\ pending'[e] = pending[e] /\ running'[e] = running[e]
          /\ serial'[e] = serial[e] /\ resolved'[e] = resolved[e]
          /\ e # d + 1 => pc'[e] = pc[e]
    /\ d + 1 \in Layers => pc'[d + 1] = "Off" /\ pc[d + 1] \in {"Off", "Return"}

LEMMA MovesKeeps ==
    ASSUME IInv, NEW d \in Layers, Moves(d),
           pc[d] \notin {"Off", "Return"}, pc'[d] \notin {"Off", "Return"},
           Unsettled(d)' = Unsettled(d), Queues(d)'
    PROVE  IInv'
<1>1. Typed /\ d \in 0 .. MaxDepth /\ MaxDepth \in Nat
  BY DepthAssumption DEF IInv, Layers
<1>2. Typed' /\ SettledAtMostOnce' /\ NeverQuiesces'
  <2>1. UNCHANGED <<result, since, chain, rest, out, reqs, trace, sibling, cancelled>>
    BY DEF Moves, treeVars
  <2>2. Typed'
    BY <1>1, <2>1 DEF Typed, Moves
  <2> QED BY <2>1, <2>2 DEF IInv, SettledAtMostOnce, NeverQuiesces
<1>3. UNCHANGED <<result, since, rest, out, reqs, trace>>
  BY DEF Moves, treeVars
<1>4. Len(reqs) \in Nat
  BY <1>1 DEF Typed
<1>5. \A e \in Layers : Layer(e)
  BY DEF IInv
<1>6. ASSUME NEW e \in Layers, e # d, e # d + 1 PROVE Layer(e)'
  <2>1. Same(e)
    BY <1>3, <1>4, <1>6 DEF Same, Grows, Moves
  <2>2. Stacked(e)'
    <3> SUFFICES ASSUME e # 0, pc'[e] # "Off"
                 PROVE  pc'[e - 1] = "Batch" /\ running'[e - 1] = {} /\ serial'[e - 1] # <<>>
      BY DEF Stacked
    <3>1. e - 1 \in Layers /\ e - 1 # d
      BY <1>1, <1>6 DEF Layers
    <3>2. pc[e - 1] = "Batch" /\ running[e - 1] = {} /\ serial[e - 1] # <<>>
      BY <1>5, <2>1 DEF Layer, Stacked, Same
    <3>3. e - 1 # d + 1
      BY <3>1, <3>2 DEF Moves
    <3> QED BY <3>1, <3>2, <3>3 DEF Moves
  <2> QED BY <1>2, <2>1, <2>2, SameKeeps
<1>7. ASSUME NEW e \in Layers, e = d + 1 PROVE Layer(e)'
  <2>1. e # d /\ pc'[e] = "Off" /\ pc[e] \in {"Off", "Return"}
    BY <1>1, <1>7 DEF Moves
  <2>2. /\ pending'[e] = <<>> /\ running'[e] = {} /\ serial'[e] = <<>> /\ resolved'[e] = <<>>
    BY <1>5, <2>1 DEF Moves, Layer, Queues
  <2>3. out'[e] = out[e] /\ Len(reqs) <= Len(reqs')
    BY <1>3, <1>4
  <2> QED BY <1>2, <2>1, <2>2, <2>3, DroppedKeeps
<1>8. Layer(d)'
  <2>1. Held(d)' /\ Covered(d)' /\ Awaits(d)'
    BY <1>3, <1>5 DEF Layer, Held, Covered, Awaits, Emitted
  <2>2. Stacked(d)'
    <3> SUFFICES ASSUME d # 0
                 PROVE  pc'[d - 1] = "Batch" /\ running'[d - 1] = {} /\ serial'[d - 1] # <<>>
      BY DEF Stacked
    <3>1. d - 1 \in Layers \ {d} /\ d - 1 # d + 1
      BY <1>1 DEF Layers
    <3> QED BY <1>5, <3>1 DEF Layer, Stacked, Moves
  <2> QED BY <2>1, <2>2 DEF Layer
<1> QED BY <1>2, <1>6, <1>7, <1>8 DEF IInv

LEMMA BelowOff ==
    ASSUME IInv, NEW d \in Layers, d + 1 \in Layers,
           pc[d] # "Batch" \/ running[d] # {} \/ serial[d] = <<>>
    PROVE  pc[d + 1] = "Off"
<1>1. d \in Nat /\ d + 1 # 0 /\ (d + 1) - 1 = d
  BY DEF Layers
<1>2. Stacked(d + 1)
  BY DEF IInv, Layer
<1> QED BY <1>1, <1>2 DEF Stacked

(* Queues with the names of the lemmas about sequences. *)
LEMMA QueuesNamed ==
    ASSUME NEW d
    PROVE  /\ Answered(d) = IdsOf(resolved[d])
           /\ Queues(d) => DistinctIds(resolved[d]) /\ Distinct(pending[d]) /\ Distinct(serial[d])
BY DEF Queues, Answered, IdsOf, DistinctIds

LEMMA LoopFulfilsKeeps ==
    ASSUME IInv, NEW d \in Layers, LoopFulfils(d)
    PROVE  IInv'
<1>1. Typed /\ Layer(d) /\ d + 1 # d
  BY DEF IInv, Layers
<1> DEFINE p == pending[d]
           c == Concurrent(d)
           q == Among(p, Range(p) \ c)
<1>2. p \in Seq(Ids) /\ Distinct(p) /\ c \subseteq Range(p) /\ Range(p) \subseteq Ids
  BY <1>1, SeqFacts DEF Typed, Layer, Queues, Concurrent
<1>3. q \in Seq(Ids) /\ Range(q) = Range(p) \ c /\ Distinct(q)
  <2> HIDE DEF p, c
  <2> QED BY <1>2, AmongFacts
<1>4. /\ pc' = [pc EXCEPT ![d] = "Batch"] /\ running' = [running EXCEPT ![d] = c]
      /\ serial' = [serial EXCEPT ![d] = q]
      /\ UNCHANGED <<pending, resolved, used>>
  BY DEF LoopFulfils
<1> HIDE DEF c, q
<1>5. /\ pc'[d] = "Batch" /\ running'[d] = c /\ serial'[d] = q /\ pending'[d] = p
      /\ resolved'[d] = <<>> /\ Answered(d)' = {} /\ Answered(d) = {}
  BY <1>1, <1>4 DEF LoopFulfils, Layer, Queues, Typed, Answered
<1>6. Moves(d)
  <2>1. d + 1 \in Layers => pc[d + 1] = "Off"
    BY BelowOff DEF LoopFulfils
  <2>2. pc' \in [Layers -> {"Off", "Loop", "Batch", "Feed", "Usage", "Return"}]
    BY <1>1, <1>4 DEF Typed
  <2>3. running' \in [Layers -> SUBSET Ids] /\ serial' \in [Layers -> Seq(Ids)]
    BY <1>1, <1>2, <1>3, <1>4 DEF Typed
  <2>4. /\ pending' \in [Layers -> Seq(Ids)] /\ resolved' \in [Layers -> Seq(Resolution)]
        /\ used' \in [steps: 0 .. MaxSteps, tokens: 0 .. MaxTokens]
    BY <1>1, <1>4 DEF Typed
  <2>5. UNCHANGED <<result, since, chain, treeVars, trace, sibling, cancelled>>
    BY DEF LoopFulfils
  <2> QED BY <1>1, <1>4, <2>1, <2>2, <2>3, <2>4, <2>5 DEF Moves, Typed
<1>7. Unsettled(d)' = Unsettled(d)
  BY <1>5 DEF Unsettled
<1>8. Queues(d)'
  <2>1. Range(p) = c \cup Range(q) \cup {} /\ c \cap Range(q) = {}
    BY <1>2, <1>3
  <2> QED BY <1>2, <1>3, <1>5, <2>1 DEF Queues
<1> QED BY <1>5, <1>6, <1>7, <1>8, MovesKeeps DEF LoopFulfils

(* An answer for one of the ids, of the type of resolutions. *)
LEMMA AnswersTyped ==
    ASSUME NEW id \in Ids, NEW r \in Answers(id)
    PROVE  r \in Resolution /\ r.id = id
<1>1. PICK ok \in BOOLEAN, u \in Usages \cup {0} : r = [id |-> id, ok |-> ok, usage |-> u]
  <2>1. CASE reqs[id].kind = "Llm"
    <3>1. (\E u \in Usages : r = [id |-> id, ok |-> TRUE, usage |-> u])
          \/ r = [id |-> id, ok |-> FALSE, usage |-> 0]
      BY <2>1 DEF Answers
    <3> QED BY <3>1
  <2>2. CASE reqs[id].kind # "Llm"
    <3>1. r = [id |-> id, ok |-> TRUE, usage |-> 0]
      BY <2>2 DEF Answers
    <3> QED BY <3>1
  <2> QED BY <2>1, <2>2
<1> QED BY <1>1 DEF Resolution, Ids

LEMMA HandlerReturnsKeeps ==
    ASSUME IInv, NEW d \in Layers, NEW id \in running[d], HandlerReturns(d, id)
    PROVE  IInv'
<1>1. Typed /\ Layer(d) /\ d + 1 # d /\ id \in Ids
  <2>1. running[d] \in SUBSET Ids
    BY DEF IInv, Typed
  <2> QED BY <2>1 DEF IInv, Layers
<1>2. PICK r \in Answers(id) : resolved' = [resolved EXCEPT ![d] = Append(@, r)]
  BY DEF HandlerReturns
<1> DEFINE s == resolved[d]
           t == Append(s, r)
<1>3. s \in Seq(Resolution) /\ r \in Resolution /\ r.id = id
  BY <1>1, <1>2, AnswersTyped DEF Typed
<1>4. Answered(d) = IdsOf(s) /\ DistinctIds(s)
  BY <1>1, QueuesNamed DEF Layer
<1>5. t \in Seq(Resolution) /\ IdsOf(t) = IdsOf(s) \cup {id}
      /\ (id \notin IdsOf(s) => DistinctIds(t))
  <2> HIDE DEF s
  <2> QED BY <1>3, <1>4, AnswerOn
<1>6. /\ resolved' = [resolved EXCEPT ![d] = t] /\ running' = [running EXCEPT ![d] = @ \ {id}]
      /\ UNCHANGED <<pc, pending, serial, used>>
  BY <1>2 DEF HandlerReturns
<1> HIDE DEF s, t
<1>7. /\ pc[d] = "Batch" /\ pc'[d] = "Batch" /\ running'[d] = running[d] \ {id}
      /\ serial'[d] = serial[d] /\ pending'[d] = pending[d] /\ resolved'[d] = t
  BY <1>1, <1>6 DEF HandlerReturns, Typed
<1>8. Moves(d)
  <2>1. d + 1 \in Layers => pc[d + 1] = "Off"
    BY BelowOff
  <2>2. running' \in [Layers -> SUBSET Ids]
    BY <1>1, <1>6 DEF Typed
  <2>3. resolved' \in [Layers -> Seq(Resolution)]
    BY <1>1, <1>5, <1>6 DEF Typed
  <2>4. UNCHANGED <<result, since, chain, treeVars, trace, sibling, cancelled>>
    BY DEF HandlerReturns
  <2> QED BY <1>1, <1>6, <2>1, <2>2, <2>3, <2>4 DEF Moves, Typed
<1>9. Answered(d)' = Answered(d) \cup {id}
  BY <1>4, <1>5, <1>7, QueuesNamed DEF IdsOf, Answered
<1>10. id \notin Answered(d) /\ id \in Range(pending[d]) /\ id \notin Range(serial[d])
  BY <1>1, <1>7 DEF Layer, Queues
<1>11. Unsettled(d)' = Unsettled(d)
  BY <1>7, <1>9, <1>10 DEF Unsettled
<1>12. Queues(d)'
  <2>1. DistinctIds(t)
    BY <1>4, <1>5, <1>10
  <2>2. \A i, j \in DOMAIN t : t[i].id = t[j].id => i = j
    BY <2>1 DEF DistinctIds
  <2> QED BY <1>1, <1>7, <1>9, <1>10, <2>2 DEF Layer, Queues
<1> QED BY <1>7, <1>8, <1>11, <1>12, MovesKeeps

(* The first of the serial requirements is answered. *)
LEMMA SerialKeeps ==
    ASSUME IInv, NEW d \in Layers, pc[d] = "Batch", serial[d] # <<>>,
           NEW r \in Resolution, r.id = Head(serial[d]), SerialResolved(d, r),
           pc' \in [Layers -> {"Off", "Loop", "Batch", "Feed", "Usage", "Return"}],
           \A e \in Layers : e # d + 1 => pc'[e] = pc[e],
           d + 1 \in Layers => pc'[d + 1] = "Off" /\ pc[d + 1] \in {"Off", "Return"}
    PROVE  IInv'
<1>1. Typed /\ Layer(d) /\ d + 1 # d
  BY DEF IInv, Layers
<1> DEFINE s == resolved[d]
           t == Append(s, r)
           q == serial[d]
           tl == Tail(q)
           hd == Head(q)
<1>2. s \in Seq(Resolution) /\ q \in Seq(Ids) /\ q # <<>> /\ Distinct(q)
  BY <1>1 DEF Typed, Layer, Queues
<1>3. Answered(d) = IdsOf(s) /\ DistinctIds(s)
  BY <1>1, QueuesNamed DEF Layer
<1>4. t \in Seq(Resolution) /\ IdsOf(t) = IdsOf(s) \cup {r.id}
      /\ (r.id \notin IdsOf(s) => DistinctIds(t))
  <2> HIDE DEF s
  <2> QED BY <1>2, <1>3, AnswerOn
<1>5. /\ tl \in Seq(Ids) /\ Range(q) = Range(tl) \cup {hd}
      /\ Distinct(tl) /\ hd \notin Range(tl)
  <2> HIDE DEF q
  <2> QED BY <1>2, HeadOff
<1>6. r.id = hd
  OBVIOUS
<1>7. /\ resolved' = [resolved EXCEPT ![d] = t] /\ serial' = [serial EXCEPT ![d] = tl]
      /\ UNCHANGED <<pending, running, used>>
  BY DEF SerialResolved
<1> HIDE DEF s, t, tl, hd
<1>8. /\ pc'[d] = "Batch" /\ running'[d] = running[d]
      /\ serial'[d] = tl /\ pending'[d] = pending[d] /\ resolved'[d] = t
  BY <1>1, <1>7 DEF Typed
<1>9. Moves(d)
  <2>1. serial' \in [Layers -> Seq(Ids)]
    BY <1>1, <1>5, <1>7 DEF Typed
  <2>2. resolved' \in [Layers -> Seq(Resolution)]
    BY <1>1, <1>4, <1>7 DEF Typed
  <2>3. UNCHANGED <<result, since, chain, treeVars, trace, sibling, cancelled>>
    BY DEF SerialResolved
  <2> QED BY <1>1, <1>7, <2>1, <2>2, <2>3 DEF Moves, Typed
<1>10. Answered(d)' = Answered(d) \cup {hd}
  BY <1>3, <1>4, <1>6, <1>8, QueuesNamed DEF IdsOf, Answered
<1>11. hd \notin Answered(d) /\ hd \in Range(pending[d]) /\ hd \notin running[d]
  BY <1>1, <1>5 DEF Layer, Queues
<1>12. Unsettled(d)' = Unsettled(d)
  BY <1>8, <1>10, <1>11 DEF Unsettled
<1>13. Queues(d)'
  <2>1. DistinctIds(t)
    BY <1>3, <1>4, <1>6, <1>11
  <2>2. \A i, j \in DOMAIN t : t[i].id = t[j].id => i = j
    BY <2>1 DEF DistinctIds
  <2>3. /\ Range(pending[d]) = running[d] \cup Range(q) \cup Answered(d)
        /\ running[d] \cap Range(q) = {} /\ Answered(d) \cap (running[d] \cup Range(q)) = {}
        /\ Distinct(pending[d])
    BY <1>1 DEF Layer, Queues
  <2> HIDE DEF q
  <2>4. /\ Range(pending[d]) = running[d] \cup Range(tl) \cup Answered(d)'
        /\ running[d] \cap Range(tl) = {}
        /\ Answered(d)' \cap (running[d] \cup Range(tl)) = {}
    BY <1>5, <1>10, <1>11, <2>3
  <2> QED BY <1>5, <1>8, <2>2, <2>3, <2>4 DEF Queues
<1> QED BY <1>8, <1>9, <1>12, <1>13, MovesKeeps

LEMMA SerialStepsKeep ==
    ASSUME IInv, NEW d \in Layers,
           PoppedReturns(d) \/ SubagentRefused(d) \/ SubagentReturns(d)
    PROVE  IInv'
<1>1. Typed /\ Layer(d) /\ d \in Nat
  BY DEF IInv, Layers
<1>2. serial[d] # <<>> => Head(serial[d]) \in Ids
  <2>1. serial[d] \in Seq(Ids)
    BY <1>1 DEF Typed
  <2> QED BY <2>1, HeadTailProperties
<1>3. AtSerial(d) /\ UNCHANGED pc =>
        /\ pc[d] = "Batch" /\ serial[d] # <<>>
        /\ pc' \in [Layers -> {"Off", "Loop", "Batch", "Feed", "Usage", "Return"}]
        /\ \A e \in Layers : e # d + 1 => pc'[e] = pc[e]
        /\ d + 1 \in Layers => pc'[d + 1] = "Off" /\ pc[d + 1] \in {"Off", "Return"}
  <2>1. d + 1 > d
    BY <1>1
  <2> QED BY <1>1, <2>1 DEF AtSerial, Deepest, Typed
<1>4. CASE PoppedReturns(d)
  <2>1. AtSerial(d) /\ UNCHANGED pc
    BY <1>4 DEF PoppedReturns
  <2>2. PICK r \in Answers(Head(serial[d])) : SerialResolved(d, r)
    BY <1>4 DEF PoppedReturns
  <2>3. r \in Resolution /\ r.id = Head(serial[d])
    BY <1>2, <1>3, <2>1, <2>2, AnswersTyped
  <2> QED BY <1>3, <2>1, <2>2, <2>3, SerialKeeps
<1>5. CASE SubagentRefused(d)
  <2>1. AtSerial(d) /\ UNCHANGED pc
    BY <1>5 DEF SubagentRefused, AtSubagent
  <2> DEFINE r == [id |-> Head(serial[d]), ok |-> FALSE, usage |-> 0]
  <2>2. SerialResolved(d, r)
    BY <1>5 DEF SubagentRefused
  <2>3. r \in Resolution /\ r.id = Head(serial[d])
    BY <1>2, <1>3, <2>1 DEF Resolution, Ids
  <2> HIDE DEF r
  <2> QED BY <1>3, <2>1, <2>2, <2>3, SerialKeeps
<1>6. CASE SubagentReturns(d)
  <2>1. d + 1 \in Layers /\ pc[d] = "Batch" /\ pc[d + 1] = "Return"
    BY <1>1, <1>6, DepthAssumption DEF SubagentReturns, Layers
  <2>2. serial[d] # <<>>
    <3>1. Stacked(d + 1) /\ d + 1 # 0 /\ (d + 1) - 1 = d
      BY <1>1, <2>1 DEF IInv, Layer
    <3> QED BY <2>1, <3>1 DEF Stacked
  <2> DEFINE ok == result[d + 1] \in {"Ok", "Cancelled"}
             r == [id |-> Head(serial[d]), ok |-> ok, usage |-> 0]
  <2>3. SerialResolved(d, r) /\ pc' = [pc EXCEPT ![d + 1] = "Off"]
    BY <1>6 DEF SubagentReturns
  <2>4. r \in Resolution /\ r.id = Head(serial[d])
    <3>1. ok \in BOOLEAN
      OBVIOUS
    <3> HIDE DEF ok
    <3> QED BY <1>2, <2>2, <3>1 DEF Resolution, Ids
  <2> HIDE DEF r
  <2>5. pc' \in [Layers -> {"Off", "Loop", "Batch", "Feed", "Usage", "Return"}]
    BY <1>1, <2>3 DEF Typed
  <2>6. /\ \A e \in Layers : e # d + 1 => pc'[e] = pc[e]
        /\ pc'[d + 1] = "Off"
    BY <1>1, <2>1, <2>3 DEF Typed
  <2> QED BY <2>1, <2>2, <2>3, <2>4, <2>5, <2>6, SerialKeeps
<1> QED BY <1>4, <1>5, <1>6

LEMMA BatchCompletedKeeps ==
    ASSUME IInv, NEW d \in Layers, BatchCompleted(d)
    PROVE  IInv'
<1>1. Typed /\ Layer(d) /\ d + 1 # d /\ d + 1 > d
  BY DEF IInv, Layers
<1>2. /\ pc' = [pc EXCEPT ![d] = "Feed"] /\ pending' = [pending EXCEPT ![d] = <<>>]
      /\ UNCHANGED <<running, serial, resolved, used>>
      /\ pc[d] = "Batch" /\ running[d] = {} /\ serial[d] = <<>>
  BY DEF BatchCompleted, BatchDone
<1>3. /\ pc'[d] = "Feed" /\ running'[d] = {} /\ serial'[d] = <<>> /\ pending'[d] = <<>>
      /\ resolved'[d] = resolved[d]
  BY <1>1, <1>2 DEF Typed
<1>4. Moves(d)
  <2>1. d + 1 \in Layers => pc[d + 1] = "Off"
    BY <1>1 DEF BatchCompleted, BatchDone, Deepest
  <2>2. <<>> \in Seq(Ids)
    OBVIOUS
  <2>3. pending' \in [Layers -> Seq(Ids)]
    BY <1>1, <1>2, <2>2 DEF Typed
  <2>4. UNCHANGED <<result, since, chain, treeVars, trace, sibling, cancelled>>
    BY DEF BatchCompleted
  <2> QED BY <1>1, <1>2, <2>1, <2>3, <2>4 DEF Moves, Typed
<1>5. Answered(d)' = Answered(d) /\ Range(pending[d]) = Answered(d)
  <2>1. Range(serial[d]) = {}
    BY <1>2 DEF Range
  <2>2. Answered(d)' = Answered(d)
    BY <1>3 DEF Answered
  <2> QED BY <1>1, <1>2, <2>1, <2>2 DEF Layer, Queues
<1>6. Unsettled(d)' = Unsettled(d)
  BY <1>3, <1>5 DEF Unsettled, Range
<1>7. Queues(d)'
  BY <1>1, <1>3 DEF Layer, Queues, Distinct, Range
<1> QED BY <1>2, <1>3, <1>4, <1>6, <1>7, MovesKeeps

(* Only where the drain is changes, and perhaps what is charged. *)
LEMMA FeedMovesKeep ==
    ASSUME IInv, NEW d \in Layers, pc[d] = "Feed", NEW to,
           \/ to = "Loop" /\ resolved[d] = <<>>
           \/ to = "Usage" /\ resolved[d] # <<>>,
           pc' = [pc EXCEPT ![d] = to],
           UNCHANGED <<result, since, chain, pending, running, serial, resolved,
                       treeVars, trace, sibling, cancelled>>,
           used' \in [steps: 0 .. MaxSteps, tokens: 0 .. MaxTokens]
    PROVE  IInv'
<1>1. Typed /\ Layer(d) /\ d + 1 # d
  BY DEF IInv, Layers
<1>2. pc'[d] = to /\ to \in {"Loop", "Usage"}
  BY <1>1 DEF Typed
<1>3. Moves(d)
  <2>1. d + 1 \in Layers => pc[d + 1] = "Off"
    BY BelowOff
  <2>2. /\ \A e \in Layers : e # d => pc'[e] = pc[e]
        /\ pc' \in [Layers -> {"Off", "Loop", "Batch", "Feed", "Usage", "Return"}]
    BY <1>1, <1>2 DEF Typed
  <2>3. d + 1 \in Layers => pc'[d + 1] = "Off" /\ pc[d + 1] \in {"Off", "Return"}
    BY <1>1, <2>1, <2>2
  <2> QED BY <1>1, <2>2, <2>3 DEF Moves, Typed
<1>4. Unsettled(d)' = Unsettled(d) /\ Answered(d)' = Answered(d)
  BY DEF Unsettled, Answered
<1>5. Queues(d)'
  BY <1>1, <1>2, <1>4 DEF Layer, Queues
<1> QED BY <1>2, <1>3, <1>4, <1>5, MovesKeeps

-----------------------------------------------------------------------------
(***************************************************************************)
(* Steps that emit requirements.                                           *)
(***************************************************************************)

LEMMA ConcatElements ==
    ASSUME NEW S, NEW p \in Seq(S), NEW q \in Seq(S), NEW c, c = p \o q
    PROVE  /\ c \in Seq(S) /\ Len(c) = Len(p) + Len(q)
           /\ \A i \in 1 .. Len(p) : c[i] = p[i]
           /\ \A i \in 1 .. Len(q) : c[Len(p) + i] = q[i]
<1>1. /\ c \in Seq(S) /\ Len(c) = Len(p) + Len(q)
      /\ \A i \in 1 .. Len(p) + Len(q) :
            c[i] = IF i <= Len(p) THEN p[i] ELSE q[i - Len(p)]
  BY ConcatProperties
<1>2. ASSUME NEW i \in 1 .. Len(q) PROVE c[Len(p) + i] = q[i]
  <2>1. /\ Len(p) + i \in 1 .. Len(p) + Len(q)
        /\ ~(Len(p) + i <= Len(p)) /\ (Len(p) + i) - Len(p) = i
    OBVIOUS
  <2> QED BY <1>1, <2>1
<1> QED BY <1>1, <1>2

LEMMA ConcatOn ==
    ASSUME NEW S, NEW p \in Seq(S), NEW q \in Seq(S),
           NEW c \in Seq(S), Len(c) = Len(p) + Len(q),
           \A i \in 1 .. Len(p) : c[i] = p[i],
           \A i \in 1 .. Len(q) : c[Len(p) + i] = q[i]
    PROVE  /\ Range(c) = Range(p) \cup Range(q)
           /\ Distinct(p) /\ Distinct(q) /\ Range(p) \cap Range(q) = {} => Distinct(c)
<1> DEFINE m == Len(p)
           n == Len(q)
<1>1. /\ m \in Nat /\ n \in Nat /\ DOMAIN p = 1 .. m /\ DOMAIN q = 1 .. n
      /\ DOMAIN c = 1 .. Len(c)
  OBVIOUS
<1>2. /\ Len(c) = m + n
      /\ \A i \in 1 .. m : c[i] = p[i]
      /\ \A i \in 1 .. n : c[m + i] = q[i]
  OBVIOUS
<1> HIDE DEF m, n
<1>3. DOMAIN c = 1 .. m + n
  BY <1>1, <1>2
<1>4. ASSUME NEW i \in 1 .. m PROVE c[i] = p[i] /\ i \in 1 .. m + n
  BY <1>1, <1>2
<1>5. ASSUME NEW i \in 1 .. n PROVE c[m + i] = q[i] /\ m + i \in 1 .. m + n
  BY <1>1, <1>2
<1>6. ASSUME NEW i \in 1 .. m + n PROVE i \in 1 .. m \/ (i - m \in 1 .. n /\ i = m + (i - m))
  BY <1>1
<1>7. Range(c) = Range(p) \cup Range(q)
  <2>1. ASSUME NEW x \in Range(c) PROVE x \in Range(p) \cup Range(q)
    <3>1. PICK i \in 1 .. m + n : x = c[i]
      BY <1>3 DEF Range
    <3>2. CASE i \in 1 .. m
      BY <1>1, <1>4, <3>1, <3>2 DEF Range
    <3>3. CASE i - m \in 1 .. n /\ i = m + (i - m)
      <4>1. c[i] = q[i - m]
        BY <1>5, <3>3
      <4> QED BY <1>1, <3>1, <3>3, <4>1 DEF Range
    <3> QED BY <1>6, <3>2, <3>3
  <2>2. ASSUME NEW x \in Range(p) PROVE x \in Range(c)
    BY <1>1, <1>3, <1>4 DEF Range
  <2>3. ASSUME NEW x \in Range(q) PROVE x \in Range(c)
    <3>1. PICK i \in 1 .. n : x = q[i]
      BY <1>1 DEF Range
    <3> QED BY <1>3, <1>5, <3>1 DEF Range
  <2> QED BY <2>1, <2>2, <2>3
<1>8. ASSUME Distinct(p), Distinct(q), Range(p) \cap Range(q) = {}
      PROVE  Distinct(c)
  <2>1. \A i \in 1 .. m, j \in 1 .. n : p[i] # q[j]
    BY <1>1, <1>8 DEF Range
  <2>2. ASSUME NEW i \in 1 .. m + n, NEW j \in 1 .. m + n, c[i] = c[j] PROVE i = j
    <3>1. CASE i \in 1 .. m /\ j \in 1 .. m
      BY <1>1, <1>4, <1>8, <2>2, <3>1 DEF Distinct
    <3>2. CASE i - m \in 1 .. n /\ i = m + (i - m) /\ j - m \in 1 .. n /\ j = m + (j - m)
      <4>1. c[i] = q[i - m] /\ c[j] = q[j - m]
        BY <1>5, <3>2
      <4>2. i - m = j - m
        BY <1>1, <1>8, <2>2, <3>2, <4>1 DEF Distinct
      <4> QED BY <1>1, <4>2
    <3>3. CASE i \in 1 .. m /\ j - m \in 1 .. n /\ j = m + (j - m)
      BY <1>4, <1>5, <2>1, <2>2, <3>3
    <3>4. CASE j \in 1 .. m /\ i - m \in 1 .. n /\ i = m + (i - m)
      BY <1>4, <1>5, <2>1, <2>2, <3>4
    <3> QED BY <1>6, <3>1, <3>2, <3>3, <3>4
  <2> QED BY <1>3, <2>2 DEF Distinct
<1> QED BY <1>7, <1>8

Fresh(k) == (Len(reqs) + 1) .. (Len(reqs) + k)

LEMMA NewIdsFacts ==
    ASSUME Typed, NEW k \in Nat, Len(reqs) + k <= MaxReqs
    PROVE  /\ NewIds(k) \in Seq(Ids) /\ Len(NewIds(k)) = k
           /\ Range(NewIds(k)) = Fresh(k) /\ Distinct(NewIds(k))
<1>1. Len(reqs) \in Nat /\ MaxReqs \in Nat
  BY BoundsAssumption DEF Typed
<1>2. NewIds(k) \in Seq(Ids) /\ Len(NewIds(k)) = k /\ DOMAIN NewIds(k) = 1 .. k
  BY <1>1 DEF NewIds, Ids
<1>3. Range(NewIds(k)) = Fresh(k)
  <2>1. ASSUME NEW x \in Fresh(k) PROVE x \in Range(NewIds(k))
    <3>1. x - Len(reqs) \in 1 .. k /\ Len(reqs) + (x - Len(reqs)) = x
      BY <1>1 DEF Fresh
    <3>2. NewIds(k)[x - Len(reqs)] = x
      BY <3>1 DEF NewIds
    <3> QED BY <1>2, <3>1, <3>2 DEF Range
  <2>2. ASSUME NEW i \in 1 .. k PROVE NewIds(k)[i] \in Fresh(k)
    BY <1>1 DEF NewIds, Fresh
  <2> QED BY <1>2, <2>1, <2>2 DEF Range
<1>4. Distinct(NewIds(k))
  <2>1. ASSUME NEW i \in 1 .. k, NEW j \in 1 .. k, Len(reqs) + i = Len(reqs) + j PROVE i = j
    BY <1>1, <2>1
  <2> QED BY <1>2, <2>1 DEF Distinct, NewIds
<1> QED BY <1>2, <1>3, <1>4

(* k requirements of layer d are added, each with an empty record. *)
Emits(d, k) ==
    /\ reqs' \in Seq(Requirement) /\ trace' \in Seq(Seq(Entries))
    /\ Len(reqs') = Len(reqs) + k /\ Len(trace') = Len(reqs')
    /\ \A id \in 1 .. Len(reqs) : reqs'[id] = reqs[id]
    /\ \A id \in Fresh(k) : reqs'[id].layer = d /\ trace'[id] = <<>>

LEMMA EmitsFacts ==
    ASSUME Typed, NEW k \in Nat, NEW d \in Layers, Emits(d, k)
    PROVE  /\ Len(reqs) \in Nat /\ Len(trace) = Len(reqs) /\ DOMAIN reqs = 1 .. Len(reqs)
           /\ DOMAIN reqs' = 1 .. (Len(reqs) + k) /\ DOMAIN trace' = 1 .. (Len(reqs) + k)
           /\ 1 .. (Len(reqs) + k) = (1 .. Len(reqs)) \cup Fresh(k)
           /\ (1 .. Len(reqs)) \cap Fresh(k) = {}
           /\ \A e \in Layers \ {d} : Grows(e)
<1>1. Len(reqs) \in Nat /\ Len(trace) = Len(reqs) /\ DOMAIN reqs = 1 .. Len(reqs)
  BY DEF Typed
<1>2. DOMAIN reqs' = 1 .. (Len(reqs) + k) /\ DOMAIN trace' = 1 .. (Len(reqs) + k)
  BY <1>1 DEF Emits
<1>3. /\ 1 .. (Len(reqs) + k) = (1 .. Len(reqs)) \cup Fresh(k)
      /\ (1 .. Len(reqs)) \cap Fresh(k) = {}
  BY <1>1 DEF Fresh
<1>4. \A e \in Layers \ {d} : Grows(e)
  <2>1. Len(reqs) <= Len(reqs')
    BY <1>1 DEF Emits
  <2>2. ASSUME NEW id \in 1 .. Len(reqs'), id \notin 1 .. Len(reqs) PROVE reqs'[id].layer = d
    BY <1>3, <2>2 DEF Emits
  <2> QED BY <2>1, <2>2 DEF Grows, Emits
<1> QED BY <1>1, <1>2, <1>3, <1>4

(* The answer for id0 is recorded and fed back; the machine n0 may emit k more. *)
FedBack(d, id0, k, n0) ==
    /\ pc[d] \in {"Feed", "Usage"} /\ resolved[d] # <<>> /\ id0 = Head(resolved[d]).id
    /\ Len(reqs) + k <= MaxReqs /\ Emits(d, k)
    /\ pc' = [pc EXCEPT ![d] = "Feed"]
    /\ resolved' = [resolved EXCEPT ![d] = Tail(@)]
    /\ pending' = [pending EXCEPT ![d] = Extended(d, NewIds(k))]
    /\ UNCHANGED <<result, since, chain, running, serial, sibling, cancelled>>
    /\ used' \in [steps: 0 .. MaxSteps, tokens: 0 .. MaxTokens]
    /\ \A id \in 1 .. Len(reqs) : id # id0 => trace'[id] = trace[id]
    /\ trace'[id0] # <<>> /\ Len(trace'[id0]) <= 1
    /\ rest' \in [Layers -> [Machines -> {"Idle", "Busy", "Done", "Error"}]]
    /\ out' \in [Layers -> [Machines -> SUBSET Ids]]
    /\ \A e \in Layers \ {d} : rest'[e] = rest[e] /\ out'[e] = out[e]
    /\ \A m \in Machines \ {n0} :
          rest'[d][m] = rest[d][m] /\ out'[d][m] = out[d][m] /\ id0 \notin out[d][m]
    /\ out'[d][n0] \subseteq (out[d][n0] \ {id0}) \cup Fresh(k)
    /\ rest'[d][n0] = "Busy" <=> out'[d][n0] # {}
    /\ rest'[d][n0] # "Idle"

LEMMA FedKeeps ==
    ASSUME IInv, NEW d \in Layers, NEW id0, NEW k \in Nat, NEW n0 \in Machines,
           FedBack(d, id0, k, n0)
    PROVE  IInv'
<1> USE DEF FedBack
<1>1. Typed /\ Layer(d) /\ d \in Nat /\ DistinctIds(resolved[d])
  BY QueuesNamed DEF IInv, Layers, Layer
<1> DEFINE s == resolved[d]
           t == Tail(s)
           p == pending[d]
           q == NewIds(k)
           c == p \o q
           L == Len(reqs)
<1>2. /\ t \in Seq(Resolution) /\ IdsOf(s) = IdsOf(t) \cup {id0}
      /\ DistinctIds(t) /\ id0 \notin IdsOf(t)
  <2>1. s \in Seq(Resolution) /\ s # <<>> /\ DistinctIds(s)
    BY <1>1 DEF Typed
  <2> HIDE DEF s
  <2>2. id0 = Head(s).id
    BY DEF s
  <2> QED BY <2>1, <2>2, AnswerOff
<1>3. /\ p \in Seq(Ids) /\ Distinct(p) /\ q \in Seq(Ids) /\ Distinct(q) /\ Range(q) = Fresh(k)
      /\ running[d] = {} /\ serial[d] = <<>> /\ Range(p) \cap IdsOf(s) = {}
  <2>1. Answered(d) = IdsOf(s)
    BY QueuesNamed
  <2> HIDE DEF s
  <2> QED BY <1>1, <2>1, NewIdsFacts DEF Typed, Layer, Queues
<1>4. Answered(d) = IdsOf(s)
  BY QueuesNamed
<1>5. /\ L \in Nat /\ Len(trace) = L /\ DOMAIN reqs = 1 .. L
      /\ DOMAIN reqs' = 1 .. (L + k) /\ DOMAIN trace' = 1 .. (L + k)
      /\ 1 .. (L + k) = (1 .. L) \cup Fresh(k) /\ (1 .. L) \cap Fresh(k) = {}
      /\ \A e \in Layers \ {d} : Grows(e)
  BY <1>1, EmitsFacts
<1>6. \A id \in Range(p) \cup IdsOf(s) : id \in 1 .. L /\ reqs[id].layer = d /\ trace[id] = <<>>
  BY <1>1, <1>4 DEF Layer, Held, Unsettled
<1>7. c \in Seq(Ids) /\ Range(c) = Range(p) \cup Fresh(k) /\ Distinct(c)
  <2>1. Range(p) \cap Range(q) = {}
    BY <1>3, <1>5, <1>6
  <2>2. c = p \o q
    OBVIOUS
  <2> HIDE DEF p, q, c
  <2>3. p \in Seq(Ids) /\ q \in Seq(Ids)
    BY <1>3
  <2>4. /\ c \in Seq(Ids) /\ Len(c) = Len(p) + Len(q)
        /\ \A i \in 1 .. Len(p) : c[i] = p[i]
        /\ \A i \in 1 .. Len(q) : c[Len(p) + i] = q[i]
    BY <2>2, <2>3, ConcatElements
  <2>5. /\ Range(c) = Range(p) \cup Range(q)
        /\ Distinct(p) /\ Distinct(q) /\ Range(p) \cap Range(q) = {} => Distinct(c)
    BY <2>3, <2>4, ConcatOn
  <2> QED BY <1>3, <2>1, <2>4, <2>5
<1>8. /\ pending' = [pending EXCEPT ![d] = c] /\ resolved' = [resolved EXCEPT ![d] = t]
  BY DEF Extended
<1> HIDE DEF t, q, c
<1>9. Typed'
  <2>1. pc' \in [Layers -> {"Off", "Loop", "Batch", "Feed", "Usage", "Return"}]
    BY <1>1 DEF Typed
  <2>2. pending' \in [Layers -> Seq(Ids)]
    BY <1>1, <1>7, <1>8 DEF Typed
  <2>3. resolved' \in [Layers -> Seq(Resolution)]
    BY <1>1, <1>2, <1>8 DEF Typed
  <2>4. reqs' \in Seq(Requirement) /\ trace' \in Seq(Seq(Entries)) /\ Len(reqs') <= MaxReqs
        /\ Len(trace') = Len(reqs')
    BY DEF Emits
  <2> QED BY <1>1, <2>1, <2>2, <2>3, <2>4 DEF Typed
<1>10. SettledAtMostOnce'
  <2>1. Len(<<>>) = 0
    OBVIOUS
  <2>2. ASSUME NEW id \in 1 .. L PROVE Len(trace'[id]) <= 1
    <3>1. CASE id = id0
      BY <3>1
    <3>2. CASE id # id0
      <4>1. id \in DOMAIN trace
        BY <1>1, <1>5 DEF Typed
      <4> QED BY <3>2, <4>1 DEF IInv, SettledAtMostOnce
    <3> QED BY <3>1, <3>2
  <2>3. ASSUME NEW id \in Fresh(k) PROVE Len(trace'[id]) <= 1
    BY <2>1 DEF Emits
  <2> QED BY <1>5, <2>2, <2>3 DEF SettledAtMostOnce
<1>11. NeverQuiesces'
  BY DEF IInv, NeverQuiesces
<1>12. /\ pc'[d] = "Feed" /\ pending'[d] = c /\ resolved'[d] = t /\ running'[d] = {}
       /\ serial'[d] = <<>> /\ since'[d] = since[d]
  BY <1>1, <1>3, <1>8 DEF Typed
<1>13. /\ Answered(d)' = IdsOf(t)
       /\ Unsettled(d)' = Range(p) \cup Fresh(k) \cup IdsOf(t)
  <2>1. Answered(d)' = IdsOf(t)
    <3>1. Answered(d)' = IdsOf(resolved'[d])
      BY DEF Answered, IdsOf
    <3>2. resolved'[d] = t
      BY <1>12
    <3> QED BY <3>1, <3>2, Zenon
  <2>2. Range(pending'[d]) = Range(c)
    BY <1>12, Zenon
  <2> QED BY <1>7, <2>1, <2>2 DEF Unsettled
<1>14. Unsettled(d) = Range(p) \cup IdsOf(s) /\ id0 \notin Range(p)
  BY <1>2, <1>3, <1>4 DEF Unsettled
<1>15. ASSUME NEW e \in Layers, e # d PROVE Layer(e)'
  <2>1. id0 \in 1 .. L /\ reqs[id0].layer = d
    BY <1>2, <1>6
  <2>2. Same(e)
    BY <1>1, <1>5, <1>8, <1>15, <2>1 DEF Same, Typed
  <2>3. Stacked(e)'
    <3> SUFFICES ASSUME e # 0, pc'[e] # "Off"
                 PROVE  pc'[e - 1] = "Batch" /\ running'[e - 1] = {} /\ serial'[e - 1] # <<>>
      BY DEF Stacked
    <3>1. e - 1 \in Layers
      BY <1>1, DepthAssumption DEF Layers
    <3>2. pc[e - 1] = "Batch" /\ running[e - 1] = {} /\ serial[e - 1] # <<>>
      BY <1>15, <2>2 DEF IInv, Layer, Stacked, Same
    <3>3. e - 1 # d
      BY <3>2
    <3> QED BY <1>1, <3>1, <3>2, <3>3 DEF Typed
  <2> QED BY <1>9, <2>2, <2>3, SameKeeps
<1>16. Queues(d)'
  <2>1. (Range(p) \cup Fresh(k)) \cap IdsOf(t) = {}
    BY <1>2, <1>3, <1>5, <1>6
  <2>3. Distinct(<<>>)
    BY DEF Distinct
  <2>4. Range(c) \cap IdsOf(t) = {}
    BY <1>7, <2>1
  <2>5. Range(pending'[d]) = Range(c)
    BY <1>12, Zenon
  <2>6. /\ Distinct(pending'[d]) /\ Distinct(serial'[d])
        /\ \A i, j \in DOMAIN resolved'[d] : resolved'[d][i].id = resolved'[d][j].id => i = j
    <3>1. Distinct(pending'[d]) /\ Distinct(serial'[d])
      BY <1>7, <1>12, <2>3, Zenon
    <3>2. resolved'[d] = t
      BY <1>12
    <3>3. \A i, j \in DOMAIN resolved'[d] : resolved'[d][i].id = resolved'[d][j].id => i = j
      <4>1. DistinctIds(resolved'[d])
        BY <1>2, <3>2, Zenon
      <4> QED BY <4>1 DEF DistinctIds
    <3> QED BY <3>1, <3>3
  <2> QED BY <1>12, <1>13, <2>4, <2>5, <2>6 DEF Queues
<1>17. Held(d)'
  <2>1. ASSUME NEW id \in Range(p) \cup IdsOf(t)
        PROVE  id \in 1 .. Len(reqs') /\ reqs'[id].layer = d /\ trace'[id] = <<>>
    <3>1. id \in 1 .. L /\ reqs[id].layer = d /\ trace[id] = <<>> /\ id # id0
      BY <1>2, <1>6, <1>14
    <3> QED BY <1>5, <3>1 DEF Emits
  <2>2. ASSUME NEW id \in Fresh(k)
        PROVE  id \in 1 .. Len(reqs') /\ reqs'[id].layer = d /\ trace'[id] = <<>>
    BY <1>5 DEF Emits
  <2> QED BY <1>13, <2>1, <2>2 DEF Held
<1>18. Covered(d)'
  <2> SUFFICES ASSUME NEW id \in Emitted(d)'
               PROVE  trace'[id] # <<>> \/ id \in Unsettled(d)'
    BY <1>12 DEF Covered
  <2>1. CASE id \in Fresh(k)
    BY <1>13, <2>1
  <2>2. CASE id \in 1 .. L
    <3>1. id \in Emitted(d)
      BY <1>5, <1>12, <2>2 DEF Emitted, Emits
    <3>2. trace[id] # <<>> \/ id \in Unsettled(d)
      BY <1>1, <3>1 DEF Layer, Covered
    <3>3. id # id0 => trace'[id] # <<>> \/ id \in Unsettled(d)'
      BY <1>2, <1>13, <1>14, <2>2, <3>2
    <3> QED BY <3>3
  <2>3. id \in (1 .. L) \cup Fresh(k)
    BY <1>5 DEF Emitted
  <2> QED BY <2>1, <2>2, <2>3
<1>19. Awaits(d)'
  <2>1. \A m \in Machines : /\ out[d][m] \subseteq Range(p) \cup IdsOf(s)
                            /\ out[d][m] \subseteq 1 .. L
                            /\ rest[d][m] = "Busy" <=> out[d][m] # {}
    BY <1>1, <1>14 DEF Layer, Awaits
  <2>2. \A m, n \in Machines : m # n => out[d][m] \cap out[d][n] = {}
    BY <1>1 DEF Layer, Awaits
  <2>3. \A m \in Machines : out'[d][m] \subseteq Unsettled(d)'
    <3>1. out'[d][n0] \subseteq Unsettled(d)'
      <4>1. out[d][n0] \subseteq Range(p) \cup IdsOf(s)
        BY <2>1
      <4>2. out[d][n0] \ {id0} \subseteq Range(p) \cup IdsOf(t)
        BY <1>2, <4>1
      <4> QED BY <1>13, <4>2
    <3>2. ASSUME NEW m \in Machines, m # n0 PROVE out'[d][m] \subseteq Unsettled(d)'
      <4>1. out[d][m] \subseteq Range(p) \cup IdsOf(s) /\ id0 \notin out[d][m]
            /\ out'[d][m] = out[d][m]
        BY <2>1, <3>2
      <4>2. out[d][m] \subseteq Range(p) \cup IdsOf(t)
        BY <1>2, <4>1
      <4> QED BY <1>13, <4>1, <4>2
    <3> QED BY <3>1, <3>2
  <2>4. \A m \in Machines : rest'[d][m] = "Busy" <=> out'[d][m] # {}
    BY <2>1
  <2>5. ASSUME NEW m \in Machines, NEW n \in Machines, m # n
        PROVE  out'[d][m] \cap out'[d][n] = {}
    <3>1. CASE m # n0 /\ n # n0
      BY <2>2, <2>5, <3>1
    <3>2. CASE m = n0
      BY <1>5, <2>1, <2>2, <2>5, <3>2
    <3>3. CASE n = n0
      BY <1>5, <2>1, <2>2, <2>5, <3>3
    <3> QED BY <3>1, <3>2, <3>3
  <2>6. \A m \in Machines : out'[d][m] \subseteq 1 .. Len(reqs')
    <3>1. Len(reqs') = L + k
      BY DEF Emits
    <3>2. out'[d][n0] \subseteq 1 .. (L + k)
      BY <1>5, <2>1
    <3>3. ASSUME NEW m \in Machines, m # n0 PROVE out'[d][m] \subseteq 1 .. (L + k)
      BY <1>5, <2>1, <3>3
    <3> QED BY <3>1, <3>2, <3>3
  <2>7. rest'[d][Own] # "Idle"
    <3>1. Own \in Machines
      BY TreeAssumption, EmptySeq DEF Own, Machines, Range
    <3> QED BY <1>1, <3>1 DEF Layer, Awaits
  <2> QED BY <1>12, <2>3, <2>4, <2>5, <2>6, <2>7 DEF Awaits
<1>20. Stacked(d)'
  <2> SUFFICES ASSUME d # 0
               PROVE  pc'[d - 1] = "Batch" /\ running'[d - 1] = {} /\ serial'[d - 1] # <<>>
    BY DEF Stacked
  <2>1. d - 1 \in Layers /\ d - 1 # d
    BY <1>1, DepthAssumption DEF Layers
  <2> QED BY <1>1, <2>1 DEF Layer, Stacked, Typed
<1> QED BY <1>9, <1>10, <1>11, <1>15, <1>16, <1>17, <1>18, <1>19, <1>20 DEF IInv, Layer

LEMMA RepliesFacts ==
    ASSUME Typed, NEW d \in Layers, NEW m \in Machines, NEW r \in Resolution,
           r.id \in 1 .. Len(reqs), NEW kinds \in Replies(d, m, r)
    PROVE  /\ kinds \in Seq(Kinds) /\ Len(reqs) + Len(kinds) <= MaxReqs
           /\ reqs[r.id].kind = "Llm" /\ ~r.ok => kinds = <<>>
<1>1. /\ reqs \in Seq(Requirement) /\ Len(reqs) <= MaxReqs /\ Len(reqs) \in Nat
      /\ r.ok \in BOOLEAN
  BY DEF Typed, Resolution
<1>2. reqs[r.id].kind \in Kinds
  <2>1. reqs[r.id] \in Requirement
    BY <1>1
  <2> QED BY <2>1 DEF Requirement
<1> DEFINE kind == reqs[r.id].kind
           more == CASE kind = "Llm" /\ r.ok -> ToolBatches
                     [] kind = "Llm" /\ ~r.ok -> {}
                     [] kind = "Interaction" -> {<<"Tool">>, <<"Llm">>}
                     [] kind \in {"Tool", "Subagent"} /\ out[d][m] = {r.id} -> {<<"Llm">>}
                     [] kind \in {"Tool", "Subagent"} /\ out[d][m] # {r.id} -> {}
<1>3. kinds \in {<<>>} \cup {ks \in more : Len(reqs) + Len(ks) <= MaxReqs}
  BY DEF Replies
<1>4. more \subseteq Seq(Kinds) /\ (kind = "Llm" /\ ~r.ok => more = {})
  <2>1. <<"Tool">> \in Seq(Kinds) /\ <<"Llm">> \in Seq(Kinds)
    BY DEF Kinds
  <2>2. ToolBatches \subseteq Seq(Kinds)
    BY RepliesAssumption
  <2>3. kind \in {"Llm", "Tool", "Interaction", "Subagent"}
    BY <1>2 DEF Kinds
  <2> HIDE DEF kind
  <2>4. CASE kind = "Llm" /\ r.ok
    BY <2>2, <2>4
  <2>5. CASE kind = "Llm" /\ ~r.ok
    BY <1>1, <2>5
  <2>6. CASE kind = "Interaction"
    BY <2>1, <2>6
  <2>7. CASE kind \in {"Tool", "Subagent"}
    BY <2>1, <2>7
  <2> QED BY <1>1, <2>3, <2>4, <2>5, <2>6, <2>7
<1> HIDE DEF more, kind
<1>5. <<>> \in Seq(Kinds) /\ Len(<<>>) = 0
  OBVIOUS
<1>6. kinds = <<>> \/ (kinds \in more /\ Len(reqs) + Len(kinds) <= MaxReqs)
  BY <1>3
<1>7. CASE kinds = <<>>
  BY <1>1, <1>5, <1>7
<1>8. CASE kinds \in more /\ Len(reqs) + Len(kinds) <= MaxReqs
  BY <1>4, <1>8 DEF kind
<1> QED BY <1>6, <1>7, <1>8

(* The requirements a machine emits are appended, with no records. *)
Appends(new, old, d, k) ==
    /\ new \in Seq(Requirement) /\ Len(new) = k /\ \A i \in 1 .. k : new[i].layer = d
    /\ old \in Seq(Seq(Entries)) /\ Len(old) = Len(trace)
    /\ reqs' = reqs \o new /\ trace' = old \o [i \in 1 .. k |-> <<>>]

LEMMA AppendsEmit ==
    ASSUME Typed, NEW d \in Layers, NEW k \in Nat, Len(reqs) + k <= MaxReqs,
           NEW new, NEW old, Appends(new, old, d, k)
    PROVE  Emits(d, k) /\ \A id \in 1 .. Len(reqs) : trace'[id] = old[id]
<1> DEFINE none == [i \in 1 .. k |-> <<>>]
           a == reqs \o new
           b == old \o none
           E == Seq(Entries)
<1>1. /\ reqs \in Seq(Requirement) /\ new \in Seq(Requirement)
      /\ old \in Seq(E)
  BY DEF Typed, Appends
<1>2. Len(reqs) \in Nat /\ Len(old) = Len(reqs) /\ Len(new) = k
  BY DEF Typed, Appends
<1>3. none \in Seq(E) /\ Len(none) = k /\ \A i \in 1 .. k : none[i] = <<>>
  <2>1. <<>> \in Seq(Entries)
    OBVIOUS
  <2> QED BY <2>1
<1>4. reqs' = a /\ trace' = b
  BY DEF Appends
<1>5. a = reqs \o new
  OBVIOUS
<1>6. b = old \o none
  OBVIOUS
<1> HIDE DEF none, a, b, E
<1>7. /\ a \in Seq(Requirement) /\ Len(a) = Len(reqs) + Len(new)
      /\ \A i \in 1 .. Len(reqs) : a[i] = reqs[i]
      /\ \A i \in 1 .. Len(new) : a[Len(reqs) + i] = new[i]
  BY <1>1, <1>5, ConcatElements
<1>8. /\ b \in Seq(E) /\ Len(b) = Len(old) + Len(none)
      /\ \A i \in 1 .. Len(old) : b[i] = old[i]
      /\ \A i \in 1 .. Len(none) : b[Len(old) + i] = none[i]
  <2>1. none \in Seq(E) /\ old \in Seq(E)
    BY <1>1, <1>3
  <2> QED BY <1>6, <2>1, ConcatElements
<1>9. ASSUME NEW id \in Fresh(k) PROVE a[id].layer = d /\ b[id] = <<>>
  <2>1. id - Len(reqs) \in 1 .. k /\ Len(reqs) + (id - Len(reqs)) = id
    BY <1>2 DEF Fresh
  <2>2. a[id] = new[id - Len(reqs)]
    BY <1>2, <1>7, <2>1
  <2>3. b[id] = none[id - Len(reqs)]
    BY <1>2, <1>3, <1>8, <2>1
  <2> QED BY <1>3, <2>1, <2>2, <2>3 DEF Appends
<1>10. Len(a) = Len(reqs) + k /\ Len(b) = Len(a)
  BY <1>2, <1>3, <1>7, <1>8
<1> QED BY <1>2, <1>4, <1>7, <1>8, <1>9, <1>10 DEF Emits, E

(* The trace with the head of the resolutions recorded. *)
Fed(r) == [trace EXCEPT ![r.id] = Append(@, Record("Resumed", r.usage))]

LEMMA FedFacts ==
    ASSUME Typed, NEW r \in Resolution, r.id \in 1 .. Len(trace), trace[r.id] = <<>>
    PROVE  /\ Fed(r) \in Seq(Seq(Entries)) /\ Len(Fed(r)) = Len(trace)
           /\ Fed(r)[r.id] # <<>> /\ Len(Fed(r)[r.id]) <= 1
           /\ \A id \in 1 .. Len(trace) : id # r.id => Fed(r)[id] = trace[id]
<1>1. trace \in Seq(Seq(Entries)) /\ Len(trace) \in Nat /\ DOMAIN trace = 1 .. Len(trace)
  BY DEF Typed
<1> DEFINE x == Record("Resumed", r.usage)
           a == Append(trace[r.id], x)
<1>2. x \in Entries
  BY DEF Record, Entries, Dispositions, Resolution
<1> HIDE DEF x
<1>3. a = <<x>>
  OBVIOUS
<1>4. <<x>> \in Seq(Entries) /\ <<x>> # <<>> /\ Len(<<x>>) = 1
  BY <1>2
<1>5. Fed(r) = [trace EXCEPT ![r.id] = <<x>>]
  BY <1>3 DEF Fed, x
<1> DEFINE y == <<x>>
<1>6. y \in Seq(Entries) /\ y # <<>> /\ Len(y) <= 1
  BY <1>4
<1>7. Fed(r) = [trace EXCEPT ![r.id] = y]
  BY <1>5
<1> HIDE DEF y
<1>8. Fed(r) \in Seq(Seq(Entries)) /\ Len(Fed(r)) = Len(trace)
  <2> DEFINE E == Seq(Entries)
  <2>1. trace \in Seq(E) /\ y \in E /\ r.id \in 1 .. Len(trace)
    BY <1>1, <1>6
  <2> HIDE DEF E
  <2>2. [trace EXCEPT ![r.id] = y] \in Seq(E) /\ Len([trace EXCEPT ![r.id] = y]) = Len(trace)
    BY <2>1
  <2> QED BY <1>7, <2>2 DEF E
<1>9. Fed(r)[r.id] = y /\ \A id \in 1 .. Len(trace) : id # r.id => Fed(r)[id] = trace[id]
  BY <1>1, <1>7
<1> QED BY <1>6, <1>8, <1>9

(* The machine m is resumed and emits requirements of these kinds. *)
FedTo(d, r, m, kinds) ==
    /\ rest' = [rest EXCEPT ![d][m] = RestAfter(d, m, r, kinds)]
    /\ out' = [out EXCEPT ![d][m] =
                  IF reqs[r.id].kind = "Llm" /\ ~r.ok THEN {}
                  ELSE (@ \ {r.id}) \cup Range(NewIds(Len(kinds)))]
    /\ reqs' = reqs \o NewReqs(d, m, kinds)
    /\ trace' = Fed(r) \o [i \in 1 .. Len(kinds) |-> <<>>]
    /\ pending' = [pending EXCEPT ![d] = Extended(d, NewIds(Len(kinds)))]

LEMMA ResumeKeeps ==
    ASSUME IInv, NEW d \in Layers, pc[d] \in {"Feed", "Usage"}, resolved[d] # <<>>,
           Resume(d), used' \in [steps: 0 .. MaxSteps, tokens: 0 .. MaxTokens]
    PROVE  IInv'
<1>1. Typed /\ Layer(d) /\ DistinctIds(resolved[d])
  BY QueuesNamed DEF IInv, Layer
<1> DEFINE s == resolved[d]
           r == Head(s)
<1>2. r \in Resolution /\ r.id \in Answered(d)
  <2>1. s \in Seq(Resolution) /\ s # <<>> /\ DistinctIds(s) /\ Answered(d) = IdsOf(s)
    BY <1>1, QueuesNamed DEF Typed
  <2> HIDE DEF s
  <2> QED BY <2>1, AnswerOff
<1>3. r.id \in 1 .. Len(reqs) /\ trace[r.id] = <<>> /\ Len(trace) = Len(reqs) /\ Len(reqs) \in Nat
  <2> HIDE DEF r
  <2>1. r.id \in Unsettled(d)
    BY <1>2 DEF Unsettled
  <2> QED BY <1>1, <2>1 DEF Layer, Held, Typed
<1> HIDE DEF s, r
<1>4. /\ Fed(r) \in Seq(Seq(Entries)) /\ Len(Fed(r)) = Len(trace)
      /\ Fed(r)[r.id] # <<>> /\ Len(Fed(r)[r.id]) <= 1
      /\ \A id \in 1 .. Len(trace) : id # r.id => Fed(r)[id] = trace[id]
  BY <1>1, <1>2, <1>3, FedFacts
<1>5. /\ pc' = [pc EXCEPT ![d] = "Feed"] /\ resolved' = [resolved EXCEPT ![d] = Tail(@)]
      /\ UNCHANGED <<result, since, chain, running, serial, sibling, cancelled>>
  BY DEF Resume
<1>6. /\ \A m, n \in Machines : m # n => out[d][m] \cap out[d][n] = {}
      /\ \A m \in Machines : rest[d][m] = "Busy" <=> out[d][m] # {}
      /\ rest[d][Own] # "Idle" /\ Own \in Machines
  <2>1. Own \in Machines
    BY TreeAssumption, EmptySeq DEF Own, Machines, Range
  <2> QED BY <1>1, <2>1 DEF Layer, Awaits
<1>7. r.id = Head(resolved[d]).id
  BY DEF r, s
<1>8. CASE Waiting(d, r.id) = {} /\ trace' = Fed(r) /\ UNCHANGED <<pending, treeVars>>
  <2> DEFINE k == 0
  <2>1. k = 0 /\ k \in Nat /\ Len(reqs) + k <= MaxReqs /\ Fresh(k) = {}
    BY <1>1, <1>3 DEF Typed, Fresh
  <2> HIDE DEF k
  <2>2. Emits(d, k)
    BY <1>1, <1>3, <1>4, <1>8, <2>1 DEF Emits, Typed, treeVars
  <2>3. pending' = [pending EXCEPT ![d] = Extended(d, NewIds(k))]
    <3>1. pending[d] \in Seq(Ids) /\ NewIds(k) = <<>>
      BY <1>1, <2>1 DEF Typed, NewIds
    <3>2. Extended(d, NewIds(k)) = pending[d]
      BY <3>1, ConcatEmptySeq DEF Extended
    <3> QED BY <1>1, <1>8, <3>2 DEF Typed
  <2>4. \A m \in Machines : r.id \notin out[d][m]
    BY <1>8 DEF Waiting
  <2>5. UNCHANGED <<rest, out>>
    BY <1>8 DEF treeVars
  <2>6. out'[d][Own] \subseteq (out[d][Own] \ {r.id}) \cup Fresh(k)
    BY <1>6, <2>4, <2>5
  <2>7. /\ rest' \in [Layers -> [Machines -> {"Idle", "Busy", "Done", "Error"}]]
        /\ out' \in [Layers -> [Machines -> SUBSET Ids]]
    BY <1>1, <2>5 DEF Typed
  <2>8. /\ \A id \in 1 .. Len(reqs) : id # r.id => trace'[id] = trace[id]
        /\ trace'[r.id] # <<>> /\ Len(trace'[r.id]) <= 1
    BY <1>3, <1>4, <1>8
  <2>9. /\ \A e \in Layers \ {d} : rest'[e] = rest[e] /\ out'[e] = out[e]
        /\ \A m \in Machines \ {Own} : rest'[d][m] = rest[d][m] /\ out'[d][m] = out[d][m]
        /\ \A m \in Machines \ {Own} : r.id \notin out[d][m]
        /\ rest'[d][Own] = "Busy" <=> out'[d][Own] # {}
        /\ rest'[d][Own] # "Idle"
    BY <1>6, <2>4, <2>5
  <2>10. k \in Nat /\ Len(reqs) + k <= MaxReqs /\ Own \in Machines
    BY <1>6, <2>1
  <2>11. UNCHANGED <<result, since, chain, running, serial, sibling, cancelled>>
    BY <1>5
  <2>12. FedBack(d, r.id, k, Own)
    BY <1>5, <1>7, <2>2, <2>3, <2>6, <2>7, <2>8, <2>9, <2>10, <2>11 DEF FedBack
  <2> QED BY <2>10, <2>12, FedKeeps
<1>9. ASSUME NEW m \in Waiting(d, r.id), NEW kinds \in Replies(d, m, r), FedTo(d, r, m, kinds)
      PROVE  IInv'
  <2> USE <1>9
  <2> DEFINE k == Len(kinds)
             new == NewReqs(d, m, kinds)
             failed == reqs[r.id].kind = "Llm" /\ ~r.ok
             left == out[d][m] \ {r.id}
             wait == IF failed THEN {} ELSE left \cup Fresh(k)
             how == RestAfter(d, m, r, kinds)
  <2>1. kinds \in Seq(Kinds) /\ Len(reqs) + k <= MaxReqs /\ (failed => kinds = <<>>) /\ k \in Nat
    <3>1. m \in Machines
      BY DEF Waiting
    <3> QED BY <1>1, <1>2, <1>3, <3>1, RepliesFacts
  <2>2. m \in Machines /\ r.id \in out[d][m]
    BY DEF Waiting
  <2>3. Range(NewIds(k)) = Fresh(k)
    BY <1>1, <2>1, NewIdsFacts
  <2>4. /\ rest' = [rest EXCEPT ![d][m] = how] /\ out' = [out EXCEPT ![d][m] = wait]
        /\ pending' = [pending EXCEPT ![d] = Extended(d, NewIds(k))]
    BY <2>3 DEF FedTo
  <2>5. Appends(new, Fed(r), d, k)
    <3>1. new \in Seq(Requirement) /\ Len(new) = k /\ \A i \in 1 .. k : new[i].layer = d
      BY <2>1, <2>2 DEF NewReqs, Requirement
    <3> QED BY <1>4, <3>1 DEF Appends, FedTo
  <2>6. Emits(d, k) /\ \A id \in 1 .. Len(reqs) : trace'[id] = Fed(r)[id]
    BY <1>1, <2>1, <2>5, AppendsEmit
  <2>7. how \in {"Busy", "Done", "Error"} /\ (how = "Busy" <=> wait # {})
    <3>1. kinds # <<>> <=> Fresh(k) # {}
      <4>1. kinds # <<>> <=> k # 0
        BY <2>1, EmptySeq
      <4>2. k # 0 <=> Fresh(k) # {}
        <5>1. k # 0 => Len(reqs) + 1 \in Fresh(k)
          BY <1>3, <2>1 DEF Fresh
        <5>2. k = 0 => Fresh(k) = {}
          BY <1>3 DEF Fresh
        <5> QED BY <5>1, <5>2
      <4> QED BY <4>1, <4>2
    <3>2. CASE failed
      BY <3>2 DEF RestAfter
    <3>3. CASE ~failed
      BY <3>1, <3>3 DEF RestAfter
    <3> QED BY <3>2, <3>3
  <2>8. wait \subseteq left \cup Fresh(k) /\ wait \subseteq Ids
    <3>1. out[d][m] \subseteq Ids
      BY <1>1, <2>2 DEF Typed
    <3>2. Fresh(k) \subseteq Ids
      BY <1>3, <2>1, BoundsAssumption DEF Fresh, Ids
    <3> QED BY <3>1, <3>2
  <2> HIDE DEF wait, how, k, new
  <2>9. /\ rest' \in [Layers -> [Machines -> {"Idle", "Busy", "Done", "Error"}]]
        /\ out' \in [Layers -> [Machines -> SUBSET Ids]]
    BY <1>1, <2>2, <2>4, <2>7, <2>8 DEF Typed
  <2>10. /\ \A e \in Layers \ {d} : rest'[e] = rest[e] /\ out'[e] = out[e]
         /\ \A n \in Machines \ {m} : rest'[d][n] = rest[d][n] /\ out'[d][n] = out[d][n]
         /\ rest'[d][m] = how /\ out'[d][m] = wait
    BY <1>1, <2>2, <2>4 DEF Typed
  <2>11. \A n \in Machines \ {m} : r.id \notin out[d][n]
    BY <1>6, <2>2
  <2>12. /\ \A id \in 1 .. Len(reqs) : id # r.id => trace'[id] = trace[id]
         /\ trace'[r.id] # <<>> /\ Len(trace'[r.id]) <= 1
    BY <1>3, <1>4, <2>6
  <2>13. /\ out'[d][m] \subseteq (out[d][m] \ {r.id}) \cup Fresh(k)
         /\ rest'[d][m] = "Busy" <=> out'[d][m] # {}
         /\ rest'[d][m] # "Idle"
    BY <2>7, <2>8, <2>10
  <2>14. k \in Nat /\ Len(reqs) + k <= MaxReqs /\ m \in Machines /\ Emits(d, k)
    BY <2>1, <2>2, <2>6
  <2>15. pending' = [pending EXCEPT ![d] = Extended(d, NewIds(k))]
    BY <2>4
  <2>16. /\ \A e \in Layers \ {d} : rest'[e] = rest[e] /\ out'[e] = out[e]
         /\ \A n \in Machines \ {m} : rest'[d][n] = rest[d][n] /\ out'[d][n] = out[d][n]
    BY <2>10
  <2>17. FedBack(d, r.id, k, m)
    BY <1>5, <1>7, <2>9, <2>11, <2>12, <2>13, <2>14, <2>15, <2>16 DEF FedBack
  <2> QED BY <2>14, <2>17, FedKeeps
<1>10. \/ Waiting(d, r.id) = {} /\ trace' = Fed(r) /\ UNCHANGED <<pending, treeVars>>
       \/ \E m \in Waiting(d, r.id) : \E kinds \in Replies(d, m, r) : FedTo(d, r, m, kinds)
  BY DEF Resume, Fed, r, s, FedTo
<1> QED BY <1>8, <1>9, <1>10

LEMMA BudgetStopKeeps ==
    ASSUME IInv, NEW d \in Layers, pc[d] \in {"Feed", "Usage"}, BudgetStop(d)
    PROVE  IInv'
<1>1. Typed /\ Layer(d) /\ d \in Nat
  BY DEF IInv, Layers
<1> DEFINE hit == Interrupted(d)
           gone == [m \in Machines |-> IF m \in hit THEN {} ELSE out[d][m]]
           still == [m \in Machines |-> IF m \in hit THEN "Done" ELSE rest[d][m]]
           ids == Answered(d)
<1>2. /\ rest' = [rest EXCEPT ![d] = still] /\ out' = [out EXCEPT ![d] = gone]
      /\ UNCHANGED reqs
  BY DEF BudgetStop, interrupt_budget_exhausted
<1>3. /\ trace' = Recorded(ids, "NeverResumed")
      /\ resolved' = [resolved EXCEPT ![d] = <<>>] /\ pc' = [pc EXCEPT ![d] = "Loop"]
      /\ UNCHANGED <<result, since, chain, pending, running, serial, used, sibling, cancelled>>
  <2>1. {r.id : r \in Range(resolved[d])} = Answered(d)
    BY DEF Answered, Range
  <2> QED BY <2>1 DEF BudgetStop
<1>4. \A m \in Machines : gone[m] = {} /\ still[m] \in {"Done", "Error"}
  BY <1>1 DEF Layer, Awaits, Interrupted, Typed
<1>5. ids \subseteq Unsettled(d) /\ \A id \in ids : id \in 1 .. Len(reqs) /\ reqs[id].layer = d
  BY <1>1 DEF Layer, Held, Unsettled
<1>6. still \in [Machines -> {"Idle", "Busy", "Done", "Error"}] /\ gone \in [Machines -> SUBSET Ids]
  BY <1>4
<1> HIDE DEF gone, still
<1>7. /\ rest' \in [Layers -> [Machines -> {"Idle", "Busy", "Done", "Error"}]]
      /\ out' \in [Layers -> [Machines -> SUBSET Ids]]
      /\ \A e \in Layers \ {d} : rest'[e] = rest[e] /\ out'[e] = out[e]
      /\ out'[d] = gone /\ rest'[d] = still
  BY <1>1, <1>2, <1>6 DEF Typed
<1>8. "NeverResumed" \in Dispositions
  BY DEF Dispositions
<1>9. /\ trace' \in Seq(Seq(Entries)) /\ Len(trace') = Len(trace)
      /\ \A i \in 1 .. Len(trace) :
            /\ i \notin ids => trace'[i] = trace[i]
            /\ i \in ids => trace'[i] # <<>>
  BY <1>1, <1>3, <1>8, RecordedFacts
<1>10. SettledAtMostOnce' /\ NeverQuiesces'
  BY <1>3, <1>5, <1>8, SettledOnce DEF IInv, NeverQuiesces
<1>11. /\ Len(reqs) \in Nat /\ Len(trace) = Len(reqs) /\ DOMAIN reqs = 1 .. Len(reqs)
       /\ \A e \in Layers : Grows(e)
  BY <1>1, <1>2 DEF Typed, Grows
<1>12. Typed'
  <2>1. <<>> \in Seq(Resolution)
    OBVIOUS
  <2>2. /\ pc' \in [Layers -> {"Off", "Loop", "Batch", "Feed", "Usage", "Return"}]
        /\ resolved' \in [Layers -> Seq(Resolution)]
    BY <1>1, <1>3, <2>1 DEF Typed
  <2>3. reqs' \in Seq(Requirement) /\ Len(reqs') <= MaxReqs /\ Len(trace') = Len(reqs')
    BY <1>1, <1>2, <1>9 DEF Typed
  <2> QED BY <1>1, <1>3, <1>7, <1>9, <2>2, <2>3 DEF Typed
<1>13. /\ pc'[d] = "Loop" /\ resolved'[d] = <<>> /\ pending'[d] = pending[d]
       /\ running'[d] = running[d] /\ serial'[d] = serial[d] /\ since'[d] = since[d]
  BY <1>1, <1>3 DEF Typed
<1>14. Answered(d)' = {} /\ Unsettled(d)' = Range(pending[d]) /\ Range(pending[d]) \cap ids = {}
       /\ Unsettled(d) = Range(pending[d]) \cup ids
  BY <1>1, <1>13 DEF Answered, Unsettled, Layer, Queues
<1>15. ASSUME NEW e \in Layers, e # d PROVE Layer(e)'
  <2>1. Same(e)
    BY <1>1, <1>3, <1>5, <1>7, <1>9, <1>11, <1>15 DEF Same, Typed
  <2>2. Stacked(e)'
    <3> SUFFICES ASSUME e # 0, pc'[e] # "Off"
                 PROVE  pc'[e - 1] = "Batch" /\ running'[e - 1] = {} /\ serial'[e - 1] # <<>>
      BY DEF Stacked
    <3>1. e - 1 \in Layers
      BY <1>1, DepthAssumption DEF Layers
    <3>2. pc[e - 1] = "Batch" /\ running[e - 1] = {} /\ serial[e - 1] # <<>>
      BY <1>15, <2>1 DEF IInv, Layer, Stacked, Same
    <3>3. e - 1 # d
      BY <3>2
    <3> QED BY <1>1, <1>3, <3>1, <3>2, <3>3 DEF Typed
  <2> QED BY <1>12, <2>1, <2>2, SameKeeps
<1>16. Layer(d)'
  <2>1. Queues(d)'
    BY <1>1, <1>13, <1>14 DEF Layer, Queues
  <2>2. Held(d)'
    <3> SUFFICES ASSUME NEW id \in Range(pending[d])
                 PROVE  id \in 1 .. Len(reqs') /\ reqs'[id].layer = d /\ trace'[id] = <<>>
      BY <1>14 DEF Held
    <3>1. id \in 1 .. Len(reqs) /\ reqs[id].layer = d /\ trace[id] = <<>> /\ id \notin ids
      BY <1>1, <1>14 DEF Layer, Held
    <3> QED BY <1>2, <1>9, <1>11, <3>1
  <2>3. Covered(d)'
    <3> SUFFICES ASSUME NEW id \in Emitted(d)
                 PROVE  trace'[id] # <<>> \/ id \in Unsettled(d)'
      BY <1>2, <1>13 DEF Covered, Emitted
    <3>1. id \in 1 .. Len(trace)
      BY <1>11 DEF Emitted
    <3>2. trace[id] # <<>> \/ id \in Unsettled(d)
      BY <1>1 DEF Layer, Covered
    <3> QED BY <1>9, <1>14, <3>1, <3>2
  <2>4. Awaits(d)'
    <3>1. Own \in Machines
      BY TreeAssumption, EmptySeq DEF Own, Machines, Range
    <3> QED BY <1>4, <1>7, <1>13, <3>1 DEF Awaits
  <2>5. Stacked(d)'
    <3> SUFFICES ASSUME d # 0
                 PROVE  pc'[d - 1] = "Batch" /\ running'[d - 1] = {} /\ serial'[d - 1] # <<>>
      BY DEF Stacked
    <3>1. d - 1 \in Layers /\ d - 1 # d
      BY <1>1, DepthAssumption DEF Layers
    <3> QED BY <1>1, <1>3, <3>1 DEF Layer, Stacked, Typed
  <2> QED BY <2>1, <2>2, <2>3, <2>4, <2>5 DEF Layer
<1> QED BY <1>10, <1>12, <1>15, <1>16 DEF IInv

LEMMA FeedStepsKeep ==
    ASSUME IInv, NEW d \in Layers,
           FeedEnds(d) \/ FeedFree(d) \/ ChargeStep(d) \/ ChargeUsage(d)
    PROVE  IInv'
<1>1. Typed /\ Layer(d)
  BY DEF IInv
<1>2. /\ used \in [steps: 0 .. MaxSteps, tokens: 0 .. MaxTokens]
      /\ used.steps \in Nat /\ used.tokens \in Nat
  BY <1>1 DEF Typed
<1>3. CASE FeedEnds(d)
  BY <1>2, <1>3, FeedMovesKeep DEF FeedEnds
<1>4. CASE FeedFree(d)
  BY <1>2, <1>4, ResumeKeeps DEF FeedFree
<1>5. CASE ChargeStep(d)
  <2>1. ASSUME NEW c \in Charged(used.steps, 1, MaxSteps), used' = [used EXCEPT !.steps = c]
        PROVE  used' \in [steps: 0 .. MaxSteps, tokens: 0 .. MaxTokens]
    <3>1. c \in 0 .. MaxSteps
      BY <1>2, BoundsAssumption DEF Charged
    <3> QED BY <1>2, <2>1, <3>1
  <2> QED BY <1>5, <2>1, FeedMovesKeep, BudgetStopKeeps DEF ChargeStep
<1>6. CASE ChargeUsage(d)
  <2> DEFINE u == Head(resolved[d]).usage
  <2>1. u \in Nat /\ pc[d] = "Usage" /\ resolved[d] # <<>>
    <3>1. resolved[d] \in Seq(Resolution) /\ resolved[d] # <<>> /\ pc[d] = "Usage"
      BY <1>1, <1>6 DEF Typed, ChargeUsage, Layer, Queues
    <3>2. Head(resolved[d]) \in Resolution
      BY <3>1, HeadTailProperties
    <3>3. u \in Usages \cup {0}
      BY <3>2 DEF Resolution
    <3>4. Usages \subseteq Nat
      BY RepliesAssumption
    <3> HIDE DEF u
    <3>5. u \in Nat
      BY <3>3, <3>4
    <3> QED BY <3>1, <3>5
  <2>2. ASSUME NEW c \in Charged(used.tokens, u, MaxTokens), used' = [used EXCEPT !.tokens = c]
        PROVE  used' \in [steps: 0 .. MaxSteps, tokens: 0 .. MaxTokens]
    <3> HIDE DEF u
    <3>1. c \in 0 .. MaxTokens
      BY <1>2, <2>1, BoundsAssumption DEF Charged
    <3> QED BY <1>2, <2>2, <3>1
  <2> HIDE DEF u
  <2>3. \/ \E c \in Charged(used.tokens, u, MaxTokens) :
              used' = [used EXCEPT !.tokens = c] /\ Resume(d)
        \/ BudgetStop(d)
    BY <1>6 DEF ChargeUsage, u
  <2> QED BY <2>1, <2>2, <2>3, ResumeKeeps, BudgetStopKeeps
<1> QED BY <1>3, <1>4, <1>5, <1>6

LEMMA MinFacts ==
    ASSUME NEW S, S \subseteq Nat, S # {}
    PROVE  Min(S) \in S
<1>1. IsWellFoundedOn(OpToRel(<, Nat), Nat)
  BY NatLessThanWellFounded, Zenon
<1>2. PICK m \in S : \A n \in S : ~(<<n, m>> \in OpToRel(<, Nat))
  BY <1>1, WFMin, Zenon
<1>3. \A n \in S : ~(n < m)
  BY <1>2 DEF OpToRel
<1>4. \A n \in S : m <= n
  BY <1>3
<1> QED BY <1>4 DEF Min

(* The machines the opening input starts, but those that fail at once. *)
LEMMA StartedFacts ==
    ASSUME NEW d \in Layers
    PROVE  Started(d) \in Seq(Machines) /\ Own \in Range(Started(d)) /\ Own \in Machines
<1>1. Own \in Machines
  BY TreeAssumption, EmptySeq DEF Own, Machines, Range
<1>2. Tree \in Seq(Machines) /\ <<Own>> \in Seq(Machines)
  BY <1>1, TreeAssumption DEF Machines
<1>3. Own \in Range(<<Own>>)
  BY DEF Range
<1> QED BY <1>1, <1>2, <1>3 DEF Started, Machines

LEMMA BeginKeeps ==
    ASSUME IInv, NEW d \in Layers, pc[d] = "Off",
           d # 0 => pc[d - 1] = "Batch" /\ running[d - 1] = {} /\ serial[d - 1] # <<>>,
           NEW scopes \in Seq(Layers), NEW failed, Begin(d, scopes, failed)
    PROVE  IInv'
<1>1. Typed /\ Layer(d) /\ d \in Nat
  BY DEF IInv, Layers
<1> DEFINE fresh == Among(Started(d), Machines \ failed)
           k == Len(fresh)
           new == [i \in 1 .. k |-> [kind |-> "Llm", layer |-> d, machine |-> fresh[i]]]
           q == NewIds(k)
           waits(m) == {Len(reqs) + i : i \in {j \in 1 .. k : fresh[j] = m}}
           wait == [m \in Machines |-> waits(m)]
           how == [m \in Machines |-> IF m \in failed THEN "Error"
                                      ELSE IF m \in Range(fresh) THEN "Busy" ELSE "Idle"]
<1>2. /\ fresh \in Seq(Machines) /\ Range(fresh) = Range(Started(d)) \cap (Machines \ failed)
      /\ Own \in Range(Started(d)) /\ Own \in Machines
  <2> DEFINE st == Started(d)
  <2>1. st \in Seq(Machines) /\ Own \in Range(st) /\ Own \in Machines
    BY StartedFacts
  <2> HIDE DEF st
  <2>2. /\ Among(st, Machines \ failed) \in Seq(Machines)
        /\ Range(Among(st, Machines \ failed)) = Range(st) \cap (Machines \ failed)
    BY <2>1, AmongFacts
  <2> QED BY <2>1, <2>2 DEF st
<1>3. /\ pc' = [pc EXCEPT ![d] = "Loop"] /\ result' = [result EXCEPT ![d] = "None"]
      /\ since' = [since EXCEPT ![d] = Len(reqs)] /\ chain' = [chain EXCEPT ![d] = scopes]
      /\ pending' = [pending EXCEPT ![d] = q]
      /\ rest' = [rest EXCEPT ![d] = how] /\ out' = [out EXCEPT ![d] = wait]
      /\ UNCHANGED <<running, serial, resolved, used, sibling, cancelled>>
      /\ Len(reqs) + k <= MaxReqs
  BY DEF Begin
<1>4. reqs' = reqs \o new /\ trace' = trace \o [i \in 1 .. Len(new) |-> <<>>]
  BY DEF Begin
<1> HIDE DEF fresh
<1>5. /\ k \in Nat /\ DOMAIN fresh = 1 .. k /\ Len(reqs) \in Nat
      /\ \A i \in 1 .. k : fresh[i] \in Machines
  BY <1>1, <1>2 DEF Typed
<1>6. new \in Seq(Requirement) /\ Len(new) = k /\ \A i \in 1 .. k : new[i].layer = d
  BY <1>5 DEF Requirement, Kinds
<1> HIDE DEF new
<1>7. Appends(new, trace, d, k)
  BY <1>1, <1>4, <1>6 DEF Appends, Typed
<1>8. Emits(d, k) /\ \A id \in 1 .. Len(reqs) : trace'[id] = trace[id]
  BY <1>1, <1>3, <1>5, <1>7, AppendsEmit
<1>9. /\ Len(trace) = Len(reqs) /\ DOMAIN reqs = 1 .. Len(reqs)
      /\ DOMAIN reqs' = 1 .. (Len(reqs) + k) /\ DOMAIN trace' = 1 .. (Len(reqs) + k)
      /\ 1 .. (Len(reqs) + k) = (1 .. Len(reqs)) \cup Fresh(k)
      /\ (1 .. Len(reqs)) \cap Fresh(k) = {}
      /\ \A e \in Layers \ {d} : Grows(e)
  BY <1>1, <1>5, <1>8, EmitsFacts
<1>10. q \in Seq(Ids) /\ Range(q) = Fresh(k) /\ Distinct(q)
  BY <1>1, <1>3, <1>5, NewIdsFacts
<1>11. \A m \in Machines : waits(m) \subseteq Fresh(k) /\ (waits(m) # {} <=> m \in Range(fresh))
  <2> TAKE m \in Machines
  <2>1. waits(m) \subseteq Fresh(k)
    BY <1>5 DEF Fresh
  <2>2. m \in Range(fresh) <=> \E i \in 1 .. k : fresh[i] = m
    BY <1>5 DEF Range
  <2> QED BY <2>1, <2>2
<1>12. \A m, n \in Machines : m # n => waits(m) \cap waits(n) = {}
  BY <1>5
<1>13. Fresh(k) \subseteq Ids
  BY <1>3, <1>5, BoundsAssumption DEF Fresh, Ids
<1>14. /\ \A m \in Machines : wait[m] = waits(m)
       /\ wait \in [Machines -> SUBSET Ids]
  BY <1>11, <1>13
<1>15. /\ how \in [Machines -> {"Idle", "Busy", "Done", "Error"}]
       /\ \A m \in Machines : how[m] = "Busy" <=> m \in Range(fresh)
       /\ how[Own] # "Idle"
  BY <1>2
<1> HIDE DEF q, waits, wait, how, k
<1>16. Typed'
  <2>1. /\ pc' \in [Layers -> {"Off", "Loop", "Batch", "Feed", "Usage", "Return"}]
        /\ result' \in [Layers -> {"None", "Ok", "Cancelled", "Err", "Quiesced"}]
    BY <1>1, <1>3 DEF Typed
  <2>2. since' \in [Layers -> 0 .. MaxReqs]
    <3>1. Len(reqs) \in 0 .. MaxReqs
      BY <1>1, <1>5, BoundsAssumption DEF Typed
    <3> QED BY <1>1, <1>3, <3>1 DEF Typed
  <2>3. chain' \in [Layers -> Seq(Layers)] /\ pending' \in [Layers -> Seq(Ids)]
    BY <1>1, <1>3, <1>10 DEF Typed
  <2>4. rest' \in [Layers -> [Machines -> {"Idle", "Busy", "Done", "Error"}]]
    BY <1>1, <1>3, <1>15 DEF Typed
  <2>5. out' \in [Layers -> [Machines -> SUBSET Ids]]
    BY <1>1, <1>3, <1>14 DEF Typed
  <2>6. reqs' \in Seq(Requirement) /\ trace' \in Seq(Seq(Entries)) /\ Len(reqs') <= MaxReqs
        /\ Len(trace') = Len(reqs')
    BY <1>3, <1>8 DEF Emits
  <2> QED BY <1>1, <1>3, <2>1, <2>2, <2>3, <2>4, <2>5, <2>6 DEF Typed
<1>17. SettledAtMostOnce'
  <2>1. Len(<<>>) = 0
    OBVIOUS
  <2>2. ASSUME NEW id \in 1 .. Len(reqs) PROVE Len(trace'[id]) <= 1
    <3>1. id \in DOMAIN trace
      BY <1>1, <1>9 DEF Typed
    <3> QED BY <1>8, <3>1 DEF IInv, SettledAtMostOnce
  <2>3. ASSUME NEW id \in Fresh(k) PROVE Len(trace'[id]) <= 1
    BY <1>8, <2>1 DEF Emits
  <2> QED BY <1>9, <2>2, <2>3 DEF SettledAtMostOnce
<1>18. NeverQuiesces'
  BY <1>1, <1>3 DEF IInv, NeverQuiesces, Typed
<1>19. ASSUME NEW e \in Layers, e # d PROVE Layer(e)'
  <2>1. Same(e)
    BY <1>1, <1>3, <1>8, <1>9, <1>19 DEF Same, Typed
  <2>2. Stacked(e)'
    <3> SUFFICES ASSUME e # 0, pc'[e] # "Off"
                 PROVE  pc'[e - 1] = "Batch" /\ running'[e - 1] = {} /\ serial'[e - 1] # <<>>
      BY DEF Stacked
    <3>1. e - 1 \in Layers
      BY <1>1, DepthAssumption DEF Layers
    <3>2. pc[e - 1] = "Batch" /\ running[e - 1] = {} /\ serial[e - 1] # <<>>
      BY <1>19, <2>1 DEF IInv, Layer, Stacked, Same
    <3>3. e - 1 # d
      BY <3>2
    <3> QED BY <1>1, <1>3, <3>1, <3>2, <3>3 DEF Typed
  <2> QED BY <1>16, <2>1, <2>2, SameKeeps
<1>20. /\ pc'[d] = "Loop" /\ pending'[d] = q /\ since'[d] = Len(reqs)
       /\ rest'[d] = how /\ out'[d] = wait
       /\ running'[d] = {} /\ serial'[d] = <<>> /\ resolved'[d] = <<>>
  BY <1>1, <1>3 DEF Typed, Layer, Queues
<1>21. Answered(d)' = {} /\ Unsettled(d)' = Fresh(k)
  <2>1. Answered(d)' = {}
    BY <1>20 DEF Answered
  <2>2. Range(pending'[d]) = Range(q)
    BY <1>20, Zenon
  <2> QED BY <1>10, <2>1, <2>2 DEF Unsettled
<1>22. Queues(d)'
  <2>1. Distinct(<<>>)
    BY DEF Distinct
  <2>2. Distinct(pending'[d]) /\ Distinct(serial'[d])
    BY <1>10, <1>20, <2>1, Zenon
  <2>3. DOMAIN resolved'[d] = {}
    BY <1>20
  <2> QED BY <1>20, <1>21, <2>2, <2>3 DEF Queues
<1>23. Held(d)'
  BY <1>9, <1>8, <1>21 DEF Held, Emits
<1>24. Covered(d)'
  <2> SUFFICES ASSUME NEW id \in Emitted(d)' PROVE id \in Unsettled(d)'
    BY DEF Covered
  <2>1. id \in (1 .. Len(reqs)) \cup Fresh(k) /\ id > Len(reqs)
    BY <1>9, <1>20 DEF Emitted
  <2> QED BY <1>5, <1>21, <2>1
<1>25. Awaits(d)'
  <2>1. \A m \in Machines : /\ out'[d][m] \subseteq Unsettled(d)'
                            /\ rest'[d][m] = "Busy" <=> out'[d][m] # {}
    BY <1>11, <1>14, <1>15, <1>20, <1>21
  <2>2. \A m, n \in Machines : m # n => out'[d][m] \cap out'[d][n] = {}
    BY <1>12, <1>14, <1>20
  <2>3. \A m \in Machines : out'[d][m] \subseteq 1 .. Len(reqs')
    BY <1>8, <1>9, <1>11, <1>14, <1>20 DEF Emits
  <2> QED BY <1>15, <1>20, <2>1, <2>2, <2>3 DEF Awaits
<1>26. Stacked(d)'
  <2> SUFFICES ASSUME d # 0
               PROVE  pc'[d - 1] = "Batch" /\ running'[d - 1] = {} /\ serial'[d - 1] # <<>>
    BY DEF Stacked
  <2>1. d - 1 \in Layers /\ d - 1 # d
    BY <1>1, DepthAssumption DEF Layers
  <2> QED BY <1>1, <1>3, <2>1 DEF Typed
<1> QED BY <1>16, <1>17, <1>18, <1>19, <1>22, <1>23, <1>24, <1>25, <1>26 DEF IInv, Layer

LEMMA DriveRootKeeps ==
    ASSUME IInv, DriveRoot
    PROVE  IInv'
<1>1. 0 \in Layers /\ pc[0] = "Off"
  BY DepthAssumption DEF Layers, DriveRoot
<1>2. PICK failed \in SUBSET Machines : Begin(0, <<0>>, failed)
  BY DEF DriveRoot
<1>3. <<0>> \in Seq(Layers)
  BY <1>1
<1> QED BY <1>1, <1>2, <1>3, BeginKeeps

LEMMA SpawnKeeps ==
    ASSUME IInv, NEW d \in Layers, SpawnSubagent(d)
    PROVE  IInv'
<1>1. Typed /\ d \in Nat /\ d + 1 \in Layers /\ d + 1 > d
  BY DepthAssumption DEF IInv, Layers, SpawnSubagent
<1>2. pc[d] = "Batch" /\ running[d] = {} /\ serial[d] # <<>> /\ pc[d + 1] = "Off"
  BY <1>1 DEF SpawnSubagent, AtSubagent, AtSerial, Deepest
<1> DEFINE S == Servers(d, "Subagent")
           c == chain[d]
           k == Min(S)
           tail == SubSeq(c, k, Len(c))
           scopes == <<d + 1>> \o tail
<1>3. c \in Seq(Layers)
  BY <1>1 DEF Typed
<1>4. S \subseteq 1 .. Len(c) /\ S # {}
  BY DEF Servers, SpawnSubagent, AtSubagent
<1> HIDE DEF S, c
<1>5. Len(c) \in Nat /\ \A i \in 1 .. Len(c) : c[i] \in Layers
  BY <1>3
<1>6. k \in 1 .. Len(c)
  <2>1. S \subseteq Nat
    BY <1>4, <1>5
  <2>2. k \in S
    BY <1>4, <2>1, MinFacts
  <2> QED BY <1>4, <2>2
<1> HIDE DEF k
<1>7. tail \in Seq(Layers)
  <2>1. k \in Int /\ Len(c) \in Int /\ \A i \in k .. Len(c) : c[i] \in Layers
    BY <1>5, <1>6
  <2> QED BY <2>1, SubSeqProperties
<1>8. scopes \in Seq(Layers)
  <2>1. <<d + 1>> \in Seq(Layers)
    BY <1>1
  <2> HIDE DEF tail
  <2> QED BY <1>7, <2>1, ConcatProperties
<1>9. PICK failed \in SUBSET {Own} : Begin(d + 1, scopes, failed)
  BY DEF SpawnSubagent, scopes, tail, k, S, c
<1> HIDE DEF scopes
<1>10. (d + 1) - 1 = d
  BY <1>1
<1> QED BY <1>1, <1>2, <1>8, <1>9, <1>10, BeginKeeps

-----------------------------------------------------------------------------
(***************************************************************************)
(* The theorem.                                                            *)
(***************************************************************************)

LEMMA InitHolds == Init => IInv
<1> SUFFICES ASSUME Init PROVE IInv
  OBVIOUS
<1>1. <<>> \in Seq(Ids) /\ <<>> \in Seq(Resolution) /\ <<>> \in Seq(Requirement)
      /\ <<>> \in Seq(Seq(Entries)) /\ Len(<<>>) = 0
  OBVIOUS
<1>2. 0 \in 0 .. MaxReqs /\ 0 \in 0 .. MaxSteps /\ 0 \in 0 .. MaxTokens /\ 0 \in 0 .. MaxSibling
  BY BoundsAssumption
<1>3. Typed
  <2>1. /\ pc \in [Layers -> {"Off", "Loop", "Batch", "Feed", "Usage", "Return"}]
        /\ result \in [Layers -> {"None", "Ok", "Cancelled", "Err", "Quiesced"}]
        /\ since \in [Layers -> 0 .. MaxReqs]
    BY <1>2 DEF Init
  <2>2. \A d \in Layers : <<d>> \in Seq(Layers)
    OBVIOUS
  <2>3. chain \in [Layers -> Seq(Layers)]
    BY <2>2 DEF Init
  <2>4. /\ pending \in [Layers -> Seq(Ids)] /\ running \in [Layers -> SUBSET Ids]
        /\ serial \in [Layers -> Seq(Ids)] /\ resolved \in [Layers -> Seq(Resolution)]
    BY <1>1 DEF Init
  <2>5. /\ rest \in [Layers -> [Machines -> {"Idle", "Busy", "Done", "Error"}]]
        /\ out \in [Layers -> [Machines -> SUBSET Ids]]
    BY DEF Init
  <2>6. /\ reqs \in Seq(Requirement) /\ Len(reqs) <= MaxReqs
        /\ trace \in Seq(Seq(Entries)) /\ Len(trace) = Len(reqs)
    BY <1>1, BoundsAssumption DEF Init
  <2>7. /\ used \in [steps: 0 .. MaxSteps, tokens: 0 .. MaxTokens]
        /\ sibling \in 0 .. MaxSibling /\ cancelled \in BOOLEAN
    BY <1>2 DEF Init
  <2> QED BY <2>1, <2>3, <2>4, <2>5, <2>6, <2>7 DEF Typed
<1>4. SettledAtMostOnce /\ NeverQuiesces
  BY DEF Init, SettledAtMostOnce, NeverQuiesces
<1>5. ASSUME NEW d \in Layers PROVE Layer(d)
  <2>1. /\ pc[d] = "Off" /\ pending[d] = <<>> /\ running[d] = {} /\ serial[d] = <<>>
        /\ resolved[d] = <<>> /\ \A m \in Machines : out[d][m] = {}
    BY DEF Init
  <2>2. DOMAIN pending[d] = {} /\ DOMAIN serial[d] = {} /\ DOMAIN resolved[d] = {}
    BY <2>1
  <2>3. Unsettled(d) = {} /\ Answered(d) = {}
    BY <2>2 DEF Unsettled, Answered, Range
  <2> QED BY <2>1, <2>2, <2>3 DEF Layer, Queues, Held, Covered, Awaits, Stacked, Distinct
<1> QED BY <1>3, <1>4, <1>5 DEF IInv

LEMMA NextKeeps == IInv /\ [Next]_vars => IInv'
<1> SUFFICES ASSUME IInv, [Next]_vars PROVE IInv'
  OBVIOUS
<1>1. Typed
  BY DEF IInv
<1>2. CASE DriveRoot
  BY <1>2, DriveRootKeeps
<1>3. ASSUME NEW d \in Layers, DriverStep(d) PROVE IInv'
  <2>1. CASE LoopEnds(d)
    BY <2>1, LoopEndsKeeps
  <2>2. CASE LoopCancelled(d) \/ GraceExpires(d) \/ BatchCancelled(d)
    BY <2>2, CancelledKeeps
  <2>3. CASE LoopExhausted(d)
    BY <2>3, LoopExhaustedKeeps
  <2>4. CASE LoopFulfils(d)
    BY <2>4, LoopFulfilsKeeps
  <2>5. CASE BatchCompleted(d)
    BY <2>5, BatchCompletedKeeps
  <2>6. CASE SubagentReturns(d)
    BY <2>6, SerialStepsKeep
  <2>7. CASE FeedEnds(d) \/ FeedFree(d) \/ ChargeStep(d) \/ ChargeUsage(d)
    BY <2>7, FeedStepsKeep
  <2> QED BY <1>3, <2>1, <2>2, <2>3, <2>4, <2>5, <2>6, <2>7 DEF DriverStep
<1>4. ASSUME NEW d \in Layers, HandlerStep(d) PROVE IInv'
  <2>1. ASSUME NEW id \in running[d], HandlerReturns(d, id) PROVE IInv'
    BY <2>1, HandlerReturnsKeeps
  <2>2. ASSUME NEW id \in running[d], HandlerMisaligned(d, id) PROVE IInv'
    BY <2>2, ReturnsUnchanged DEF HandlerMisaligned
  <2>3. CASE PoppedReturns(d) \/ SubagentRefused(d)
    BY <2>3, SerialStepsKeep
  <2>4. CASE SerialFails(d)
    BY <2>4, ReturnsUnchanged DEF SerialFails, AtSerial
  <2>5. CASE SpawnSubagent(d)
    BY <2>5, SpawnKeeps
  <2> QED BY <1>4, <2>1, <2>2, <2>3, <2>4, <2>5 DEF HandlerStep
<1>5. ASSUME UNCHANGED <<driverVars, treeVars, trace>>,
             used' \in [steps: 0 .. MaxSteps, tokens: 0 .. MaxTokens],
             sibling' \in 0 .. MaxSibling, cancelled' \in BOOLEAN
      PROVE  IInv'
  <2>1. UNCHANGED <<pc, result, since, chain, pending, running, serial, resolved,
                    rest, out, reqs, trace>>
    BY <1>5 DEF driverVars, treeVars
  <2>2. Typed' /\ SettledAtMostOnce' /\ NeverQuiesces'
    BY <1>5, <2>1 DEF IInv, Typed, SettledAtMostOnce, NeverQuiesces
  <2>3. ASSUME NEW d \in Layers PROVE Layer(d)'
    <3>1. Layer(d) /\ Unsettled(d)' = Unsettled(d) /\ Answered(d)' = Answered(d)
          /\ Emitted(d)' = Emitted(d)
      BY <2>1 DEF IInv, Unsettled, Answered, Emitted
    <3> QED BY <2>1, <3>1 DEF Layer, Queues, Held, Covered, Awaits, Stacked
  <2> QED BY <2>2, <2>3 DEF IInv
<1>6. CASE Cancel
  BY <1>1, <1>5, <1>6 DEF Cancel, Typed
<1>7. CASE SiblingCharges
  <2>1. PICK c \in Charged(used.tokens, 1, MaxTokens) : used' = [used EXCEPT !.tokens = c]
    BY <1>7 DEF SiblingCharges
  <2>2. used \in [steps: 0 .. MaxSteps, tokens: 0 .. MaxTokens] /\ used.tokens \in Nat
    BY <1>1 DEF Typed
  <2>3. c \in 0 .. MaxTokens
    BY <2>1, <2>2, BoundsAssumption DEF Charged
  <2>4. used' \in [steps: 0 .. MaxSteps, tokens: 0 .. MaxTokens]
    BY <2>1, <2>2, <2>3
  <2>5. sibling \in Nat /\ sibling < MaxSibling /\ sibling' = sibling + 1
    BY <1>1, <1>7 DEF Typed, SiblingCharges
  <2>6. sibling' \in 0 .. MaxSibling
    <3>1. sibling + 1 \in 0 .. MaxSibling
      BY <2>5, BoundsAssumption
    <3> QED BY <2>5, <3>1
  <2> QED BY <1>1, <1>5, <1>7, <2>4, <2>6 DEF SiblingCharges, Typed
<1>8. CASE UNCHANGED vars
  BY <1>1, <1>5, <1>8 DEF vars, Typed
<1> QED BY <1>2, <1>3, <1>4, <1>6, <1>7, <1>8 DEF Next

(* Whatever the handlers answer and in whatever order they do, and         *)
(* whenever the run is cancelled or its budget is charged by another       *)
(* context: a requirement is settled at most once, a drain that ends a     *)
(* turn has settled all it emitted and leaves no machine of its tree       *)
(* waiting, and none stalls short of a terminal cursor.                    *)
THEOREM SettlementCorrect == Spec => []SettlementInv
<1>1. Init => IInv
  BY InitHolds
<1>2. IInv /\ [Next]_vars => IInv'
  BY NextKeeps
<1>3. IInv => SettlementInv
  BY IInvImplies
<1> QED BY <1>1, <1>2, <1>3, PTL DEF Spec

-----------------------------------------------------------------------------
(***************************************************************************)
(* The ledger.  LedgerMatchesFeeds is not inductive either: Books adds     *)
(* that an answer with a usage is one that is charged for, and that each   *)
(* layer between the two charges has paid a step for a reply not yet fed.  *)
(***************************************************************************)

(* One step of the sum. *)
SumStep(g, f, i) == IF i = 0 THEN 0 ELSE g[i - 1] + f[i]

Sums(f, n) == CHOOSE g : g = [i \in 0 .. n |-> SumStep(g, f, i)]

(* The recursive function of SumTo exists. *)
LEMMA SumsExist ==
    ASSUME NEW f, NEW n \in Nat
    PROVE  Sums(f, n) = [i \in 0 .. n |-> SumStep(Sums(f, n), f, i)]
<1> DEFINE P == {k \in Nat : \E g : g = [i \in 0 .. k |-> SumStep(g, f, i)]}
<1>1. 0 \in P
  <2> DEFINE g == [i \in 0 .. 0 |-> 0]
  <2>1. g = [i \in 0 .. 0 |-> SumStep(g, f, i)]
    BY DEF SumStep
  <2> HIDE DEF g
  <2> QED BY <2>1
<1>2. ASSUME NEW k \in P PROVE k + 1 \in P
  <2>1. k \in Nat /\ k + 1 \in Nat
    OBVIOUS
  <2>2. PICK g : g = [i \in 0 .. k |-> SumStep(g, f, i)]
    OBVIOUS
  <2> DEFINE h == [i \in 0 .. (k + 1) |-> SumStep(g, f, i)]
  <2>3. \A i \in 0 .. k : h[i] = g[i]
    BY <2>1, <2>2
  <2> HIDE DEF P
  <2>4. ASSUME NEW i \in 0 .. (k + 1) PROVE SumStep(g, f, i) = SumStep(h, f, i)
    <3> HIDE DEF h
    <3>1. CASE i = 0
      BY <3>1 DEF SumStep
    <3>2. CASE i # 0
      <4>1. i - 1 \in 0 .. k
        BY <3>2, <2>1
      <4> QED BY <4>1, <2>3 DEF SumStep
    <3> QED BY <3>1, <3>2
  <2>5. h = [i \in 0 .. (k + 1) |-> SumStep(h, f, i)]
    BY <2>4
  <2> HIDE DEF h
  <2> QED BY <2>1, <2>5 DEF P
<1>3. P = Nat
  <2>1. P \subseteq Nat
    OBVIOUS
  <2> HIDE DEF P
  <2> QED BY <1>1, <1>2, <2>1, Induction
<1> QED BY <1>3 DEF Sums

LEMMA SumsFacts ==
    ASSUME NEW n \in Nat, NEW f, \A i \in 1 .. n : f[i] \in Nat
    PROVE  /\ SumTo(f, n) = Sums(f, n)[n] /\ Sums(f, n)[0] = 0
           /\ \A i \in 1 .. n : Sums(f, n)[i] = Sums(f, n)[i - 1] + f[i]
           /\ \A i \in 0 .. n : Sums(f, n)[i] \in Nat
<1> DEFINE g == Sums(f, n)
<1>1. SumTo(f, n) = g[n]
  BY DEF SumTo, Sums, SumStep
<1>2. g = [i \in 0 .. n |-> SumStep(g, f, i)]
  BY SumsExist
<1> HIDE DEF g
<1>3. \A i \in 0 .. n : g[i] = SumStep(g, f, i)
  BY <1>2
<1>4. g[0] = 0
  BY <1>3 DEF SumStep
<1>5. ASSUME NEW i \in 1 .. n PROVE g[i] = g[i - 1] + f[i]
  <2>1. i \in 0 .. n /\ i # 0
    OBVIOUS
  <2> QED BY <1>3, <2>1 DEF SumStep
<1> DEFINE P == {i \in Nat : i <= n => g[i] \in Nat}
<1>6. P = Nat
  <2>1. P \subseteq Nat /\ 0 \in P
    BY <1>4
  <2>2. ASSUME NEW i \in P PROVE i + 1 \in P
    <3>1. i \in Nat /\ (i <= n => g[i] \in Nat)
      OBVIOUS
    <3>2. ASSUME i + 1 <= n PROVE g[i + 1] \in Nat
      <4>1. i + 1 \in 1 .. n /\ (i + 1) - 1 = i /\ i <= n
        BY <3>1, <3>2
      <4>2. g[i + 1] = g[i] + f[i + 1]
        BY <1>5, <4>1
      <4>3. f[i + 1] \in Nat /\ g[i] \in Nat
        BY <3>1, <4>1
      <4> QED BY <4>2, <4>3
    <3> QED BY <3>1, <3>2
  <2> HIDE DEF P
  <2> QED BY <2>1, <2>2, Induction
<1>7. ASSUME NEW i \in 0 .. n PROVE g[i] \in Nat
  <2>1. i \in P /\ i <= n
    BY <1>6
  <2> QED BY <2>1
<1> QED BY <1>1, <1>4, <1>5, <1>7 DEF g

(* The same numbers, but for x more at j and zeros after them. *)
Raised(f, n, g, m, j, x) ==
    /\ \A i \in 1 .. n : f[i] \in Nat
    /\ \A i \in 1 .. m : g[i] \in Nat
    /\ \A i \in 1 .. n : i # j => g[i] = f[i]
    /\ j \in 1 .. n => g[j] = f[j] + x
    /\ \A i \in 1 .. m : i > n => g[i] = 0

LEMMA SumRaised ==
    ASSUME NEW n \in Nat, NEW m \in Nat, n <= m, NEW j \in Nat, NEW x \in Nat,
           NEW f, NEW g, Raised(f, n, g, m, j, x), j \notin 1 .. n => x = 0
    PROVE  SumTo(g, m) = SumTo(f, n) + x
<1> DEFINE F == Sums(f, n)
           G == Sums(g, m)
<1>1. /\ SumTo(f, n) = F[n] /\ F[0] = 0
      /\ \A i \in 1 .. n : F[i] = F[i - 1] + f[i]
      /\ \A i \in 0 .. n : F[i] \in Nat
  BY SumsFacts DEF Raised
<1>2. /\ SumTo(g, m) = G[m] /\ G[0] = 0
      /\ \A i \in 1 .. m : G[i] = G[i - 1] + g[i]
      /\ \A i \in 0 .. m : G[i] \in Nat
  BY SumsFacts DEF Raised
<1> HIDE DEF F, G
<1> DEFINE P == {i \in Nat : i <= n => (i < j => G[i] = F[i]) /\ (i >= j => G[i] = F[i] + x)}
           Q == {i \in Nat : n + i <= m => G[n + i] = F[n] + x}
<1>3. 0 \in P
  BY <1>1, <1>2
<1>4. ASSUME NEW i \in P PROVE i + 1 \in P
  <2>1. i \in Nat /\ (i <= n => (i < j => G[i] = F[i]) /\ (i >= j => G[i] = F[i] + x))
    OBVIOUS
  <2>2. ASSUME i + 1 <= n
        PROVE  (i + 1 < j => G[i + 1] = F[i + 1]) /\ (i + 1 >= j => G[i + 1] = F[i + 1] + x)
    <3>1. i + 1 \in 1 .. n /\ i + 1 \in 1 .. m /\ (i + 1) - 1 = i /\ i <= n /\ i \in 0 .. n
      BY <2>1, <2>2
    <3>2. F[i + 1] = F[i] + f[i + 1] /\ G[i + 1] = G[i] + g[i + 1]
      BY <1>1, <1>2, <3>1
    <3>3. f[i + 1] \in Nat /\ F[i] \in Nat
      BY <1>1, <3>1 DEF Raised
    <3>4. CASE i + 1 = j
      <4>1. g[i + 1] = f[i + 1] + x
        BY <3>1, <3>4 DEF Raised
      <4> QED BY <2>1, <3>1, <3>2, <3>3, <3>4, <4>1
    <3>5. CASE i + 1 # j
      <4>1. g[i + 1] = f[i + 1]
        BY <3>1, <3>5 DEF Raised
      <4> QED BY <2>1, <3>1, <3>2, <3>3, <3>5, <4>1
    <3> QED BY <3>4, <3>5
  <2> QED BY <2>1, <2>2
<1>5. P = Nat
  <2>1. P \subseteq Nat
    OBVIOUS
  <2> HIDE DEF P
  <2> QED BY <1>3, <1>4, <2>1, Induction
<1>6. G[n] = F[n] + x
  <2>1. n \in P
    BY <1>5
  <2>2. (n < j => G[n] = F[n]) /\ (n >= j => G[n] = F[n] + x)
    BY <2>1
  <2>3. F[n] \in Nat
    BY <1>1
  <2>4. CASE n < j
    BY <2>2, <2>3, <2>4
  <2> QED BY <2>2, <2>4
<1>7. 0 \in Q
  BY <1>6
<1>8. ASSUME NEW i \in Q PROVE i + 1 \in Q
  <2>1. i \in Nat /\ (n + i <= m => G[n + i] = F[n] + x)
    OBVIOUS
  <2>2. ASSUME n + (i + 1) <= m PROVE G[n + (i + 1)] = F[n] + x
    <3> DEFINE l == n + (i + 1)
    <3>1. l \in 1 .. m /\ l > n /\ l - 1 = n + i /\ n + i <= m
      BY <2>1, <2>2
    <3> HIDE DEF l
    <3>2. G[l] = G[l - 1] + g[l] /\ g[l] = 0
      BY <1>2, <3>1 DEF Raised
    <3>3. F[n] + x \in Nat
      BY <1>1
    <3>4. G[l] = (F[n] + x) + 0
      BY <2>1, <3>1, <3>2
    <3> QED BY <3>3, <3>4 DEF l
  <2> QED BY <2>1, <2>2
<1>9. Q = Nat
  <2>1. Q \subseteq Nat
    OBVIOUS
  <2> HIDE DEF Q
  <2> QED BY <1>7, <1>8, <2>1, Induction
<1>10. G[m] = F[n] + x
  <2>1. m - n \in Nat /\ n + (m - n) = m /\ m \in Int
    OBVIOUS
  <2>2. \A i \in Nat : n + i <= m => G[n + i] = F[n] + x
    BY <1>9
  <2> HIDE DEF Q
  <2>3. n + (m - n) <= m => G[n + (m - n)] = F[n] + x
    BY <2>1, <2>2
  <2> QED BY <2>1, <2>3
<1> QED BY <1>1, <1>2, <1>10

(* FedReplies and Fees of a trace and its requirements. *)
FedIn(t, q) == {id \in DOMAIN t : q[id].kind = "Llm" /\ \E i \in DOMAIN t[id] : t[id][i].usage > 0}
FeesIn(t, q) == [id \in DOMAIN t |-> IF id \in FedIn(t, q) THEN t[id][1].usage ELSE 0]

(* The fee of a requirement, by its record. *)
FeeIs(t, q, id, fee) ==
    /\ fee \in Nat
    /\ id \in FedIn(t, q) <=> fee # 0
    /\ t[id] = <<>> => fee = 0
    /\ t[id] # <<>> => fee = IF q[id].kind = "Llm" THEN t[id][1].usage ELSE 0

Records(t) == t \in Seq(Seq(Entries)) /\ \A id \in DOMAIN t : Len(t[id]) <= 1

LEMMA FeesFacts ==
    ASSUME NEW t, NEW q, Records(t), NEW id \in 1 .. Len(t)
    PROVE  FeeIs(t, q, id, FeesIn(t, q)[id])
<1> DEFINE s == t[id]
<1>1. id \in DOMAIN t /\ s \in Seq(Entries) /\ Len(s) <= 1
  BY DEF Records
<1> HIDE DEF s
<1>2. CASE s = <<>>
  <2>1. DOMAIN s = {}
    BY <1>2
  <2>2. id \notin FedIn(t, q)
    BY <2>1 DEF FedIn, s
  <2> QED BY <1>1, <1>2, <2>2 DEF FeesIn, FeeIs, s
<1>3. CASE s # <<>>
  <2>1. Len(s) \in Nat /\ Len(s) # 0
    BY <1>1, <1>3, EmptySeq
  <2>2. DOMAIN s = {1}
    <3>1. Len(s) = 1
      <4> DEFINE l == Len(s)
      <4>1. l \in Nat /\ l # 0 /\ l <= 1
        BY <1>1, <2>1
      <4> HIDE DEF l
      <4>2. l = 1
        BY <4>1
      <4> QED BY <4>2 DEF l
    <3>2. DOMAIN s = 1 .. 1
      BY <1>1, <3>1, SeqFacts
    <3>3. 1 .. 1 = {1}
      OBVIOUS
    <3> QED BY <3>2, <3>3
  <2>3. s[1] \in Entries
    BY <1>1, <2>2, SeqFacts
  <2>4. s[1].usage \in Nat
    <3>1. s[1].usage \in Usages \cup {0}
      BY <2>3 DEF Entries
    <3>2. Usages \subseteq Nat
      BY RepliesAssumption
    <3> DEFINE u == s[1].usage
    <3> HIDE DEF u
    <3>3. u \in Usages \cup {0} => u \in Nat
      BY <3>2
    <3> QED BY <3>1, <3>3 DEF u
  <2>5. id \in FedIn(t, q) <=> q[id].kind = "Llm" /\ s[1].usage > 0
    BY <1>1, <2>2 DEF FedIn, s
  <2>6. FeesIn(t, q)[id] = IF id \in FedIn(t, q) THEN s[1].usage ELSE 0
    BY <1>1 DEF FeesIn, s
  <2> QED BY <1>3, <2>4, <2>5, <2>6 DEF FeeIs, s
<1> QED BY <1>2, <1>3

(* A step after which requirement j, if it is one, has cost x. *)
Paid(j, x) ==
    /\ Len(trace) <= Len(trace')
    /\ \A id \in 1 .. Len(trace) : reqs'[id].kind = reqs[id].kind
    /\ \A id \in 1 .. Len(trace) :
          id # j => \/ trace'[id] = trace[id]
                    \/ trace[id] = <<>> /\ trace'[id] # <<>> /\ trace'[id][1].usage = 0
    /\ j \in 1 .. Len(trace) =>
          /\ trace[j] = <<>> /\ trace'[j] # <<>> /\ trace'[j][1].usage = x
          /\ x # 0 => reqs[j].kind = "Llm"
    /\ j \notin 1 .. Len(trace) => x = 0
    /\ \A id \in 1 .. Len(trace') : id > Len(trace) => trace'[id] = <<>>

LEMMA PaidFees ==
    ASSUME IInv, IInv', NEW j \in Nat, NEW x \in Nat, Paid(j, x)
    PROVE  /\ SumTo(Fees, Len(trace))' = SumTo(Fees, Len(trace)) + x
           /\ FedReplies' \subseteq FedReplies \cup {j}
           /\ x = 0 => FedReplies' = FedReplies
<1> DEFINE f == FeesIn(trace, reqs)
           g == FeesIn(trace', reqs')
           n == Len(trace)
           m == Len(trace')
<1>1. /\ Fees = f /\ FedReplies = FedIn(trace, reqs)
      /\ Fees' = g /\ FedReplies' = FedIn(trace', reqs')
  BY DEF Fees, FedReplies, FeesIn, FedIn
<1>2. Records(trace) /\ Records(trace')
  BY DEF Records, IInv, Typed, SettledAtMostOnce
<1>3. n \in Nat /\ m \in Nat /\ n <= m /\ DOMAIN trace = 1 .. n /\ DOMAIN trace' = 1 .. m
  BY <1>2 DEF Paid, Records
<1>4. \A id \in 1 .. n : FeeIs(trace, reqs, id, f[id])
  BY <1>2, FeesFacts
<1>5. \A id \in 1 .. m : FeeIs(trace', reqs', id, g[id])
  BY <1>2, FeesFacts
<1> HIDE DEF f, g, n, m
<1>6. ASSUME NEW id \in 1 .. n, id # j PROVE g[id] = f[id]
  <2>1. id \in 1 .. m
    BY <1>3
  <2>2. reqs'[id].kind = reqs[id].kind
    BY DEF Paid, n
  <2>3. \/ trace'[id] = trace[id]
        \/ trace[id] = <<>> /\ trace'[id] # <<>> /\ trace'[id][1].usage = 0
    BY <1>6 DEF Paid, n
  <2>4. CASE trace'[id] = trace[id]
    BY <1>4, <1>5, <2>1, <2>2, <2>4 DEF FeeIs
  <2>5. CASE trace[id] = <<>> /\ trace'[id] # <<>> /\ trace'[id][1].usage = 0
    BY <1>4, <1>5, <2>1, <2>5 DEF FeeIs
  <2> QED BY <2>3, <2>4, <2>5
<1>7. ASSUME j \in 1 .. n PROVE g[j] = x /\ f[j] = 0
  <2>1. j \in 1 .. m
    BY <1>3, <1>7
  <2>2. /\ trace[j] = <<>> /\ trace'[j] # <<>> /\ trace'[j][1].usage = x
        /\ x # 0 => reqs[j].kind = "Llm"
        /\ reqs'[j].kind = reqs[j].kind
    BY <1>7 DEF Paid, n
  <2> QED BY <1>4, <1>5, <1>7, <2>1, <2>2 DEF FeeIs
<1>8. ASSUME NEW id \in 1 .. m, id > n PROVE g[id] = 0
  BY <1>5, <1>8 DEF Paid, FeeIs, n, m
<1>9. Raised(f, n, g, m, j, x)
  BY <1>4, <1>5, <1>6, <1>7, <1>8 DEF Raised, FeeIs
<1>10. SumTo(g, m) = SumTo(f, n) + x
  <2>1. j \notin 1 .. n => x = 0
    BY DEF Paid, n
  <2> QED BY <1>3, <1>9, <2>1, SumRaised
<1>11. SumTo(Fees, Len(trace))' = SumTo(g, m) /\ SumTo(Fees, Len(trace)) = SumTo(f, n)
  BY <1>1 DEF n, m, SumTo
<1>12. FedReplies \subseteq 1 .. n /\ FedReplies' \subseteq 1 .. m
  BY <1>1, <1>3 DEF FedIn
<1>13. \A id \in 1 .. m : id \in 1 .. n \/ id > n
  BY <1>3
<1>14. FedReplies' \subseteq FedReplies \cup {j}
  BY <1>1, <1>4, <1>5, <1>6, <1>8, <1>12, <1>13 DEF FeeIs
<1>15. ASSUME x = 0 PROVE FedReplies' = FedReplies
  <2>1. \A id \in 1 .. n : g[id] = f[id] /\ id \in 1 .. m
    BY <1>3, <1>6, <1>7, <1>15
  <2>2. \A id \in 1 .. n : id \in FedReplies' <=> id \in FedReplies
    BY <1>1, <1>4, <1>5, <2>1 DEF FeeIs
  <2>3. \A id \in FedReplies' : id \in 1 .. n
    BY <1>1, <1>5, <1>8, <1>12, <1>13 DEF FeeIs
  <2> QED BY <1>12, <2>2, <2>3
<1> QED BY <1>10, <1>11, <1>14, <1>15

(* The layers whose drain is between the two charges. *)
Charging == {d \in Layers : pc[d] = "Usage"}

(* Resolutions that report a usage only if they are charged for. *)
GoodAnswers == {r \in Resolution : r.id \in 1 .. Len(reqs) /\ (r.usage # 0 => ConsumesBudget(r))}

Books ==
    /\ \A d \in Layers : Range(resolved[d]) \subseteq GoodAnswers
    /\ used.tokens = sibling + SumTo(Fees, Len(trace))
    /\ Cardinality(FedReplies) + Cardinality(Charging) <= used.steps

(* Three ways to change two finite sets and what bounds them. *)
Shifted(A, B, s, A2, B2, s2, j) ==
    \/ A2 = A /\ B2 \subseteq B /\ s2 = s
    \/ A2 \subseteq A \cup {j} /\ (\E d \in B : B2 \subseteq B \ {d}) /\ s2 = s
    \/ A2 = A /\ (\E d : B2 \subseteq B \cup {d}) /\ s2 = s + 1

LEMMA ShiftedKeeps ==
    ASSUME NEW A, NEW B, IsFiniteSet(A), IsFiniteSet(B), NEW s \in Nat, NEW s2 \in Nat,
           Cardinality(A) + Cardinality(B) <= s,
           NEW A2, NEW B2, NEW j, Shifted(A, B, s, A2, B2, s2, j)
    PROVE  Cardinality(A2) + Cardinality(B2) <= s2
<1> DEFINE a == Cardinality(A)
           b == Cardinality(B)
           a2 == Cardinality(A2)
           b2 == Cardinality(B2)
<1>1. a \in Nat /\ b \in Nat /\ a + b <= s
  BY FS_CardinalityType
<1>2. CASE A2 = A /\ B2 \subseteq B /\ s2 = s
  <2>1. a2 = a /\ b2 \in Nat /\ b2 <= b
    BY <1>2, FS_Subset, FS_CardinalityType
  <2> HIDE DEF a, b, a2, b2
  <2>2. a2 + b2 <= s2
    BY <1>1, <1>2, <2>1
  <2> QED BY <2>2 DEF a2, b2
<1>3. CASE A2 \subseteq A \cup {j} /\ (\E d \in B : B2 \subseteq B \ {d}) /\ s2 = s
  <2>1. PICK d \in B : B2 \subseteq B \ {d}
    BY <1>3
  <2>2. IsFiniteSet(A \cup {j}) /\ Cardinality(A \cup {j}) \in {a, a + 1}
    BY <1>1, FS_AddElement
  <2>3. IsFiniteSet(B \ {d}) /\ Cardinality(B \ {d}) = b - 1
    BY <2>1, FS_RemoveElement
  <2>4. a2 \in Nat /\ a2 <= Cardinality(A \cup {j})
    BY <1>3, <2>2, FS_Subset, FS_CardinalityType
  <2>5. b2 \in Nat /\ b2 <= b - 1
    BY <2>1, <2>3, FS_Subset, FS_CardinalityType
  <2> DEFINE c == Cardinality(A \cup {j})
  <2>6. c \in {a, a + 1} /\ a2 <= c
    BY <2>2, <2>4
  <2> HIDE DEF a, b, a2, b2, c
  <2>7. a2 + b2 <= s2
    BY <1>1, <1>3, <2>4, <2>5, <2>6
  <2> QED BY <2>7 DEF a2, b2
<1>4. CASE A2 = A /\ (\E d : B2 \subseteq B \cup {d}) /\ s2 = s + 1
  <2>1. PICK d : B2 \subseteq B \cup {d}
    BY <1>4
  <2> DEFINE c == Cardinality(B \cup {d})
  <2>2. IsFiniteSet(B \cup {d}) /\ c \in {b, b + 1}
    BY <1>1, FS_AddElement
  <2>3. a2 = a /\ b2 \in Nat /\ b2 <= c
    BY <1>4, <2>1, <2>2, FS_Subset, FS_CardinalityType
  <2> HIDE DEF a, b, a2, b2, c
  <2>4. a2 + b2 <= s2
    BY <1>1, <1>4, <2>2, <2>3
  <2> QED BY <2>4 DEF a2, b2
<1> QED BY <1>2, <1>3, <1>4 DEF Shifted

(* A step that enters what requirement j cost in the books. *)
Accounts(j, x) ==
    /\ Paid(j, x)
    /\ \A d \in Layers : Range(resolved'[d]) \subseteq GoodAnswers
    /\ used'.tokens + sibling = used.tokens + sibling' + x
    /\ \/ x = 0 /\ Charging' \subseteq Charging /\ used'.steps = used.steps
       \/ (\E d \in Charging : Charging' \subseteq Charging \ {d}) /\ used'.steps = used.steps
       \/ x = 0 /\ (\E d : Charging' \subseteq Charging \cup {d}) /\ used'.steps = used.steps + 1

LEMMA AccountsKeep ==
    ASSUME IInv, IInv', Books, NEW j \in Nat, NEW x \in Nat, Accounts(j, x)
    PROVE  Books'
<1>1. /\ SumTo(Fees, Len(trace))' = SumTo(Fees, Len(trace)) + x
      /\ FedReplies' \subseteq FedReplies \cup {j}
      /\ x = 0 => FedReplies' = FedReplies
  BY PaidFees DEF Accounts
<1>2. /\ used \in [steps: 0 .. MaxSteps, tokens: 0 .. MaxTokens]
      /\ used' \in [steps: 0 .. MaxSteps, tokens: 0 .. MaxTokens]
      /\ sibling \in 0 .. MaxSibling /\ sibling' \in 0 .. MaxSibling
  BY DEF IInv, Typed
<1>3. used.steps \in Nat /\ used'.steps \in Nat /\ used.tokens \in Nat /\ used'.tokens \in Nat
      /\ sibling \in Nat /\ sibling' \in Nat
  BY <1>2
<1>4. used'.tokens = sibling' + SumTo(Fees, Len(trace))'
  <2> DEFINE S == SumTo(Fees, Len(trace))
             S2 == SumTo(Fees, Len(trace))'
             t == used.tokens
             t2 == used'.tokens
             b == sibling
             b2 == sibling'
  <2>1. t \in Nat /\ t2 \in Nat /\ b \in Nat /\ b2 \in Nat
    BY <1>3
  <2>2. S2 = S + x /\ t = b + S /\ t2 + b = t + b2 + x
    BY <1>1 DEF Books, Accounts
  <2>3. S \in Nat
    <3>1. Records(trace)
      BY DEF Records, IInv, Typed, SettledAtMostOnce
    <3>2. Len(trace) \in Nat /\ Fees = FeesIn(trace, reqs)
      BY <3>1 DEF Records, Fees, FeesIn, FedReplies, FedIn
    <3>3. \A id \in 1 .. Len(trace) : Fees[id] \in Nat
      BY <3>1, <3>2, FeesFacts DEF FeeIs
    <3> DEFINE n == Len(trace)
    <3>4. n \in Nat /\ \A id \in 1 .. n : Fees[id] \in Nat
      BY <3>2, <3>3
    <3> HIDE DEF n
    <3>5. SumTo(Fees, n) = Sums(Fees, n)[n] /\ \A i \in 0 .. n : Sums(Fees, n)[i] \in Nat
      BY <3>4, SumsFacts
    <3>6. n \in 0 .. n
      BY <3>4
    <3> QED BY <3>5, <3>6 DEF n
  <2> HIDE DEF S, S2, t, t2, b, b2
  <2>4. t2 = b2 + S2
    BY <2>1, <2>2, <2>3
  <2> QED BY <2>4 DEF t2, b2, S2
<1>5. Cardinality(FedReplies') + Cardinality(Charging') <= used'.steps
  <2>1. IsFiniteSet(FedReplies) /\ IsFiniteSet(Charging)
    <3>1. Len(trace) \in Nat /\ FedReplies \subseteq 1 .. Len(trace)
      BY DEF FedReplies, IInv, Typed
    <3>2. Charging \subseteq 0 .. MaxDepth
      BY DEF Charging, Layers
    <3>3. IsFiniteSet(1 .. Len(trace)) /\ IsFiniteSet(0 .. MaxDepth)
      BY <3>1, DepthAssumption, FS_Interval
    <3> QED BY <3>1, <3>2, <3>3, FS_Subset
  <2>2. Shifted(FedReplies, Charging, used.steps, FedReplies', Charging', used'.steps, j)
    BY <1>1 DEF Accounts, Shifted
  <2>3. Cardinality(FedReplies) + Cardinality(Charging) <= used.steps
    BY DEF Books
  <2> QED BY <1>3, <2>1, <2>2, <2>3, ShiftedKeeps
<1>6. GoodAnswers \subseteq GoodAnswers'
  <2>1. Len(reqs) \in Nat /\ Len(reqs') \in Nat /\ Len(trace) = Len(reqs) /\ Len(trace') = Len(reqs')
    BY DEF IInv, Typed
  <2>2. /\ Len(reqs) <= Len(reqs')
        /\ \A id \in 1 .. Len(reqs) : reqs'[id].kind = reqs[id].kind
    BY <2>1 DEF Accounts, Paid
  <2>3. 1 .. Len(reqs) \subseteq 1 .. Len(reqs')
    BY <2>1, <2>2
  <2> QED BY <2>2, <2>3 DEF GoodAnswers, ConsumesBudget
<1>7. \A d \in Layers : Range(resolved'[d]) \subseteq GoodAnswers'
  BY <1>6 DEF Accounts
<1> QED BY <1>4, <1>5, <1>7 DEF Books

(* What a step does to the trace: nothing, a record that something is not  *)
(* resumed, or the record of an answer that is.                            *)
LEMMA TraceKept ==
    ASSUME IInv, trace' = trace, reqs' = reqs
    PROVE  Paid(0, 0)
<1>1. Len(trace) \in Nat
  BY DEF IInv, Typed
<1> QED BY <1>1 DEF Paid

LEMMA TraceGrown ==
    ASSUME IInv, NEW d \in Layers, NEW k \in Nat, Emits(d, k),
           \A id \in 1 .. Len(reqs) : trace'[id] = trace[id]
    PROVE  Paid(0, 0)
<1>1. /\ Typed /\ Len(reqs) \in Nat /\ Len(trace) = Len(reqs)
      /\ 1 .. (Len(reqs) + k) = (1 .. Len(reqs)) \cup Fresh(k)
  BY EmitsFacts DEF IInv
<1>2. Len(trace') = Len(reqs) + k
  BY DEF Emits
<1>3. \A id \in Fresh(k) : trace'[id] = <<>>
  BY DEF Emits
<1>4. \A id \in 1 .. Len(trace') : id > Len(trace) => id \in Fresh(k)
  BY <1>1, <1>2
<1>5. \A id \in 1 .. Len(trace') : id > Len(trace) => trace'[id] = <<>>
  BY <1>3, <1>4
<1>6. \A id \in 1 .. Len(trace) : reqs'[id].kind = reqs[id].kind /\ trace'[id] = trace[id]
  BY <1>1 DEF Emits
<1>7. Len(trace) <= Len(trace') /\ 0 \notin 1 .. Len(trace)
  BY <1>1, <1>2
<1> QED BY <1>5, <1>6, <1>7 DEF Paid

LEMMA TraceRecorded ==
    ASSUME IInv, NEW d \in Layers, NEW ids, ids \subseteq Unsettled(d),
           trace' = Recorded(ids, "NeverResumed"), reqs' = reqs
    PROVE  Paid(0, 0)
<1>1. Len(trace) \in Nat /\ DOMAIN trace = 1 .. Len(trace) /\ Typed
  BY DEF IInv, Typed
<1>2. Len(trace') = Len(trace)
  BY <1>1, RecordedFacts DEF Dispositions
<1>3. ASSUME NEW id \in 1 .. Len(trace)
      PROVE  \/ trace'[id] = trace[id]
             \/ trace[id] = <<>> /\ trace'[id] # <<>> /\ trace'[id][1].usage = 0
  <2>1. CASE id \notin ids
    BY <1>1, <2>1 DEF Recorded
  <2>2. CASE id \in ids
    <3> DEFINE x == Record("NeverResumed", 0)
    <3>1. trace[id] = <<>>
      BY <2>2 DEF IInv, Layer, Held
    <3>2. trace'[id] = Append(<<>>, x)
      BY <1>1, <2>2, <3>1 DEF Recorded
    <3>3. x.usage = 0
      BY DEF Record
    <3> HIDE DEF x
    <3>4. Append(<<>>, x) = <<x>> /\ <<x>> # <<>> /\ <<x>>[1] = x
      OBVIOUS
    <3> QED BY <3>1, <3>2, <3>3, <3>4
  <2> QED BY <2>1, <2>2
<1> QED BY <1>1, <1>2, <1>3 DEF Paid

LEMMA TraceFed ==
    ASSUME IInv, Books, NEW d \in Layers, pc[d] \in {"Feed", "Usage"}, resolved[d] # <<>>,
           Resume(d)
    PROVE  LET r == Head(resolved[d]) IN
           r \in GoodAnswers /\ Paid(r.id, r.usage) /\ Tail(resolved[d]) \in Seq(Resolution)
           /\ Range(Tail(resolved[d])) \subseteq Range(resolved[d])
<1>1. Typed /\ Layer(d)
  BY DEF IInv
<1> DEFINE s == resolved[d]
           r == Head(s)
<1>2. /\ r \in Resolution /\ r.id \in Answered(d) /\ r \in Range(s)
      /\ Tail(s) \in Seq(Resolution) /\ Range(Tail(s)) \subseteq Range(s)
  <2>1. s \in Seq(Resolution) /\ s # <<>> /\ Answered(d) = {s[i].id : i \in DOMAIN s}
    BY <1>1 DEF Typed, Answered
  <2> HIDE DEF s
  <2>2. r \in Resolution /\ Tail(s) \in Seq(Resolution) /\ Range(s) = Range(Tail(s)) \cup {r}
    BY <2>1, HeadOff
  <2> HIDE DEF r
  <2>3. PICK i \in DOMAIN s : s[i] = r
    BY <2>2 DEF Range
  <2> QED BY <2>1, <2>2, <2>3
<1>3. r \in GoodAnswers
  BY <1>2 DEF Books
<1>4. /\ r.id \in 1 .. Len(reqs) /\ trace[r.id] = <<>> /\ Len(trace) = Len(reqs)
      /\ Len(reqs) \in Nat /\ (r.usage # 0 => reqs[r.id].kind = "Llm")
  BY <1>1, <1>2, <1>3 DEF Layer, Held, Unsettled, Typed, GoodAnswers, ConsumesBudget
<1>5. /\ Fed(r) \in Seq(Seq(Entries)) /\ Len(Fed(r)) = Len(trace)
      /\ Fed(r)[r.id] # <<>>
      /\ \A id \in 1 .. Len(trace) : id # r.id => Fed(r)[id] = trace[id]
  <2> HIDE DEF r
  <2> QED BY <1>1, <1>2, <1>4, FedFacts
<1>6. Fed(r)[r.id][1].usage = r.usage
  <2> DEFINE x == Record("Resumed", r.usage)
  <2>1. trace \in Seq(Seq(Entries)) /\ DOMAIN trace = 1 .. Len(trace)
    BY <1>1 DEF Typed
  <2>2. Fed(r)[r.id] = Append(<<>>, x)
    BY <1>4, <2>1 DEF Fed
  <2>3. x.usage = r.usage
    BY DEF Record
  <2> HIDE DEF x, r
  <2>4. Append(<<>>, x)[1] = x
    OBVIOUS
  <2> QED BY <2>2, <2>3, <2>4
<1>7. \/ trace' = Fed(r) /\ UNCHANGED <<pending, treeVars>>
      \/ \E m \in Waiting(d, r.id) : \E kinds \in Replies(d, m, r) : FedTo(d, r, m, kinds)
  BY DEF Resume, Fed, FedTo
<1> HIDE DEF s, r
<1>8. CASE trace' = Fed(r) /\ UNCHANGED <<pending, treeVars>>
  <2>1. reqs' = reqs
    BY <1>8 DEF treeVars
  <2>2. Len(trace') = Len(trace) /\ Len(trace) <= Len(trace')
    BY <1>4, <1>5, <1>8
  <2>3. \A id \in 1 .. Len(trace') : ~(id > Len(trace))
    BY <1>4, <2>2
  <2>4. Paid(r.id, r.usage)
    BY <1>4, <1>5, <1>6, <1>8, <2>1, <2>2, <2>3 DEF Paid
  <2> QED BY <1>2, <1>3, <2>4 DEF r, s
<1>9. ASSUME NEW m \in Waiting(d, r.id), NEW kinds \in Replies(d, m, r), FedTo(d, r, m, kinds)
      PROVE  Paid(r.id, r.usage)
  <2> DEFINE k == Len(kinds)
             new == NewReqs(d, m, kinds)
  <2>1. m \in Machines /\ kinds \in Seq(Kinds) /\ Len(reqs) + k <= MaxReqs /\ k \in Nat
    <3>1. m \in Machines
      BY DEF Waiting
    <3> QED BY <1>1, <1>2, <1>4, <3>1, RepliesFacts
  <2>2. Appends(new, Fed(r), d, k)
    <3>1. new \in Seq(Requirement) /\ Len(new) = k /\ \A i \in 1 .. k : new[i].layer = d
      BY <2>1 DEF NewReqs, Requirement
    <3> QED BY <1>5, <1>9, <3>1 DEF Appends, FedTo
  <2>3. Emits(d, k) /\ \A id \in 1 .. Len(reqs) : trace'[id] = Fed(r)[id]
    BY <1>1, <2>1, <2>2, AppendsEmit
  <2>4. /\ 1 .. (Len(reqs) + k) = (1 .. Len(reqs)) \cup Fresh(k)
        /\ Len(trace') = Len(reqs) + k
    <3>1. Len(trace') = Len(reqs) + k
      BY <2>3 DEF Emits
    <3>2. 1 .. (Len(reqs) + k) = (1 .. Len(reqs)) \cup Fresh(k)
      BY <1>1, <2>1, <2>3, EmitsFacts
    <3> QED BY <3>1, <3>2
  <2> HIDE DEF k, new
  <2>5. \A id \in 1 .. Len(trace') : id > Len(trace) => trace'[id] = <<>>
    <3>1. \A id \in 1 .. Len(trace') : id > Len(trace) => id \in Fresh(k)
      BY <1>4, <2>4
    <3> QED BY <2>3, <3>1 DEF Emits
  <2>6. \A id \in 1 .. Len(trace) : reqs'[id] = reqs[id]
    BY <1>4, <2>3 DEF Emits
  <2>7. Len(trace) <= Len(trace')
    BY <1>4, <2>1, <2>4
  <2>8. \A id \in 1 .. Len(trace) : id # r.id => trace'[id] = trace[id]
    BY <1>4, <1>5, <2>3
  <2>9. trace'[r.id] # <<>> /\ trace'[r.id][1].usage = r.usage
    BY <1>4, <1>5, <1>6, <2>3
  <2> QED BY <1>4, <2>5, <2>6, <2>7, <2>8, <2>9 DEF Paid
<1>10. CASE \E m \in Waiting(d, r.id) : \E kinds \in Replies(d, m, r) : FedTo(d, r, m, kinds)
  BY <1>2, <1>3, <1>9, <1>10 DEF r, s
<1> QED BY <1>7, <1>8, <1>10

(* Steps that charge nothing. *)
LEMMA QuietBooks ==
    ASSUME IInv, IInv', Books, Paid(0, 0), UNCHANGED <<used, sibling>>,
           Charging' \subseteq Charging,
           \A d \in Layers : Range(resolved'[d]) \subseteq GoodAnswers
    PROVE  Books'
<1>1. used.tokens \in Nat /\ sibling \in Nat /\ 0 \in Nat
  BY DEF IInv, Typed
<1>2. used'.tokens + sibling = used.tokens + sibling' + 0
  BY <1>1
<1>3. Accounts(0, 0)
  BY <1>2 DEF Accounts
<1> QED BY <1>1, <1>3, AccountsKeep

LEMMA ReturnBooks ==
    ASSUME IInv, IInv', Books, NEW d \in Layers, NEW how, Return(d, how),
           Paid(0, 0), UNCHANGED <<used, sibling>>
    PROVE  Books'
<1>1. Charging' \subseteq Charging
  BY DEF Return, Charging
<1>2. ASSUME NEW e \in Layers PROVE Range(resolved'[e]) \subseteq GoodAnswers
  <2>1. resolved'[e] = <<>> \/ resolved'[e] = resolved[e]
    BY DEF Return
  <2>2. Range(<<>>) = {}
    BY DEF Range
  <2> QED BY <2>1, <2>2 DEF Books
<1> QED BY <1>1, <1>2, QuietBooks

(* An answer is added. *)
LEMMA AnsweredBooks ==
    ASSUME IInv, IInv', Books, NEW d \in Layers, NEW r \in GoodAnswers,
           resolved' = [resolved EXCEPT ![d] = Append(@, r)],
           UNCHANGED <<reqs, trace, used, sibling>>, Charging' \subseteq Charging
    PROVE  Books'
<1>1. Typed
  BY DEF IInv
<1>2. ASSUME NEW e \in Layers PROVE Range(resolved'[e]) \subseteq GoodAnswers
  <2> DEFINE s == resolved[d]
             t == Append(s, r)
  <2>1. s \in Seq(Resolution) /\ r \in Resolution /\ Range(s) \subseteq GoodAnswers
    BY <1>1 DEF Typed, Books, GoodAnswers
  <2>2. /\ Len(s) \in Nat /\ DOMAIN s = 1 .. Len(s) /\ DOMAIN t = 1 .. (Len(s) + 1)
        /\ t[Len(s) + 1] = r /\ \A i \in 1 .. Len(s) : t[i] = s[i]
    <3> HIDE DEF s
    <3> QED BY <2>1, AppendProperties
  <2>3. Range(t) \subseteq Range(s) \cup {r}
    <3> HIDE DEF s, t
    <3>1. 1 .. (Len(s) + 1) = (1 .. Len(s)) \cup {Len(s) + 1}
      BY <2>2
    <3> QED BY <2>2, <3>1 DEF Range
  <2>4. resolved'[e] = IF e = d THEN t ELSE resolved[e]
    BY <1>1 DEF Typed
  <2> HIDE DEF s, t
  <2> QED BY <2>1, <2>3, <2>4 DEF Books
<1>3. Paid(0, 0)
  BY TraceKept
<1> QED BY <1>2, <1>3, QuietBooks

LEMMA AnswersAreGood ==
    ASSUME IInv, NEW d \in Layers, NEW id \in Unsettled(d), NEW r \in Answers(id)
    PROVE  r \in GoodAnswers
<1>1. id \in 1 .. Len(reqs) /\ id \in Ids
  <2>1. id \in 1 .. Len(reqs)
    BY DEF IInv, Layer, Held
  <2>2. Len(reqs) \in Nat /\ Len(reqs) <= MaxReqs
    BY DEF IInv, Typed
  <2> QED BY <2>1, <2>2, BoundsAssumption DEF Ids
<1>2. r \in Resolution /\ r.id = id
  BY <1>1, AnswersTyped
<1>3. r.usage # 0 => reqs[id].kind = "Llm" /\ r.ok
  BY DEF Answers
<1> QED BY <1>1, <1>2, <1>3 DEF GoodAnswers, ConsumesBudget

LEMMA SerialBooks ==
    ASSUME IInv, IInv', Books, NEW d \in Layers, pc[d] = "Batch", serial[d] # <<>>,
           NEW r, SerialResolved(d, r), Charging' \subseteq Charging,
           \/ r \in Answers(Head(serial[d]))
           \/ r \in Resolution /\ r.id = Head(serial[d]) /\ r.usage = 0
    PROVE  Books'
<1>1. Typed /\ Layer(d)
  BY DEF IInv
<1>2. Head(serial[d]) \in Range(serial[d])
  <2>1. serial[d] \in Seq(Ids)
    BY <1>1 DEF Typed
  <2> QED BY <2>1, HeadOff
<1>3. Head(serial[d]) \in Unsettled(d)
  BY <1>1, <1>2 DEF Layer, Queues, Unsettled
<1>4. Head(serial[d]) \in 1 .. Len(reqs)
  BY <1>1, <1>3 DEF Layer, Held
<1>5. r \in GoodAnswers
  BY <1>3, <1>4, AnswersAreGood DEF GoodAnswers
<1>6. /\ resolved' = [resolved EXCEPT ![d] = Append(@, r)]
      /\ UNCHANGED <<reqs, trace, used, sibling>>
  BY DEF SerialResolved, treeVars
<1> QED BY <1>5, <1>6, AnsweredBooks

LEMMA BeginBooks ==
    ASSUME IInv, IInv', Books, NEW d \in Layers, NEW scopes, NEW failed,
           Begin(d, scopes, failed)
    PROVE  Books'
<1>1. Typed /\ d \in Layers
  BY DEF IInv
<1> DEFINE fresh == Among(Started(d), Machines \ failed)
           k == Len(fresh)
           new == [i \in 1 .. k |-> [kind |-> "Llm", layer |-> d, machine |-> fresh[i]]]
<1>2. fresh \in Seq(Machines)
  <2> DEFINE st == Started(d)
  <2>1. st \in Seq(Machines)
    BY StartedFacts
  <2> HIDE DEF st
  <2>2. Among(st, Machines \ failed) \in Seq(Machines)
    BY <2>1, AmongFacts
  <2> QED BY <2>2 DEF st
<1>3. /\ reqs' = reqs \o new /\ trace' = trace \o [i \in 1 .. Len(new) |-> <<>>]
      /\ Len(reqs) + k <= MaxReqs /\ pc' = [pc EXCEPT ![d] = "Loop"]
      /\ UNCHANGED <<resolved, used, sibling>>
  BY DEF Begin
<1> HIDE DEF fresh
<1>4. k \in Nat /\ \A i \in 1 .. k : fresh[i] \in Machines
  BY <1>2
<1>5. new \in Seq(Requirement) /\ Len(new) = k /\ \A i \in 1 .. k : new[i].layer = d
  BY <1>4 DEF Requirement, Kinds
<1> HIDE DEF new
<1>6. Appends(new, trace, d, k)
  BY <1>1, <1>3, <1>5 DEF Appends, Typed
<1>7. Emits(d, k) /\ \A id \in 1 .. Len(reqs) : trace'[id] = trace[id]
  BY <1>1, <1>3, <1>4, <1>6, AppendsEmit
<1>8. Paid(0, 0)
  BY <1>4, <1>7, TraceGrown
<1>9. Charging' \subseteq Charging
  BY <1>1, <1>3 DEF Charging, Typed
<1> QED BY <1>3, <1>8, <1>9, QuietBooks DEF Books

LEMMA BudgetStopBooks ==
    ASSUME IInv, IInv', Books, NEW d \in Layers, BudgetStop(d)
    PROVE  Books'
<1>1. Typed
  BY DEF IInv
<1>2. {r.id : r \in Range(resolved[d])} \subseteq Unsettled(d)
  BY DEF Unsettled, Answered, Range
<1>3. /\ trace' = Recorded({r.id : r \in Range(resolved[d])}, "NeverResumed") /\ reqs' = reqs
      /\ resolved' = [resolved EXCEPT ![d] = <<>>] /\ pc' = [pc EXCEPT ![d] = "Loop"]
      /\ UNCHANGED <<used, sibling>>
  BY DEF BudgetStop, interrupt_budget_exhausted
<1>4. Paid(0, 0)
  BY <1>2, <1>3, TraceRecorded
<1>5. Charging' \subseteq Charging
  BY <1>1, <1>3 DEF Charging, Typed
<1>6. ASSUME NEW e \in Layers PROVE Range(resolved'[e]) \subseteq GoodAnswers
  <2>1. resolved'[e] = <<>> \/ resolved'[e] = resolved[e]
    BY <1>1, <1>3 DEF Typed
  <2>2. Range(<<>>) = {}
    BY DEF Range
  <2> QED BY <2>1, <2>2 DEF Books
<1> QED BY <1>3, <1>4, <1>5, <1>6, QuietBooks

(* An answer is fed back, and paid for. *)
LEMMA ResumeBooks ==
    ASSUME IInv, IInv', Books, NEW d \in Layers, pc[d] \in {"Feed", "Usage"},
           resolved[d] # <<>>, Resume(d), used'.steps = used.steps,
           used'.tokens = used.tokens + Head(resolved[d]).usage,
           pc[d] = "Usage" \/ Head(resolved[d]).usage = 0
    PROVE  Books'
<1> DEFINE r == Head(resolved[d])
           tl == Tail(resolved[d])
<1>1. Typed
  BY DEF IInv
<1>2. /\ r \in GoodAnswers /\ Paid(r.id, r.usage)
      /\ Range(tl) \subseteq Range(resolved[d])
  BY TraceFed
<1>3. /\ pc' = [pc EXCEPT ![d] = "Feed"] /\ resolved' = [resolved EXCEPT ![d] = tl]
      /\ sibling' = sibling
  BY DEF Resume
<1>4. r.usage \in Nat /\ r.id \in Nat
  <2>1. r \in Resolution
    BY <1>2 DEF GoodAnswers
  <2>2. r.usage \in Usages \cup {0} /\ r.id \in 1 .. MaxReqs
    BY <2>1 DEF Resolution
  <2>3. Usages \subseteq Nat
    BY RepliesAssumption
  <2> DEFINE u == r.usage
  <2> HIDE DEF u
  <2>4. u \in Usages \cup {0} => u \in Nat
    BY <2>3
  <2> QED BY <2>2, <2>4 DEF u
<1>5. ASSUME NEW e \in Layers PROVE Range(resolved'[e]) \subseteq GoodAnswers
  <2>1. resolved'[e] = tl \/ resolved'[e] = resolved[e]
    BY <1>1, <1>3 DEF Typed
  <2> QED BY <1>2, <2>1 DEF Books
<1>6. used'.tokens + sibling = used.tokens + sibling' + r.usage
  <2>1. used.tokens \in Nat /\ sibling \in Nat
    BY <1>1 DEF Typed
  <2> QED BY <1>3, <1>4, <2>1
<1>7. \/ r.usage = 0 /\ Charging' \subseteq Charging
      \/ \E e \in Charging : Charging' \subseteq Charging \ {e}
  <2>1. Charging' \subseteq Charging \ {d}
    BY <1>1, <1>3 DEF Charging, Typed
  <2>2. pc[d] = "Usage" => d \in Charging
    BY DEF Charging
  <2> QED BY <2>1, <2>2
<1> HIDE DEF r, tl
<1>8. Accounts(r.id, r.usage)
  BY <1>2, <1>5, <1>6, <1>7 DEF Accounts
<1> QED BY <1>4, <1>8, AccountsKeep

LEMMA DriverStepBooks ==
    ASSUME IInv, IInv', Books, NEW d \in Layers, DriverStep(d)
    PROVE  Books'
<1>1. Typed /\ Layer(d)
  BY DEF IInv
<1>2. CASE LoopEnds(d)
  <2>1. trace' = trace /\ reqs' = reqs /\ UNCHANGED <<used, sibling>>
    BY <1>2 DEF LoopEnds, treeVars
  <2> QED BY <1>2, <2>1, TraceKept, ReturnBooks DEF LoopEnds
<1>3. ASSUME NEW ids, ids \subseteq Unsettled(d), settle_cancelled(d, ids) PROVE Books'
  <2>1. /\ trace' = Recorded(ids, "NeverResumed") /\ reqs' = reqs
        /\ UNCHANGED <<used, sibling>> /\ Return(d, "Cancelled")
    BY <1>3 DEF settle_cancelled, AbandonAll
  <2> QED BY <1>3, <2>1, TraceRecorded, ReturnBooks
<1>4. Range(pending[d]) \subseteq Unsettled(d) /\ {r.id : r \in Range(resolved[d])} \subseteq Unsettled(d)
  BY DEF Unsettled, Answered, Range
<1>5. CASE LoopCancelled(d) \/ GraceExpires(d) \/ BatchCancelled(d)
  BY <1>3, <1>4, <1>5 DEF LoopCancelled, GraceExpires, BatchCancelled
<1>6. CASE LoopExhausted(d)
  <2>1. /\ trace' = Recorded(Range(pending[d]), "NeverResumed") /\ reqs' = reqs
        /\ UNCHANGED <<used, sibling>> /\ Return(d, "Ok")
    BY <1>6 DEF LoopExhausted, interrupt_budget_exhausted
  <2> QED BY <1>4, <2>1, TraceRecorded, ReturnBooks
<1>7. CASE LoopFulfils(d) \/ BatchCompleted(d) \/ FeedEnds(d)
  <2>1. trace' = trace /\ reqs' = reqs /\ UNCHANGED <<resolved, used, sibling>>
    BY <1>7 DEF LoopFulfils, BatchCompleted, FeedEnds, treeVars
  <2>2. Charging' \subseteq Charging
    <3>1. \E to \in {"Batch", "Feed", "Loop"} : pc' = [pc EXCEPT ![d] = to]
      BY <1>7 DEF LoopFulfils, BatchCompleted, FeedEnds
    <3> QED BY <1>1, <3>1 DEF Charging, Typed
  <2> QED BY <2>1, <2>2, TraceKept, QuietBooks DEF Books
<1>8. CASE SubagentReturns(d)
  <2>1. pc[d] = "Batch" /\ d < MaxDepth /\ pc[d + 1] = "Return" /\ pc' = [pc EXCEPT ![d + 1] = "Off"]
    BY <1>8 DEF SubagentReturns
  <2>2. serial[d] # <<>>
    <3>1. d \in Nat /\ d + 1 \in Layers /\ d + 1 # 0 /\ (d + 1) - 1 = d
      BY <2>1, DepthAssumption DEF Layers
    <3>2. Stacked(d + 1)
      BY <3>1 DEF IInv, Layer
    <3> QED BY <2>1, <3>1, <3>2 DEF Stacked
  <2> DEFINE ok == result[d + 1] \in {"Ok", "Cancelled"}
             r == [id |-> Head(serial[d]), ok |-> ok, usage |-> 0]
  <2>3. SerialResolved(d, r)
    BY <1>8 DEF SubagentReturns
  <2>4. r \in Resolution /\ r.id = Head(serial[d]) /\ r.usage = 0
    <3>1. serial[d] \in Seq(Ids)
      BY <1>1 DEF Typed
    <3>2. Head(serial[d]) \in Ids
      BY <2>2, <3>1, HeadOff
    <3>3. ok \in BOOLEAN
      OBVIOUS
    <3> HIDE DEF ok
    <3> QED BY <3>2, <3>3 DEF Resolution, Ids
  <2> HIDE DEF r
  <2>5. Charging' \subseteq Charging
    BY <1>1, <2>1 DEF Charging, Typed
  <2> QED BY <2>1, <2>2, <2>3, <2>4, <2>5, SerialBooks
<1>9. CASE FeedFree(d)
  <2> DEFINE r == Head(resolved[d])
  <2>1. /\ pc[d] = "Feed" /\ resolved[d] # <<>> /\ ~ConsumesBudget(r) /\ Resume(d)
        /\ used' = used
    BY <1>9 DEF FeedFree
  <2>2. r \in GoodAnswers
    BY <2>1, TraceFed
  <2>3. r.usage = 0
    BY <2>1, <2>2 DEF GoodAnswers
  <2>4. used'.tokens = used.tokens + r.usage
    BY <1>1, <2>1, <2>3 DEF Typed
  <2> QED BY <2>1, <2>3, <2>4, ResumeBooks
<1>10. CASE ChargeStep(d)
  <2>1. CASE BudgetStop(d)
    BY <2>1, BudgetStopBooks
  <2>2. CASE \E c \in Charged(used.steps, 1, MaxSteps) :
                /\ used' = [used EXCEPT !.steps = c]
                /\ pc' = [pc EXCEPT ![d] = "Usage"]
                /\ UNCHANGED <<result, since, chain, pending, running, serial, resolved,
                               treeVars, trace, sibling, cancelled>>
    <3>1. used' = [used EXCEPT !.steps = used.steps + 1]
      BY <2>2 DEF Charged
    <3>2. trace' = trace /\ reqs' = reqs /\ UNCHANGED <<resolved, sibling>>
      BY <2>2 DEF treeVars
    <3>3. /\ used'.steps = used.steps + 1 /\ used'.tokens = used.tokens
          /\ used.tokens \in Nat /\ sibling \in Nat
      BY <1>1, <3>1 DEF Typed
    <3>4. Charging' \subseteq Charging \cup {d}
      BY <1>1, <2>2 DEF Charging, Typed
    <3>5. used'.tokens + sibling = used.tokens + sibling' + 0
      BY <3>2, <3>3
    <3>6. Accounts(0, 0)
      BY <3>2, <3>3, <3>4, <3>5, TraceKept DEF Accounts, Books
    <3> QED BY <3>6, AccountsKeep
  <2> QED BY <1>10, <2>1, <2>2 DEF ChargeStep
<1>11. CASE ChargeUsage(d)
  <2> DEFINE u == Head(resolved[d]).usage
  <2>1. CASE BudgetStop(d)
    BY <2>1, BudgetStopBooks
  <2>2. ASSUME NEW c \in Charged(used.tokens, u, MaxTokens),
               used' = [used EXCEPT !.tokens = c], Resume(d)
        PROVE  Books'
    <3>1. pc[d] = "Usage" /\ resolved[d] # <<>>
      BY <1>1, <1>11 DEF ChargeUsage, Layer, Queues
    <3>2. used'.steps = used.steps /\ used'.tokens = used.tokens + u
      <4> HIDE DEF u
      <4>1. c = used.tokens + u
        BY <2>2 DEF Charged
      <4> QED BY <1>1, <2>2, <4>1 DEF Typed
    <3> QED BY <2>2, <3>1, <3>2, ResumeBooks
  <2> QED BY <1>11, <2>1, <2>2 DEF ChargeUsage
<1> QED BY <1>2, <1>5, <1>6, <1>7, <1>8, <1>9, <1>10, <1>11 DEF DriverStep

LEMMA HandlerStepBooks ==
    ASSUME IInv, IInv', Books, NEW d \in Layers, HandlerStep(d)
    PROVE  Books'
<1>1. Typed /\ Layer(d)
  BY DEF IInv
<1>2. ASSUME NEW id \in running[d], HandlerReturns(d, id) PROVE Books'
  <2>1. PICK r \in Answers(id) : resolved' = [resolved EXCEPT ![d] = Append(@, r)]
    BY <1>2 DEF HandlerReturns
  <2>2. id \in Unsettled(d)
    BY <1>1, <1>2 DEF HandlerReturns, Layer, Queues, Unsettled
  <2>3. UNCHANGED <<pc, reqs, trace, used, sibling>>
    BY <1>2 DEF HandlerReturns, treeVars
  <2>4. Charging' \subseteq Charging
    BY <2>3 DEF Charging
  <2>5. r \in GoodAnswers
    BY <2>2, AnswersAreGood
  <2> QED BY <2>1, <2>3, <2>4, <2>5, AnsweredBooks
<1>3. ASSUME NEW how, Return(d, how), UNCHANGED <<treeVars, trace, used, sibling, cancelled>>
      PROVE  Books'
  <2>1. trace' = trace /\ reqs' = reqs /\ UNCHANGED <<used, sibling>>
    BY <1>3 DEF treeVars
  <2> QED BY <1>3, <2>1, TraceKept, ReturnBooks
<1>4. (\E id \in running[d] : HandlerMisaligned(d, id)) \/ SerialFails(d) => Books'
  BY <1>3 DEF HandlerMisaligned, SerialFails
<1>5. CASE PoppedReturns(d)
  <2>1. pc[d] = "Batch" /\ serial[d] # <<>> /\ pc' = pc
    BY <1>5 DEF PoppedReturns, AtSerial
  <2>2. PICK r \in Answers(Head(serial[d])) : SerialResolved(d, r)
    BY <1>5 DEF PoppedReturns
  <2>3. Charging' \subseteq Charging
    BY <2>1 DEF Charging
  <2> QED BY <2>1, <2>2, <2>3, SerialBooks
<1>6. CASE SubagentRefused(d)
  <2> DEFINE r == [id |-> Head(serial[d]), ok |-> FALSE, usage |-> 0]
  <2>1. pc[d] = "Batch" /\ serial[d] # <<>> /\ pc' = pc
    BY <1>6 DEF SubagentRefused, AtSubagent, AtSerial
  <2>2. SerialResolved(d, r)
    BY <1>6 DEF SubagentRefused
  <2>3. r \in Resolution /\ r.id = Head(serial[d]) /\ r.usage = 0
    <3>1. serial[d] \in Seq(Ids)
      BY <1>1 DEF Typed
    <3>2. Head(serial[d]) \in Ids
      BY <2>1, <3>1, HeadOff
    <3> QED BY <3>2 DEF Resolution, Ids
  <2> HIDE DEF r
  <2>4. Charging' \subseteq Charging
    BY <2>1 DEF Charging
  <2> QED BY <2>1, <2>2, <2>3, <2>4, SerialBooks
<1>7. CASE SpawnSubagent(d)
  <2>1. d + 1 \in Layers
    BY <1>7, DepthAssumption DEF SpawnSubagent, Layers
  <2>2. \E scopes, failed : Begin(d + 1, scopes, failed)
    BY <1>7 DEF SpawnSubagent
  <2> QED BY <2>1, <2>2, BeginBooks
<1> QED BY <1>2, <1>4, <1>5, <1>6, <1>7 DEF HandlerStep

LEMMA NextBooks == IInv /\ Books /\ [Next]_vars => Books'
<1> SUFFICES ASSUME IInv, Books, [Next]_vars PROVE Books'
  OBVIOUS
<1>1. Typed /\ IInv'
  BY NextKeeps DEF IInv
<1>2. CASE DriveRoot
  <2>1. 0 \in Layers
    BY DepthAssumption DEF Layers
  <2>2. \E failed : Begin(0, <<0>>, failed)
    BY <1>2 DEF DriveRoot
  <2> QED BY <1>1, <2>1, <2>2, BeginBooks
<1>3. ASSUME NEW d \in Layers, DriverStep(d) \/ HandlerStep(d) PROVE Books'
  BY <1>1, <1>3, DriverStepBooks, HandlerStepBooks
<1>4. ASSUME UNCHANGED <<pc, resolved, reqs, trace, used, sibling>> PROVE Books'
  <2>1. Charging' \subseteq Charging
    BY <1>4 DEF Charging
  <2> QED BY <1>1, <1>4, <2>1, TraceKept, QuietBooks DEF Books
<1>5. CASE Cancel \/ UNCHANGED vars
  BY <1>4, <1>5 DEF Cancel, vars, driverVars, treeVars
<1>6. CASE SiblingCharges
  <2>1. used' = [used EXCEPT !.tokens = used.tokens + 1]
    BY <1>6 DEF SiblingCharges, Charged
  <2>2. UNCHANGED <<pc, resolved, reqs, trace>> /\ sibling' = sibling + 1
    BY <1>6 DEF SiblingCharges, driverVars, treeVars
  <2>3. /\ used'.steps = used.steps /\ used'.tokens = used.tokens + 1
        /\ used.tokens \in Nat /\ sibling \in Nat
    BY <1>1, <2>1 DEF Typed
  <2>4. used'.tokens + sibling = used.tokens + sibling' + 0
    BY <2>2, <2>3
  <2>5. Charging' \subseteq Charging
    BY <2>2 DEF Charging
  <2>6. Accounts(0, 0)
    BY <2>2, <2>3, <2>4, <2>5, TraceKept DEF Accounts, Books
  <2> QED BY <1>1, <2>6, AccountsKeep
<1> QED BY <1>2, <1>3, <1>5, <1>6 DEF Next

LEMMA InitBooks == Init => Books
<1> SUFFICES ASSUME Init PROVE Books
  OBVIOUS
<1>1. trace = <<>> /\ used.tokens = 0 /\ used.steps = 0 /\ sibling = 0
  BY DEF Init
<1>2. FedReplies = {} /\ Charging = {}
  BY <1>1 DEF FedReplies, Charging, Init
<1>3. \A d \in Layers : Range(resolved[d]) = {}
  BY DEF Init, Range
<1>4. SumTo(Fees, 0) = 0
  <2>1. 0 \in Nat /\ \A i \in 1 .. 0 : Fees[i] \in Nat
    OBVIOUS
  <2> QED BY <2>1, SumsFacts
<1>5. Len(trace) = 0
  BY <1>1
<1>6. used.tokens = sibling + SumTo(Fees, Len(trace))
  BY <1>1, <1>4, <1>5
<1>7. Cardinality(FedReplies) + Cardinality(Charging) <= used.steps
  <2>1. Cardinality({}) = 0
    BY FS_EmptySet
  <2> QED BY <1>1, <1>2, <2>1
<1> QED BY <1>3, <1>6, <1>7 DEF Books

LEMMA BooksImply == IInv /\ Books => LedgerMatchesFeeds
<1> SUFFICES ASSUME IInv, Books PROVE Cardinality(FedReplies) <= used.steps
  BY DEF Books, LedgerMatchesFeeds
<1>1. Len(trace) \in Nat /\ FedReplies \subseteq 1 .. Len(trace) /\ used.steps \in Nat
  BY DEF FedReplies, IInv, Typed
<1>2. Charging \subseteq 0 .. MaxDepth
  BY DEF Charging, Layers
<1>3. IsFiniteSet(1 .. Len(trace)) /\ IsFiniteSet(0 .. MaxDepth)
  BY <1>1, DepthAssumption, FS_Interval
<1>4. IsFiniteSet(FedReplies) /\ IsFiniteSet(Charging)
  BY <1>1, <1>2, <1>3, FS_Subset
<1>5. Cardinality(FedReplies) \in Nat /\ Cardinality(Charging) \in Nat
  BY <1>4, FS_CardinalityType
<1>6. Cardinality(FedReplies) + Cardinality(Charging) <= used.steps
  BY DEF Books
<1> QED BY <1>1, <1>5, <1>6

(* Whatever order the replies of a batch come in, at whatever depth, and   *)
(* whatever another context charges between the two charges of a reply:    *)
(* the tokens on the shared ledger are those of the replies that reached a *)
(* machine and what the other context charged, and each such reply has a   *)
(* step paid for.                                                          *)
THEOREM LedgerCorrect == Spec => []LedgerMatchesFeeds
<1>1. Init => IInv /\ Books
  BY InitHolds, InitBooks
<1>2. IInv /\ Books /\ [Next]_vars => (IInv /\ Books)'
  BY NextKeeps, NextBooks
<1>3. IInv /\ Books => LedgerMatchesFeeds
  BY BooksImply
<1> QED BY <1>1, <1>2, <1>3, PTL DEF Spec
==============================================================================
