------------------------ MODULE ObservationProofs ------------------------
(***************************************************************************)
(* What an external agent does is notified once and in order, for any kind *)
(* of runtime and any bounds.                                              *)
(*                                                                         *)
(* That noted goes on being in order follows when whatever the machine     *)
(* has yet to be told is newer than all it was told.  This is more than    *)
(* one number: observations wait on the wire (out), in a session between   *)
(* two drives (carried) and in the handler's hands (op.got), and a machine *)
(* restored from an older state resumes with an older mark.  The invariant *)
(* has three parts.                                                        *)
(*                                                                         *)
(* InLine: in each session, what was read is in the order in which it was  *)
(* written, and older than what is still on the wire.                      *)
(* Beyond: what a session has yet to tell is past the mark of the machine  *)
(* that knows it, session.seq, and newer than all it was told; the mark is *)
(* all that observe compares, the order is what has to hold.               *)
(* News: an answer on its way to the machine is news, and what its session *)
(* still holds comes after it.                                             *)
(***************************************************************************)
EXTENDS ExternalSessionProofs

(* No observation of k frames has a higher number. *)
Top(k) == 2 * k + 2

(* Observations in the order in which their frames were written. *)
Rising(events, k) ==
    /\ \A i \in DOMAIN events : events[i].n <= Top(k)
    /\ \A i, j \in DOMAIN events : i < j => events[i].n < events[j].n

(* What has been read of a session was written before what is on the wire. *)
Before(events, out) == \A i \in DOMAIN events, j \in DOMAIN out : events[i].n <= 2 * out[j].n

OutRising(out, k) ==
    /\ \A i \in DOMAIN out : out[i].n <= k
    /\ \A i, j \in DOMAIN out : i < j => out[i].n < out[j].n

InLine(events, out, k) == Rising(events, k) /\ Before(events, out) /\ OutRising(out, k)

(* Events past the mark q and newer than n; a session with nothing else to tell. *)
Past(events, q, n) == \A i \in DOMAIN events : q < events[i].seq /\ n < events[i].n
Beyond(s, q, n) == q <= s.seq /\ Past(s.carried, q, n) /\ \A i \in DOMAIN s.out : n <= 2 * s.out[i].n

SessionsInLine == \A h \in Handles : InLine(sessions[h].carried, sessions[h].out, ledger.frames)

NotedFits == noted \in [last: Nat, ordered: {TRUE}] /\ noted.last <= Top(ledger.frames)

(* A session the machine knows has told it all but what is newer. *)
LiveBeyond ==
    \A h \in live : m.session.id # 0 /\ sessions[h].sid = m.session.id =>
        Beyond(sessions[h], m.session.seq, noted.last)

(* So has the one the handler holds; events are what it has read of it. *)
Tells(s, events) ==
    /\ s.carried = << >> /\ InLine(events, s.out, ledger.frames)
    /\ Past(events, m.session.seq, noted.last)

FutureBeyond ==
    /\ op.pc \in {"begin", "register", "advance", "read"} =>
          /\ m.session.id # 0 => sessions[op.h].sid = m.session.id
          /\ Beyond(sessions[op.h], m.session.seq, noted.last)
    /\ op.pc = "read" => Tells(sessions[op.h], op.got)

(* What is brought back to a machine that knows ref and was told of n is news, *)
(* and what the session has yet to tell comes after it.                        *)
News(result, ref, n, k) ==
    /\ Rising(result.events, k) /\ Past(result.events, ref.seq, n)
    /\ result.session.id = 0 => result.events = << >>
    /\ result.session.id # 0 /\ ref.id # 0 => result.session.id = ref.id /\ ref.seq <= result.session.seq

Follows(s, result, n) ==
    /\ Beyond(s, result.session.seq, n)
    /\ \A i \in DOMAIN result.events : Beyond(s, result.session.seq, result.events[i].n)

AnswerBeyond ==
    op.pc \in {"charge", "sweep", "done"} =>
        /\ News(op.got, m.session, noted.last, ledger.frames)
        /\ \A h \in live : op.got.session.id # 0 /\ sessions[h].sid = op.got.session.id =>
              Follows(sessions[h], op.got, noted.last)

NewsIInv == SessionsInLine /\ NotedFits /\ LiveBeyond /\ FutureBeyond /\ AnswerBeyond

LEMMA Numbers ==
    ASSUME NEW events \in Seq(Events), NEW out \in Seq(Frames)
    PROVE  /\ \A i \in DOMAIN events : i \in Nat /\ i >= 1 /\ events[i].n \in Nat /\ events[i].seq \in Nat
           /\ \A i \in DOMAIN out : i \in Nat /\ i >= 1 /\ out[i].n \in Nat
<1>1. \A i \in DOMAIN events : i \in Nat /\ i >= 1 /\ events[i] \in Events
  OBVIOUS
<1>2. \A i \in DOMAIN out : i \in Nat /\ i >= 1 /\ out[i] \in Frames
  OBVIOUS
<1>3. \A e \in Events : e.n \in Nat /\ e.seq \in Nat
  BY DEF Events
<1>4. \A f \in Frames : f.n \in Nat
  BY DEF Frames
<1> QED BY <1>1, <1>2, <1>3, <1>4

(* Frames go on being counted. *)
LEMMA RisingGrows ==
    ASSUME NEW events \in Seq(Events), NEW out \in Seq(Frames), NEW k \in Nat, NEW l \in Nat, k <= l
    PROVE  /\ Rising(events, k) => Rising(events, l)
           /\ InLine(events, out, k) => InLine(events, out, l)
<1>1. \A i \in DOMAIN events : events[i].n \in Nat
  BY Numbers
<1>2. \A i \in DOMAIN out : out[i].n \in Nat
  BY Numbers
<1>3. Top(k) <= Top(l) /\ Top(k) \in Nat /\ Top(l) \in Nat
  BY DEF Top
<1>4. Rising(events, k) => Rising(events, l)
  BY <1>1, <1>3 DEF Rising
<1>5. OutRising(out, k) => OutRising(out, l)
  BY <1>2 DEF OutRising
<1> QED BY <1>4, <1>5 DEF InLine

(* A frame is written. *)
LEMMA WrittenInLine ==
    ASSUME NEW events \in Seq(Events), NEW out \in Seq(Frames), NEW k \in Nat, InLine(events, out, k),
           NEW f \in Frames, f.n = k + 1
    PROVE  InLine(events, Append(out, f), k + 1)
<1> DEFINE q == Append(out, f)
<1>1. \A i \in DOMAIN events : events[i].n \in Nat
  BY Numbers
<1>2. \A i \in DOMAIN q : i \in Nat /\ ((i \in DOMAIN out /\ q[i] = out[i]) \/ (i = Len(out) + 1 /\ q[i] = f))
  OBVIOUS
<1>3. DOMAIN out = 1..Len(out) /\ Len(out) \in Nat /\ \A i \in DOMAIN out : i \in Nat /\ out[i].n \in Nat
  BY Numbers
<1> HIDE DEF q
<1>4. OutRising(q, k + 1)
  BY <1>2, <1>3 DEF OutRising, InLine
<1>5. Before(events, q)
  <2>1. \A i \in DOMAIN events : events[i].n <= 2 * f.n
    BY <1>1 DEF InLine, Rising, Top
  <2> QED BY <1>2, <2>1 DEF Before, InLine
<1>6. Rising(events, k + 1)
  BY RisingGrows DEF InLine
<1> QED BY <1>4, <1>5, <1>6 DEF InLine, q

LEMMA JoinOf ==
    ASSUME NEW p \in Seq(Events), NEW q \in Seq(Events)
    PROVE  LET all == p \o q
           IN  \A i \in DOMAIN all : \/ i \in DOMAIN p /\ i <= Len(p) /\ all[i] = p[i]
                                     \/ \E x \in DOMAIN q : i = Len(p) + x /\ all[i] = q[x]
<1> DEFINE all == p \o q
<1>1. /\ DOMAIN p = 1..Len(p) /\ DOMAIN q = 1..Len(q) /\ Len(p) \in Nat /\ Len(q) \in Nat
      /\ DOMAIN all = 1..(Len(p) + Len(q))
      /\ \A i \in DOMAIN all : all[i] = IF i <= Len(p) THEN p[i] ELSE q[i - Len(p)]
  OBVIOUS
<1> HIDE DEF all
<1>2. ASSUME NEW i \in DOMAIN all, ~(i <= Len(p))
      PROVE  i - Len(p) \in DOMAIN q /\ i = Len(p) + (i - Len(p))
  BY <1>1, <1>2
<1> QED BY <1>1, <1>2 DEF all

(* A frame is read: its observations are the newest, and are older than the next frame. *)
LEMMA ReadInLine ==
    ASSUME NEW events \in Seq(Events), NEW out \in Seq(Frames), out # << >>, NEW k \in Nat, InLine(events, out, k),
           NEW more \in Seq(Events), Len(more) <= 2, NEW seq \in Nat,
           \A i \in DOMAIN more : more[i] = [seq |-> seq + i, n |-> 2 * out[1].n + i],
           NEW q \in Nat, q <= seq, NEW n \in Nat, n <= 2 * out[1].n
    PROVE  /\ InLine(events \o more, Tail(out), k)
           /\ Past(events, q, n) => Past(events \o more, q, n)
           /\ \A i \in DOMAIN Tail(out) : n <= 2 * Tail(out)[i].n
<1> DEFINE all == events \o more
           rest == Tail(out)
           a == out[1].n
<1>1. /\ \A i \in DOMAIN events : i \in Nat /\ events[i].n \in Nat /\ events[i].seq \in Nat
      /\ \A i \in DOMAIN more : i \in Nat /\ i >= 1 /\ i <= 2
  BY Numbers
<1>2. \A i \in DOMAIN out : i \in Nat /\ out[i].n \in Nat
  BY Numbers
<1>3. 1 \in DOMAIN out /\ a \in Nat
  <2>1. 1 \in DOMAIN out
    BY TailOf
  <2> QED BY <1>2, <2>1
<1>4. \A i \in DOMAIN rest : i \in Nat /\ i >= 1 /\ i + 1 \in DOMAIN out /\ rest[i] = out[i + 1]
  BY TailOf
<1>5. \A i \in DOMAIN all : \/ i \in DOMAIN events /\ i <= Len(events) /\ all[i] = events[i]
                            \/ \E x \in DOMAIN more : i = Len(events) + x /\ all[i] = more[x]
  BY JoinOf
<1>6. Len(events) \in Nat /\ \A i \in DOMAIN events : i <= Len(events)
  OBVIOUS
<1> HIDE DEF all, rest
<1>7. \A i \in DOMAIN more : more[i].n = 2 * a + i /\ more[i].seq = seq + i
  <2> HIDE DEF a
  <2>1. \A i \in DOMAIN more : more[i] = [seq |-> seq + i, n |-> 2 * a + i]
    BY DEF a
  <2> QED BY <2>1
<1> HIDE DEF a
<1>8. \A i \in DOMAIN rest : rest[i].n \in Nat /\ a < rest[i].n
  <2> TAKE i \in DOMAIN rest
  <2>1. 1 \in DOMAIN out /\ i + 1 \in DOMAIN out /\ 1 < i + 1 /\ rest[i] = out[i + 1]
    BY <1>3, <1>4
  <2>2. out[1].n < out[i + 1].n
    BY <2>1 DEF InLine, OutRising
  <2> QED BY <1>2, <2>1, <2>2 DEF a
<1>9. OutRising(rest, k)
  <2>1. \A i, j \in DOMAIN rest : i < j => i + 1 < j + 1
    BY <1>4
  <2> QED BY <1>4, <2>1 DEF InLine, OutRising
<1>10. \A i \in DOMAIN events : events[i].n <= 2 * a
  BY <1>3 DEF InLine, Before, a
<1>11. Before(all, rest)
  <2>1. \A i \in DOMAIN events, j \in DOMAIN rest : events[i].n <= 2 * rest[j].n
    BY <1>1, <1>3, <1>8, <1>10
  <2>2. \A i \in DOMAIN more, j \in DOMAIN rest : more[i].n <= 2 * rest[j].n
    BY <1>1, <1>3, <1>7, <1>8
  <2> QED BY <1>5, <2>1, <2>2 DEF Before
<1>12. \A i \in DOMAIN all : all[i].n <= Top(k)
  <2>1. a <= k
    BY <1>3 DEF InLine, OutRising, a
  <2>2. \A i \in DOMAIN more : more[i].n <= Top(k)
    BY <1>1, <1>3, <1>7, <2>1 DEF Top
  <2> QED BY <1>5, <2>2 DEF InLine, Rising
<1>13. \A i, j \in DOMAIN all : i < j => all[i].n < all[j].n
  <2> SUFFICES ASSUME NEW i \in DOMAIN all, NEW j \in DOMAIN all, i < j PROVE all[i].n < all[j].n
    OBVIOUS
  <2>1. CASE i \in DOMAIN events /\ j \in DOMAIN events
    BY <1>5, <1>6, <2>1 DEF InLine, Rising
  <2>2. CASE i \in DOMAIN events /\ \E y \in DOMAIN more : j = Len(events) + y /\ all[j] = more[y]
    <3>1. PICK y \in DOMAIN more : j = Len(events) + y /\ all[j] = more[y]
      BY <2>2
    <3>2. i <= Len(events) /\ all[i] = events[i]
      BY <1>1, <1>5, <1>6, <2>2
    <3>3. events[i].n \in Nat /\ events[i].n <= 2 * a /\ more[y].n = 2 * a + y /\ y \in Nat /\ y >= 1
      BY <1>1, <1>7, <1>10, <2>2
    <3> QED BY <1>3, <3>1, <3>2, <3>3
  <2>3. ASSUME NEW x \in DOMAIN more, i = Len(events) + x, all[i] = more[x] PROVE all[i].n < all[j].n
    <3>0. ASSUME j \in DOMAIN events PROVE FALSE
      <4>1. j \in Nat /\ j <= Len(events) /\ x \in Nat /\ x >= 1
        BY <1>1, <1>6, <2>3, <3>0
      <4> QED BY <1>6, <2>3, <4>1
    <3>1. PICK y \in DOMAIN more : j = Len(events) + y /\ all[j] = more[y]
      BY <1>5, <3>0
    <3>2. x < y
      BY <1>1, <1>6, <2>3, <3>1
    <3> QED BY <1>1, <1>3, <1>7, <2>3, <3>1, <3>2
  <2> QED BY <1>5, <2>1, <2>2, <2>3
<1>14. Past(events, q, n) => Past(all, q, n)
  <2>1. \A i \in DOMAIN more : q < more[i].seq /\ n < more[i].n
    BY <1>1, <1>3, <1>7 DEF a
  <2> QED BY <1>5, <2>1 DEF Past
<1>15. \A i \in DOMAIN rest : n <= 2 * rest[i].n
  BY <1>3, <1>8 DEF a
<1> QED BY <1>9, <1>11, <1>12, <1>13, <1>14, <1>15 DEF InLine, Rising, all, rest

-----------------------------------------------------------------------------
(***************************************************************************)
(* What a step of the machine notifies.                                    *)
(***************************************************************************)

LEMMA CountedUp ==
    ASSUME NEW n \in Nat
    PROVE  Cardinality(1..n) = n
<1>1. 1 \in Int /\ n \in Int
  OBVIOUS
<1>2. Cardinality(1..n) = IF 1 > n THEN 0 ELSE n - 1 + 1
  BY <1>1, FS_Interval
<1> QED BY <1>2

(* All is new that is past the mark. *)
LEMMA ObserveAll ==
    ASSUME NEW x, NEW events \in Seq(Events), \A i \in DOMAIN events : events[i].seq > x.session.seq
    PROVE  observe(x, events) = events
<1> DEFINE n == Len(events)
           new == {i \in DOMAIN events : events[i].seq > x.session.seq}
           nth(k) == CHOOSE i \in new : Cardinality({j \in new : j <= i}) = k
<1>1. n \in Nat /\ DOMAIN events = 1..n /\ events = [k \in 1..n |-> events[k]]
  OBVIOUS
<1>2. new = 1..n
  BY <1>1
<1>3. Cardinality(new) = n
  <2> HIDE DEF new, n
  <2> QED BY <1>1, <1>2, CountedUp
<1>4. ASSUME NEW k \in 1..n PROVE nth(k) = k
  <2>1. ASSUME NEW i \in new PROVE Cardinality({j \in new : j <= i}) = i
    <3> HIDE DEF new, n
    <3>1. {j \in new : j <= i} = 1..i /\ i \in Nat
      BY <1>1, <1>2
    <3> QED BY <3>1, CountedUp
  <2> HIDE DEF new
  <2> QED BY <1>2, <2>1
<1>5. observe(x, events) = [k \in 1..Cardinality(new) |-> events[nth(k)]]
  BY DEF observe
<1> HIDE DEF new, nth, n
<1> QED BY <1>1, <1>3, <1>4, <1>5

Says(o, notes) == o.notes \in {<< >>, notes}

LEMMA FailSays ==
    ASSUME NEW x, NEW notes
    PROVE  Says(fail_with(x, notes), notes) /\ Says(fail_with(x, << >>), notes) /\ Says(fail(x), notes)
BY DEF Says, fail_with, fail, Outcome

LEMMA BlockSays ==
    ASSUME NEW x, NEW input, NEW notes
    PROVE  Says(block_on_session(x, input), notes)
BY FailSays DEF block_on_session, Says, Outcome

LEMMA RespondSays ==
    ASSUME NEW x, NEW b, NEW notes
    PROVE  Says(respond_with_tool_batch(x, b), notes)
BY FailSays, BlockSays DEF respond_with_tool_batch

(* What was observed, or nothing. *)
LEMMA FoldSays ==
    ASSUME NEW x, NEW result \in Results
    PROVE  Says(fold_session_result(x, result), observe(x, result.events))
<1> DEFINE notes == observe(x, result.events)
<1> HIDE DEF notes
<1>1. result.kind \in {"Failed", "Completed"} \cup PauseKinds
  BY DEF Results
<1>2. Says(complete_session(x, result, notes), notes)
  BY FailSays DEF complete_session, Says, Outcome
<1>3. ASSUME NEW kind, NEW where, NEW ifFailed \in {<< >>, notes}
      PROVE  Says(pause_for(x, result, kind, where, notes, ifFailed), notes)
  BY FailSays DEF pause_for, Says, Outcome
<1>4. Says(pause_for_tool_calls(x, result, notes), notes)
  BY FailSays, RespondSays DEF pause_for_tool_calls, Says, Outcome
<1>5. Says(fail_with(IF result.session.id = 0 THEN x ELSE [x EXCEPT !.session = result.session], notes), notes)
  BY FailSays
<1> QED
  BY <1>1, <1>2, <1>3, <1>4, <1>5 DEF fold_session_result, notes, PauseKinds, pause_for_interaction, pause_for_subagent

LEMMA ResumeSays ==
    ASSUME NEW x, NEW resolution \in Resolutions
    PROVE  IF resolution.kind = "ExternalSession"
           THEN Says(resume(x, resolution), observe(x, resolution.result.events))
           ELSE resume(x, resolution).notes = << >>
<1> DEFINE notes == IF resolution.kind = "ExternalSession" THEN observe(x, resolution.result.events) ELSE << >>
<1>1. resolution.kind = "ExternalSession" => resolution.result \in Results
  BY DEF Resolutions
<1>2. Says(resume_session(x, resolution), notes)
  BY <1>1, FoldSays, FailSays DEF resume_session, Addressed
<1> HIDE DEF notes
<1>3. Says(resume_interaction(x, resolution), notes) /\ Says(resume_subagent(x, resolution), notes)
  BY BlockSays, FailSays DEF resume_interaction, resume_subagent
<1>4. Says(resume_tool(x, resolution), notes)
  <2>1. \A y : Says(Outcome(y, << >>, {}), notes)
    BY DEF Says, Outcome
  <2> QED BY <2>1, FailSays, RespondSays DEF resume_tool
<1>5. Says(resume(x, resolution), notes)
  BY <1>2, <1>3, <1>4, FailSays DEF resume
<1> QED BY <1>5 DEF Says, notes

LEMMA StepSays ==
    ASSUME NEW x, NEW input
    PROVE  step(x, input).notes = << >> /\ abandon(x).notes = << >> /\ interrupt_budget_exhausted(x).notes = << >>
<1>1. Says(step(x, input), << >>)
  BY FailSays, BlockSays DEF step, begin_user_turn
<1> QED BY <1>1 DEF Says, abandon, interrupt_budget_exhausted, Outcome

(* News is notified in order. *)
LEMMA NotesInOrder ==
    ASSUME NEW o, Stepped(o), noted \in [last: Nat, ordered: {TRUE}], NEW k, NEW q,
           o.notes \in Seq(Events), Rising(o.notes, k), Past(o.notes, q, noted.last)
    PROVE  /\ noted' \in [last: Nat, ordered: {TRUE}]
           /\ \/ o.notes = << >> /\ noted' = noted
              \/ o.notes # << >> /\ \E i \in DOMAIN o.notes : noted'.last = o.notes[i].n
<1> DEFINE notes == o.notes
           seen == <<noted.last>> \o [i \in DOMAIN notes |-> notes[i].n]
           n == Len(notes)
<1>1. n \in Nat /\ DOMAIN notes = 1..n /\ \A i \in 1..n : notes[i].n \in Nat
  <2>1. \A e \in Events : e.n \in Nat
    BY DEF Events
  <2> QED BY <2>1
<1>2. /\ Len(seen) = n + 1
      /\ seen[1] = noted.last /\ \A i \in 1..n : seen[i + 1] = notes[i].n
  <2> DEFINE ns == [i \in DOMAIN notes |-> notes[i].n]
  <2>1. ns \in Seq(Nat) /\ Len(ns) = n /\ \A i \in 1..n : ns[i] = notes[i].n
    BY <1>1
  <2> HIDE DEF ns
  <2>2. seen = <<noted.last>> \o ns
    BY DEF ns
  <2> HIDE DEF seen, n
  <2> QED BY <1>1, <2>1, <2>2
<1>3. noted' = [last |-> seen[Len(seen)], ordered |-> noted.ordered /\ \A i \in 2..Len(seen) : seen[i - 1] < seen[i]]
  BY DEF Stepped
<1>4. noted.last \in Nat /\ noted.ordered = TRUE
  OBVIOUS
<1> HIDE DEF seen, notes, n
<1>5. \A i \in 1..n : noted.last < notes[i].n
  BY <1>1 DEF Past, notes
<1>6. \A i, j \in 1..n : i < j => notes[i].n < notes[j].n
  BY <1>1 DEF Rising, notes
<1>7. \A i \in 2..Len(seen) : seen[i - 1] < seen[i]
  <2> SUFFICES ASSUME NEW i \in 2..(n + 1) PROVE seen[i - 1] < seen[i]
    BY <1>1, <1>2
  <2>1. i - 1 \in 1..n /\ seen[i] = notes[i - 1].n
    BY <1>1, <1>2
  <2>2. CASE i = 2
    BY <1>2, <1>5, <2>1, <2>2
  <2>3. CASE i # 2
    <3>1. i - 2 \in 1..n /\ i - 2 < i - 1 /\ seen[(i - 2) + 1] = notes[i - 2].n /\ (i - 2) + 1 = i - 1
      BY <1>1, <1>2, <2>3
    <3> QED BY <1>6, <2>1, <3>1
  <2> QED BY <2>2, <2>3
<1>8. noted' = [last |-> seen[Len(seen)], ordered |-> TRUE]
  BY <1>3, <1>4, <1>7
<1>9. CASE n = 0
  <2>1. seen[Len(seen)] = noted.last /\ notes = << >>
    BY <1>1, <1>2, <1>9 DEF n, notes
  <2> QED BY <1>4, <1>8, <2>1 DEF notes
<1>10. CASE n # 0
  <2>1. n \in 1..n /\ seen[Len(seen)] = notes[n].n /\ notes[n].n \in Nat
    BY <1>1, <1>2, <1>10
  <2>2. notes # << >>
    BY <1>1, <1>10 DEF n
  <2> QED BY <1>1, <1>8, <2>1, <2>2 DEF notes
<1> QED BY <1>9, <1>10

-----------------------------------------------------------------------------
(***************************************************************************)
(* What becomes of a session.                                              *)
(***************************************************************************)

(* It has no more to tell than it had, but for the frames to come. *)
Goes(t, s) ==
    InLine(s.carried, s.out, ledger.frames) =>
        /\ InLine(t.carried, t.out, ledger'.frames)
        /\ \A q, n \in Nat : n <= Top(ledger.frames) /\ Beyond(s, q, n) => Beyond(t, q, n)

Counting == ledger.frames \in Nat /\ ledger'.frames \in Nat /\ ledger.frames <= ledger'.frames

(* Nothing was read, or all that was is forgotten. *)
LEMMA GoesOn ==
    ASSUME Counting, NEW s \in Sessions, NEW t, t.carried \in {s.carried, << >>}, t.out \in {s.out, << >>},
           t.seq = s.seq
    PROVE  Goes(t, s)
<1>1. s.carried \in Seq(Events) /\ s.out \in Seq(Frames)
  BY DEF Sessions
<1>2. DOMAIN << >> = {} /\ << >> \in Seq(Events) /\ << >> \in Seq(Frames)
  OBVIOUS
<1>3. t.carried \in Seq(Events) /\ t.out \in Seq(Frames)
  BY <1>1, <1>2
<1>4. InLine(s.carried, s.out, ledger.frames) => InLine(t.carried, t.out, ledger.frames)
  BY <1>2 DEF InLine, Rising, Before, OutRising
<1>5. InLine(t.carried, t.out, ledger.frames) => InLine(t.carried, t.out, ledger'.frames)
  BY <1>3, RisingGrows DEF Counting
<1>6. \A q, n \in Nat : Beyond(s, q, n) => Beyond(t, q, n)
  BY <1>2 DEF Beyond, Past
<1> QED BY <1>4, <1>5, <1>6 DEF Goes

(* A frame was read; its observations are carried, or are in other hands. *)
LEMMA GoesByReading ==
    ASSUME Counting, NEW s \in Sessions, s.out # << >>, NEW d, NEW t,
           Observes(d, s, s.out[1]), t.carried \in {s.carried, s.carried \o d.events}, t.out = Tail(s.out),
           t.seq = s.seq + Len(d.events)
    PROVE  Goes(t, s)
<1> DEFINE more == d.events
           k == ledger.frames
           a == s.out[1].n
<1>1. s.carried \in Seq(Events) /\ s.out \in Seq(Frames) /\ s.seq \in Nat
  BY DEF Sessions
<1>2. more \in Seq(Events) /\ Len(more) <= 2 /\ \A i \in DOMAIN more : more[i] = [seq |-> s.seq + i, n |-> 2 * a + i]
  BY DEF Observes
<1>3. << >> \in Seq(Events) /\ Len(<< >>) <= 2 /\ DOMAIN << >> = {} /\ s.carried \o << >> = s.carried
  BY <1>1
<1>4. k \in Nat /\ ledger'.frames \in Nat /\ k <= ledger'.frames
  BY DEF Counting
<1>5. 1 \in DOMAIN s.out /\ Len(more) \in Nat
  BY <1>1, <1>2, TailOf
<1>6. a \in Nat
  BY <1>1, <1>5, Numbers
<1>7. t.carried \in Seq(Events) /\ t.out \in Seq(Frames)
  <2>1. \A p, r \in Seq(Events) : p \o r \in Seq(Events)
    OBVIOUS
  <2>2. Tail(s.out) \in Seq(Frames)
    BY <1>1
  <2> QED BY <1>1, <1>2, <2>1, <2>2
<1> HIDE DEF more, a, k
<1>8. ASSUME InLine(s.carried, s.out, k), NEW q \in Nat, q <= s.seq, NEW n \in Nat, n <= 2 * a
      PROVE  /\ InLine(t.carried, t.out, k)
             /\ Past(s.carried, q, n) => Past(t.carried, q, n)
             /\ \A i \in DOMAIN t.out : n <= 2 * t.out[i].n
  <2>1. CASE t.carried = s.carried \o more
    <3>1. /\ InLine(s.carried \o more, Tail(s.out), k)
          /\ Past(s.carried, q, n) => Past(s.carried \o more, q, n)
          /\ \A i \in DOMAIN Tail(s.out) : n <= 2 * Tail(s.out)[i].n
      BY <1>1, <1>2, <1>4, <1>8, ReadInLine DEF a
    <3> QED BY <2>1, <3>1
  <2>2. CASE t.carried = s.carried \o << >>
    BY <1>1, <1>3, <1>4, <1>8, <2>2, ReadInLine DEF a
  <2> QED BY <1>3, <2>1, <2>2 DEF more
<1>9. ASSUME InLine(s.carried, s.out, k) PROVE InLine(t.carried, t.out, ledger'.frames)
  <2>1. InLine(t.carried, t.out, k)
    <3>1. 0 \in Nat /\ 0 <= s.seq /\ 0 <= 2 * a
      BY <1>1, <1>6
    <3> QED BY <1>8, <1>9, <3>1
  <2> QED BY <1>4, <1>7, <2>1, RisingGrows
<1>10. ASSUME InLine(s.carried, s.out, k), NEW q \in Nat, NEW n \in Nat, Beyond(s, q, n) PROVE Beyond(t, q, n)
  <2>1. q <= s.seq /\ q <= t.seq /\ n <= 2 * a /\ Past(s.carried, q, n)
    BY <1>1, <1>5, <1>10 DEF Beyond, a, more
  <2> QED BY <1>8, <1>10, <2>1 DEF Beyond
<1> QED BY <1>9, <1>10 DEF Goes, k

USE ConfigsAssumption, BoundsAssumption, ToolsAssumption, EndingsAssumption DEF Handles

(* The machine hears of nothing new but by a delivery. *)
LEMMA NotedChanges ==
    ASSUME Types, NotedFits, Next
    PROVE  \/ UNCHANGED noted /\ (m'.session = m.session \/ (Restart /\ live' = {}))
           \/ Deliver
<1> DEFINE Fits == noted \in [last: Nat, ordered: {TRUE}]
<1>0. Fits
  BY DEF NotedFits
<1>1. ASSUME NEW o, Stepped(o), o.notes = << >> PROVE UNCHANGED noted
  <2>1. o.notes \in Seq(Events) /\ DOMAIN o.notes = {}
    BY <1>1
  <2>2. Rising(o.notes, 0) /\ Past(o.notes, 0, noted.last)
    BY <2>1 DEF Rising, Past
  <2> QED BY <1>0, <1>1, <2>1, <2>2, NotesInOrder
<1>2. ASSUME NEW resolution \in Resolutions, resolution.kind # "ExternalSession", NEW rest, Feed(resolution, rest)
      PROVE  UNCHANGED noted
  <2>1. resume(m, resolution).notes = << >> /\ Stepped(resume(m, resolution))
    BY <1>2, ResumeSays DEF Feed
  <2> QED BY <1>1, <2>1
<1>3. ASSUME UserMessage \/ Abandon \/ BudgetStops PROVE UNCHANGED noted
  <2>1. \/ \E input : Stepped(step(m, input))
        \/ Stepped(abandon(m)) \/ Stepped(interrupt_budget_exhausted(m))
    BY <1>3 DEF UserMessage, Abandon, BudgetStops
  <2> QED BY <1>1, <2>1, StepSays
<1>4. ASSUME Resolve \/ LateAnswer PROVE UNCHANGED noted
  <2>1. CASE Resolve
    <3>1. PICK req \in asked, result \in {"ok", "error"} :
             /\ req.kind # "ExternalSession"
             /\ Feed([id |-> req.id, kind |-> req.kind, result |-> result], asked \ {req})
      BY <2>1 DEF Resolve
    <3>2. req \in Others
      BY <3>1 DEF Types, Machinery, Requests
    <3>3. [id |-> req.id, kind |-> req.kind, result |-> result] \in Resolutions
      BY <3>2 DEF Others, Resolutions
    <3> QED BY <1>2, <3>1, <3>3
  <2>2. CASE LateAnswer
    <3>1. PICK id \in 1..(m.nextId - 1), kind \in {"Interaction", "Tool", "Subagent"} :
             Feed([id |-> id, kind |-> kind, result |-> "ok"], asked)
      BY <2>2 DEF LateAnswer
    <3>2. m.nextId \in Nat
      BY DEF Types, Machinery, Coherent, IsMachine, Machines
    <3>3. [id |-> id, kind |-> kind, result |-> "ok"] \in Resolutions
      BY <3>2 DEF Resolutions
    <3> QED BY <1>2, <3>1, <3>3
  <2> QED BY <1>4, <2>1, <2>2
<1>5. \/ UNCHANGED noted \/ UserMessage \/ Abandon \/ BudgetStops \/ Resolve \/ LateAnswer \/ Deliver
  BY DEF Next, Handler, Driver, Runtime, Host, driving,
         Fulfill, Prepare, Launch, BeginReads, BeginFails, Register, Advance, AdvanceReads,
         AdvanceFails, Charge, HandlerSweeps, RuntimeWrites, RuntimeExits, StartHandler, Cancel,
         OthersSpend, Reconfigure, HostSweeps, HostCloses, HostClears, Restart, Save
<1>6. Deliver \/ m'.session = m.session \/ (Restart /\ live' = {})
  <2>1. Restart => live' = {}
    BY DEF Restart
  <2> QED BY <2>1, MachineChanges DEF Left, Took, Lost, Retooled
<1> QED BY <1>3, <1>4, <1>5, <1>6

LEMMA FramesCounted ==
    ASSUME Types, NEW h, RuntimeWrites(h)
    PROVE  ledger'.frames = ledger.frames + 1
<1> DEFINE n == ledger.frames + 1
<1>1. ledger \in [prompts: Nat, frames: Nat, troubles: Nat, trees: Nat]
  BY DEF Types, Accounts
<1>2. ledger' = [ledger EXCEPT !.frames = n] \/ ledger' = [[ledger EXCEPT !.frames = n] EXCEPT !.troubles = @ + 1]
  BY DEF RuntimeWrites
<1> HIDE DEF n
<1>3. ledger'.frames = n
  BY <1>1, <1>2
<1> QED BY <1>3 DEF n

LEMMA Counts ==
    ASSUME Types, FramesFit, Next
    PROVE  Counting
<1>1. Accounts /\ Accounts' /\ ledger'.frames >= ledger.frames
  BY AccountsKept DEF Types
<1>2. ledger.frames \in Nat /\ ledger'.frames \in Nat
  BY <1>1 DEF Accounts
<1> QED BY <1>1, <1>2 DEF Counting

(* What has been read of a frame, and what is left. *)
LEMMA DecodedTells ==
    ASSUME Types, FramesFit, NEW h \in Handles, sessions[h].out # << >>
    PROVE  LET s == sessions[h]
               d == Decoded(h)
           IN  /\ s \in Sessions /\ d.s \in Sessions /\ Observes(d, s, s.out[1])
               /\ d.s.carried = s.carried /\ d.s.out = Tail(s.out) /\ d.s.seq = s.seq + Len(d.events)
<1> DEFINE s == sessions[h]
           d == Decoded(h)
           r == Rest(h)
<1>1. s \in Sessions /\ s.out \in Seq(Frames)
  <2>1. s \in Sessions
    BY DEF Types, Stock
  <2> QED BY <2>1 DEF Sessions
<1>2. Reader(d.s, r) /\ Observes(d, r, Frame(h))
  BY DecodedFits DEF Types, Decoding
<1>3. Frame(h) = s.out[1]
  BY <1>1, TailOf DEF Frame
<1>4. r.carried = s.carried /\ r.seq = s.seq /\ r.out = Tail(s.out)
  BY <1>1 DEF Rest, Sessions
<1> HIDE DEF s, d, r
<1>5. Observes(d, s, s.out[1])
  BY <1>2, <1>3, <1>4 DEF Observes
<1>6. d.s \in Sessions /\ d.s.seq = s.seq + Len(d.events)
  BY <1>2, <1>5 DEF Reader, Observes
<1>7. d.s.carried = s.carried /\ d.s.out = Tail(s.out)
  BY <1>2, <1>4 DEF Reader
<1> QED BY <1>1, <1>5, <1>6, <1>7 DEF s, d

LEMMA RestsTells ==
    ASSUME NEW t, NEW s, Rests(t, s), NEW events
    PROVE  /\ session_ref(t) = session_ref(s) /\ (Tells(s, events) => Tells(t, events))
           /\ \A u : Goes(s, u) => Goes(t, u)
BY DEF Rests, Alike, session_ref, Tells, Goes, Beyond

(* The handler goes on with what it has read of the session, or answers. *)
Brings(result, t, events) ==
    \/ result.session.id = 0 /\ result.events = << >>
    \/ result.session = session_ref(t) /\ result.events \in {<< >>, events}

Hands(t, events) ==
    /\ events \in Seq(Events) /\ Tells(t, events)
    /\ \/ op'.pc = "read" /\ op'.h = op.h /\ op'.got = events
       \/ op'.pc \in {"charge", "done"} /\ Brings(op'.got, t, events)

HandsOver(h) == One(h) /\ Goes(sessions'[h], sessions[h]) /\ \E events : Hands(sessions'[h], events)

LEMMA FinishBrings ==
    ASSUME NEW t, NEW decision, NEW events, NEW error, error.id = 0 \/ error = session_ref(t)
    PROVE  Brings(finish(t, decision, events), t, events) /\ Brings(Failed(error, << >>), t, events)
<1>1. Brings(Failed(error, << >>), t, events)
  BY DEF Brings, Failed
<1>2. Brings(Failed(Unknown, << >>), t, events)
  BY DEF Brings, Failed, Unknown
<1> QED BY <1>1, <1>2 DEF Brings, finish

LEMMA ReleasedBrings ==
    ASSUME Types, op.h \in Handles, NEW t \in Sessions, Goes(t, sessions[op.h]),
           NEW events \in Seq(Events), Tells(t, events), NEW result, Brings(result, t, events), Released(t, result)
    PROVE  HandsOver(op.h)
<1>1. One(op.h) /\ Rests(sessions'[op.h], t)
  BY ReleasedAlike DEF Types
<1>2. op'.got = result /\ op'.pc \in {"charge", "done"}
  BY ReleasedHands
<1>3. Brings(result, sessions'[op.h], events) /\ Tells(sessions'[op.h], events) /\ Goes(sessions'[op.h], sessions[op.h])
  BY <1>1, RestsTells DEF Brings
<1> QED BY <1>1, <1>2, <1>3 DEF HandsOver, Hands

LEMMA AdvanceHands ==
    ASSUME Types, FramesFit, SessionsInLine, FutureBeyond, Counting, Advance
    PROVE  HandsOver(op.h)
<1> DEFINE h == op.h
           s == sessions[h]
           r == Readied(h)
<1>1. op.pc = "advance" /\ h \in Handles /\ op # NoOp /\ Stock
  BY DEF Advance, Types, Operation, NoOp
<1>2. /\ s \in Sessions /\ r \in Sessions /\ r.out = s.out /\ r.seq = s.seq /\ r.carried = << >>
      /\ \A way \in Ways(h) : Way(way, r, config.flavor)
  BY <1>1, ReadiedFits DEF Stock
<1>3. s.carried \in Seq(Events) /\ InLine(s.carried, s.out, ledger.frames) /\ Past(s.carried, m.session.seq, noted.last)
  <2>1. s.carried \in Seq(Events)
    BY <1>2 DEF Sessions
  <2>2. Past(s.carried, m.session.seq, noted.last)
    BY <1>1 DEF FutureBeyond, Beyond
  <2> QED BY <1>1, <2>1, <2>2 DEF SessionsInLine
<1>4. \/ Released(r, finish(r, s.decision, s.carried))
      \/ \E way \in Ways(h) :
            \/ /\ sessions' = [sessions EXCEPT ![h] = way.s]
               /\ op' = [op EXCEPT !.pc = "read", !.got = s.carried]
            \/ Released(way.s, Failed(way.error, << >>))
  BY Zenon DEF Advance, Readied, Ways
<1> HIDE DEF s, r
<1>5. ASSUME NEW t, t.carried = << >>, t.out \in {s.out, << >>}, t.seq = s.seq
      PROVE  Goes(t, s) /\ Tells(t, s.carried)
  <2>1. Goes(t, s)
    BY <1>2, <1>5, GoesOn
  <2>2. Before(s.carried, t.out) /\ OutRising(t.out, ledger.frames)
    <3>1. DOMAIN << >> = {}
      OBVIOUS
    <3> QED BY <1>3, <1>5, <3>1 DEF InLine, Before, OutRising
  <2> QED BY <1>3, <1>5, <2>1, <2>2 DEF Tells, InLine
<1>6. CASE Released(r, finish(r, s.decision, s.carried))
  <2>1. Brings(finish(r, s.decision, s.carried), r, s.carried)
    BY FinishBrings
  <2> QED BY <1>1, <1>2, <1>3, <1>5, <1>6, <2>1, ReleasedBrings DEF s
<1>7. ASSUME NEW way \in Ways(h)
      PROVE  way.s \in Sessions /\ Goes(way.s, s) /\ Tells(way.s, s.carried)
             /\ Brings(Failed(way.error, << >>), way.s, s.carried)
  <2>1. Way(way, r, config.flavor)
    BY <1>2
  <2>2. way.error.id = 0 \/ way.error = session_ref(way.s)
    BY <1>2, <2>1 DEF Way, Keeps, session_ref, NoSession
  <2> QED BY <1>2, <1>5, <2>1, <2>2, FinishBrings DEF Way, Keeps
<1>8. CASE \E way \in Ways(h) : Released(way.s, Failed(way.error, << >>))
  BY <1>1, <1>3, <1>7, <1>8, ReleasedBrings DEF s
<1>9. ASSUME NEW way \in Ways(h), sessions' = [sessions EXCEPT ![h] = way.s],
             op' = [op EXCEPT !.pc = "read", !.got = s.carried]
      PROVE  HandsOver(h)
  <2>1. One(h) /\ sessions'[h] = way.s
    BY <1>1, <1>9, OneMoves
  <2>2. op'.pc = "read" /\ op'.h = h /\ op'.got = s.carried
    BY <1>1, <1>9, OpFits DEF Types, IsOperation
  <2> QED BY <1>3, <1>7, <2>1, <2>2 DEF HandsOver, Hands, s
<1> QED BY <1>4, <1>6, <1>8, <1>9

LEMMA AdvanceReadsHands ==
    ASSUME Types, FramesFit, SessionsInLine, FutureBeyond, NotedFits, Counting, AdvanceReads
    PROVE  HandsOver(op.h)
<1> DEFINE h == op.h
           s == sessions[h]
           d == Decoded(h)
           got == op.got \o d.events
<1>1. op.pc = "read" /\ h \in Handles /\ s.out # << >> /\ Stock /\ op.got \in Seq(Events) /\ op # NoOp
  BY DEF AdvanceReads, Types, Operation, NoOp
<1>2. /\ s \in Sessions /\ d.s \in Sessions /\ Observes(d, s, s.out[1])
      /\ d.s.carried = s.carried /\ d.s.out = Tail(s.out) /\ d.s.seq = s.seq + Len(d.events)
  BY <1>1, DecodedTells
<1>3. Tells(s, op.got) /\ Beyond(s, m.session.seq, noted.last)
  BY <1>1 DEF FutureBeyond
<1>4. \/ Released(d.s, Failed(NoSession, << >>))
      \/ Released(d.s, finish(d.s, d.decision, got))
      \/ sessions' = [sessions EXCEPT ![h] = d.s] /\ op' = [op EXCEPT !.got = got]
  BY Zenon DEF AdvanceReads
<1>5. m.session.seq \in Nat /\ noted.last \in Nat /\ ledger.frames \in Nat
  BY DEF Types, Machinery, Coherent, IsMachine, Machines, Refs, NotedFits, Counting
<1> HIDE DEF s, d, got
<1>6. Goes(d.s, s)
  BY <1>1, <1>2, GoesByReading DEF s
<1>7. got \in Seq(Events) /\ Tells(d.s, got)
  <2>1. s.out \in Seq(Frames) /\ s.seq \in Nat /\ d.events \in Seq(Events)
    BY <1>2 DEF Sessions, Observes
  <2>2. 1 \in DOMAIN s.out
    BY <1>1, <2>1, TailOf DEF s
  <2>3. m.session.seq <= s.seq /\ noted.last <= 2 * s.out[1].n
    BY <1>3, <2>2 DEF Beyond
  <2>4. Len(d.events) <= 2 /\ \A i \in DOMAIN d.events : d.events[i] = [seq |-> s.seq + i, n |-> 2 * s.out[1].n + i]
    BY <1>2 DEF Observes
  <2>5. InLine(op.got, s.out, ledger.frames) /\ Past(op.got, m.session.seq, noted.last) /\ s.carried = << >>
    BY <1>3 DEF Tells
  <2>6. /\ InLine(op.got \o d.events, Tail(s.out), ledger.frames)
        /\ Past(op.got, m.session.seq, noted.last) => Past(op.got \o d.events, m.session.seq, noted.last)
    BY <1>1, <1>5, <2>1, <2>3, <2>4, <2>5, ReadInLine DEF s
  <2> QED BY <1>1, <1>2, <2>1, <2>5, <2>6 DEF Tells, got
<1>8. CASE Released(d.s, Failed(NoSession, << >>)) \/ Released(d.s, finish(d.s, d.decision, got))
  <2>1. NoSession.id = 0
    BY DEF NoSession
  <2> QED BY <1>1, <1>2, <1>6, <1>7, <1>8, <2>1, FinishBrings, ReleasedBrings DEF s
<1>9. CASE sessions' = [sessions EXCEPT ![h] = d.s] /\ op' = [op EXCEPT !.got = got]
  <2>1. One(h) /\ sessions'[h] = d.s
    BY <1>1, <1>9, OneMoves
  <2>2. op'.pc = "read" /\ op'.h = h /\ op'.got = got
    BY <1>1, <1>9, OpFits DEF Types, IsOperation
  <2> QED BY <1>6, <1>7, <2>1, <2>2 DEF HandsOver, Hands, s
<1> QED BY <1>4, <1>8, <1>9

LEMMA AdvanceFailsHands ==
    ASSUME Types, FramesFit, FutureBeyond, Counting, AdvanceFails
    PROVE  HandsOver(op.h)
<1> DEFINE s == sessions[op.h]
<1>1. op.pc = "read" /\ op.h \in Handles /\ op.got \in Seq(Events) /\ Released(s, Failed(session_ref(s), << >>))
  BY DEF AdvanceFails, Types, Operation
<1>2. s \in Sessions /\ Tells(s, op.got)
  <2>1. s \in Sessions
    BY <1>1 DEF Types, Stock
  <2> QED BY <1>1, <2>1 DEF FutureBeyond
<1>3. Goes(s, s)
  BY <1>2, GoesOn
<1>4. Brings(Failed(session_ref(s), << >>), s, op.got)
  BY FinishBrings
<1> HIDE DEF s
<1> QED BY <1>1, <1>2, <1>3, <1>4, ReleasedBrings DEF s

(* Nobody tells a session apart from what it has yet to say. *)
LEMMA OneGoes ==
    ASSUME Types, Counting, NEW h, One(h), Goes(sessions'[h], sessions[h])
    PROVE  \A k \in Handles : k \in DOMAIN sessions' /\ Goes(sessions'[k], sessions[k])
<1> TAKE k \in Handles
<1>1. sessions[k] \in Sessions
  BY DEF Types, Stock
<1>2. Goes(sessions[k], sessions[k])
  BY <1>1, GoesOn
<1> QED BY <1>2 DEF One

LEMMA BeginReadsGoes ==
    ASSUME Types, FramesFit, Counting, BeginReads
    PROVE  One(op.h) /\ Goes(sessions'[op.h], sessions[op.h])
<1> DEFINE h == op.h
           s == sessions[h]
           d == Decoded(h)
           carried == d.s.carried \o d.events
           decision == IF d.decision = NoDecision THEN d.s.decision ELSE d.decision
           t == [d.s EXCEPT !.carried = carried, !.decision = decision]
           u == [d.s EXCEPT !.run = FALSE]
<1>1. op.pc = "begin" /\ h \in Handles /\ s.out # << >> /\ Stock
  BY DEF BeginReads, Types, Operation
<1>2. /\ s \in Sessions /\ d.s \in Sessions /\ Observes(d, s, s.out[1])
      /\ d.s.carried = s.carried /\ d.s.out = Tail(s.out) /\ d.s.seq = s.seq + Len(d.events)
  BY <1>1, DecodedTells
<1>3. sessions' = [sessions EXCEPT ![h] = u] \/ sessions' = [sessions EXCEPT ![h] = t]
  <2>1. [d.s EXCEPT !.carried = @ \o d.events,
                    !.decision = IF d.decision = NoDecision THEN @ ELSE d.decision] = t
    OBVIOUS
  <2>2. \/ sessions' = [sessions EXCEPT ![h] = u]
        \/ sessions' = [sessions EXCEPT ![h] =
              [d.s EXCEPT !.carried = @ \o d.events,
                          !.decision = IF d.decision = NoDecision THEN @ ELSE d.decision]]
    BY Zenon DEF BeginReads
  <2> HIDE DEF t, u, d, s
  <2> QED BY <2>1, <2>2
<1>4. t.carried = s.carried \o d.events /\ t.out = d.s.out /\ t.seq = d.s.seq
  <2>1. carried = s.carried \o d.events
    BY <1>2
  <2> HIDE DEF carried, decision, d
  <2> QED BY <1>2, <2>1 DEF Sessions
<1>5. u.carried = s.carried /\ u.out = d.s.out /\ u.seq = d.s.seq
  <2> HIDE DEF d
  <2> QED BY <1>2 DEF Sessions
<1> HIDE DEF u, t, d, s
<1>6. Goes(t, s) /\ Goes(u, s)
  BY <1>1, <1>2, <1>4, <1>5, GoesByReading DEF s
<1> QED BY <1>1, <1>3, <1>6, OneMoves DEF s

LEMMA WritesGoes ==
    ASSUME Types, FramesFit, Counting, NEW h \in Handles, RuntimeWrites(h)
    PROVE  One(h) /\ Goes(sessions'[h], sessions[h])
<1> DEFINE s == sessions[h]
           t == sessions'[h]
           k == ledger.frames
<1>1. s \in Sessions /\ Stock
  BY DEF Types, Stock
<1>2. PICK f \in Frames : t.out = Append(s.out, f) /\ f.n = k + 1 /\ t.carried = s.carried /\ t.seq = s.seq
  BY WritesMean DEF Wrote
<1>3. One(h) /\ ledger'.frames = k + 1 /\ k \in Nat
  <2>1. sessions' = [sessions EXCEPT ![h] = sessions'[h]]
    BY WritesMean
  <2> HIDE DEF t
  <2> QED BY <1>1, <2>1, OneMoves, FramesCounted DEF Counting
<1> HIDE DEF s, t
<1>4. s.carried \in Seq(Events) /\ s.out \in Seq(Frames)
  BY <1>1 DEF Sessions
<1>5. InLine(s.carried, s.out, k) => InLine(t.carried, t.out, k + 1)
  BY <1>2, <1>3, <1>4, WrittenInLine
<1>6. ASSUME NEW q \in Nat, NEW n \in Nat, n <= Top(k), Beyond(s, q, n) PROVE Beyond(t, q, n)
  <2>1. n <= 2 * f.n
    BY <1>2, <1>3, <1>6 DEF Top
  <2>2. \A i \in DOMAIN t.out : (i \in DOMAIN s.out /\ t.out[i] = s.out[i]) \/ t.out[i] = f
    BY <1>2, <1>4, LastOf
  <2> QED BY <1>2, <1>6, <2>1, <2>2 DEF Beyond
<1>7. Goes(t, s)
  BY <1>3, <1>5, <1>6 DEF Goes, k
<1> QED BY <1>3, <1>7 DEF s, t

(* However a step goes, no session has more to tell than it had, but for frames to come. *)
LEMMA AllGo ==
    ASSUME CleanIInv, TurnIInv, NewsIInv, Next
    PROVE  /\ Counting
           /\ \A h \in Handles : h \in DOMAIN sessions' /\ Goes(sessions'[h], sessions[h])
           /\ Advance \/ AdvanceReads \/ AdvanceFails => HandsOver(op.h)
<1>1. Types /\ FramesFit /\ TurnFits /\ SessionsInLine /\ FutureBeyond /\ NotedFits
  BY DEF CleanIInv, TurnIInv, NewsIInv
<1>2. Counting
  BY <1>1, Counts
<1>3. Advance \/ AdvanceReads \/ AdvanceFails => HandsOver(op.h)
  BY <1>1, <1>2, AdvanceHands, AdvanceReadsHands, AdvanceFailsHands
<1>4. ASSUME Idly, NEW h \in Handles PROVE h \in DOMAIN sessions' /\ Goes(sessions'[h], sessions[h])
  <2>1. sessions[h] \in Sessions /\ Rests(sessions'[h], sessions[h])
    BY <1>1, <1>4 DEF Types, Stock, Idly
  <2>2. Goes(sessions[h], sessions[h])
    BY <1>2, <2>1, GoesOn
  <2> QED BY <1>4, <2>1, <2>2, RestsTells DEF Idly
<1>5. CASE Launch
  <2>1. CameUp \/ Idly
    BY <1>1, <1>5, LaunchStirs
  <2>2. ASSUME CameUp, NEW h \in Handles PROVE h \in DOMAIN sessions' /\ Goes(sessions'[h], sessions[h])
    <3>1. h \in DOMAIN sessions' /\ sessions'[h] = sessions[h] /\ sessions[h] \in Sessions
      BY <1>1, <2>2 DEF CameUp, Types, Stock
    <3> QED BY <1>2, <3>1, GoesOn
  <2> QED BY <1>2, <1>3, <1>4, <2>1, <2>2
<1>6. CASE BeginReads
  BY <1>1, <1>2, <1>3, <1>6, BeginReadsGoes, OneGoes
<1>7. CASE Advance \/ AdvanceReads
  BY <1>1, <1>2, <1>3, <1>7, OneGoes DEF HandsOver
<1>8. CASE \E h \in Handles : RuntimeWrites(h)
  BY <1>1, <1>2, <1>3, <1>8, WritesGoes, OneGoes
<1> QED BY <1>1, <1>2, <1>3, <1>4, <1>5, <1>6, <1>7, <1>8, OthersIdle DEF Stirs

(* What every step leaves. *)
LEMMA LeftFacts ==
    ASSUME CleanIInv, TurnIInv, NewsIInv, Next
    PROVE  /\ Grown /\ Counting /\ live \subseteq Handles
           /\ m.session \in Refs /\ noted.last \in Nat /\ noted.last <= Top(ledger.frames)
           /\ \A h \in Handles : sessions[h] \in Sessions /\ h \in DOMAIN sessions'
                                 /\ (sessions[h].sid # 0 => sessions'[h].sid = sessions[h].sid)
           /\ \A h \in Handles, q, n \in Nat :
                 n <= Top(ledger.frames) /\ Beyond(sessions[h], q, n) => Beyond(sessions'[h], q, n)
<1>1. Types /\ FramesFit /\ SessionsInLine /\ NotedFits
  BY DEF CleanIInv, NewsIInv
<1>2. Grown /\ Counting
  BY <1>1, NextGrows, AllGo
<1>3. m.session \in Refs /\ noted.last \in Nat /\ noted.last <= Top(ledger.frames) /\ live \subseteq Handles
  <2>1. m.session \in Refs
    BY <1>1 DEF Types, Machinery, Coherent, IsMachine, Machines
  <2> QED BY <1>1, <2>1 DEF NotedFits, Types, Stock
<1>4. \A h \in Handles : sessions[h] \in Sessions /\ h \in DOMAIN sessions'
                         /\ (sessions[h].sid # 0 => sessions'[h].sid = sessions[h].sid)
  BY <1>1, <1>2 DEF Grown, Succ, Types, Stock
<1>5. ASSUME NEW h \in Handles, NEW q \in Nat, NEW n \in Nat, n <= Top(ledger.frames), Beyond(sessions[h], q, n)
      PROVE  Beyond(sessions'[h], q, n)
  <2>1. Goes(sessions'[h], sessions[h])
    BY AllGo
  <2> QED BY <1>1, <1>5, <2>1 DEF Goes, SessionsInLine
<1> QED BY <1>2, <1>3, <1>4, <1>5

LEMMA SessionsInLineKept ==
    ASSUME CleanIInv, TurnIInv, NewsIInv, Next
    PROVE  SessionsInLine'
<1>1. Types /\ FramesFit /\ TurnFits /\ SessionsInLine
  BY DEF CleanIInv, TurnIInv, NewsIInv
<1> SUFFICES ASSUME NEW h \in DOMAIN sessions'
             PROVE  InLine(sessions'[h].carried, sessions'[h].out, ledger'.frames)
  BY DEF SessionsInLine
<1>2. CASE h \in Handles
  <2>1. Goes(sessions'[h], sessions[h])
    BY <1>2, AllGo
  <2> QED BY <1>1, <1>2, <2>1 DEF Goes, SessionsInLine
<1>3. CASE h \notin Handles
  <2>1. Launch
    BY <1>1, <1>3, NextGrows
  <2>2. sessions'[h] = Launched.s
    BY <1>1, <1>3, <2>1, LaunchGrows
  <2>3. Launched.s.carried = << >> /\ Launched.s.out = << >>
    <3>1. op.pc = "launch"
      BY <2>1 DEF Launch
    <3> QED BY <1>1, <3>1, LaunchFits
  <2>4. DOMAIN << >> = {}
    OBVIOUS
  <2> QED BY <2>2, <2>3, <2>4 DEF InLine, Rising, Before, OutRising
<1> QED BY <1>2, <1>3

(* The machine is told: what it notifies is new, and newer than all it notified. *)
LEMMA DeliverNotifies ==
    ASSUME CleanIInv, TurnIInv, NewsIInv, Deliver
    PROVE  /\ noted' \in [last: Nat, ordered: {TRUE}]
           /\ \/ noted' = noted
              \/ op.got.events # << >> /\ \E i \in DOMAIN op.got.events : noted'.last = op.got.events[i].n
<1> DEFINE resolution == [id |-> op.req.id, kind |-> "ExternalSession", result |-> op.got]
           o == resume(m, resolution)
           events == op.got.events
<1>1. Types /\ NotedFits /\ AnswerBeyond /\ op.pc = "done"
  BY DEF CleanIInv, NewsIInv, Deliver
<1>2. op.got \in Results /\ op # NoOp
  BY <1>1 DEF Types, Operation, NoOp
<1>3. op.req.id \in Nat
  BY <1>1, <1>2, OpFits DEF Types
<1>4. resolution \in Resolutions /\ resolution.kind = "ExternalSession" /\ resolution.result = op.got
  BY <1>2, <1>3 DEF Resolutions
<1>5. Stepped(o)
  BY DEF Deliver, Feed
<1>6. events \in Seq(Events)
  BY <1>2 DEF Results
<1>7. Rising(events, ledger.frames) /\ Past(events, m.session.seq, noted.last)
  BY <1>1 DEF AnswerBeyond, News
<1> HIDE DEF events
<1>10. DOMAIN << >> = {} /\ << >> \in Seq(Events) /\ << >> \in Seq(Frames)
  OBVIOUS
<1>8. observe(m, events) = events
  <2>1. m.session.seq \in Nat
    BY <1>1 DEF Types, Machinery, Coherent, IsMachine, Machines, Refs
  <2>2. \A i \in DOMAIN events : events[i].seq > m.session.seq
    <3>1. \A i \in DOMAIN events : events[i].seq \in Nat
      BY <1>6, <1>10, Numbers
    <3> QED BY <1>7, <2>1, <3>1 DEF Past
  <2> QED BY <1>6, <2>2, ObserveAll
<1>9. o.notes \in {<< >>, events}
  <2>1. Says(resume(m, resolution), observe(m, resolution.result.events))
    BY <1>4, ResumeSays
  <2>2. observe(m, resolution.result.events) = events
    BY <1>4, <1>8 DEF events
  <2> HIDE DEF resolution
  <2> QED BY <2>1, <2>2 DEF Says
<1> HIDE DEF o, resolution
<1>11. o.notes \in Seq(Events) /\ Rising(o.notes, ledger.frames) /\ Past(o.notes, m.session.seq, noted.last)
  BY <1>6, <1>7, <1>9, <1>10 DEF Rising, Past
<1>12. noted \in [last: Nat, ordered: {TRUE}]
  BY <1>1 DEF NotedFits
<1>13. /\ noted' \in [last: Nat, ordered: {TRUE}]
       /\ \/ o.notes = << >> /\ noted' = noted
          \/ o.notes # << >> /\ \E i \in DOMAIN o.notes : noted'.last = o.notes[i].n
  BY <1>5, <1>11, <1>12, NotesInOrder
<1> QED BY <1>9, <1>13 DEF events

LEMMA NotedFitsKept ==
    ASSUME CleanIInv, TurnIInv, NewsIInv, Next
    PROVE  NotedFits'
<1>1. Types /\ NotedFits /\ AnswerBeyond
  BY DEF CleanIInv, NewsIInv
<1>0. Counting /\ noted.last \in Nat /\ noted.last <= Top(ledger.frames)
  BY LeftFacts
<1>2. Top(ledger.frames) \in Nat /\ Top(ledger'.frames) \in Nat /\ Top(ledger.frames) <= Top(ledger'.frames)
  BY <1>0 DEF Counting, Top
<1>5. \A n \in Nat : n <= Top(ledger.frames) => n <= Top(ledger'.frames)
  BY <1>2
<1>3. CASE UNCHANGED noted
  <2>1. noted'.last <= Top(ledger'.frames)
    BY <1>0, <1>3, <1>5
  <2> QED BY <1>1, <1>3, <2>1 DEF NotedFits, Top
<1>4. CASE Deliver
  <2>1. noted' \in [last: Nat, ordered: {TRUE}]
    BY <1>4, DeliverNotifies
  <2>2. \A i \in DOMAIN op.got.events : op.got.events[i].n <= Top(ledger.frames)
    BY <1>1, <1>4 DEF AnswerBeyond, News, Rising, Deliver
  <2>3. noted'.last <= Top(ledger.frames) /\ noted'.last \in Nat
    BY <1>0, <1>4, <2>1, <2>2, DeliverNotifies
  <2>4. noted'.last <= Top(ledger'.frames)
    BY <1>5, <2>3
  <2> QED BY <2>1, <2>4 DEF NotedFits, Top
<1> QED BY <1>1, <1>3, <1>4, NotedChanges

LEMMA DeliverLeavesBeyond ==
    ASSUME CleanIInv, TurnIInv, NewsIInv, Next, Deliver
    PROVE  LiveBeyond'
<1> DEFINE got == op.got
<1>1. Types /\ LiveBeyond /\ AnswerBeyond /\ op.pc = "done" /\ UNCHANGED <<sessions, live>>
  BY DEF CleanIInv, NewsIInv, Deliver
<1>2. m'.session \in {m.session, got.session}
  BY <1>1, DriverTakes DEF Took
<1>3. got \in Results
  BY <1>1 DEF Types, Operation
<1>4. got.session \in Refs /\ got.events \in Seq(Events) /\ m.session \in Refs
  BY <1>3, LeftFacts DEF Results
<1>5. /\ News(got, m.session, noted.last, ledger.frames)
      /\ \A h \in live : got.session.id # 0 /\ sessions[h].sid = got.session.id => Follows(sessions[h], got, noted.last)
  BY <1>1 DEF AnswerBeyond
<1>6. \/ noted' = noted
      \/ got.events # << >> /\ \E i \in DOMAIN got.events : noted'.last = got.events[i].n
  BY DeliverNotifies
<1> HIDE DEF got
<1> SUFFICES ASSUME NEW h \in live, m'.session.id # 0, sessions[h].sid = m'.session.id
             PROVE  Beyond(sessions[h], m'.session.seq, noted'.last)
  BY <1>1 DEF LiveBeyond
<1>7. sessions[h] \in Sessions
  BY LeftFacts
<1>8. CASE m'.session = got.session
  <2>1. Follows(sessions[h], got, noted.last)
    BY <1>5, <1>8
  <2> QED BY <1>6, <1>8, <2>1 DEF Follows
<1>9. CASE m'.session = m.session /\ noted' = noted
  BY <1>1, <1>9 DEF LiveBeyond
<1>10. CASE m'.session = m.session /\ noted' # noted
  <2>1. PICK i \in DOMAIN got.events : noted'.last = got.events[i].n
    BY <1>6, <1>10
  <2>2. got.session.id = m.session.id /\ m.session.seq <= got.session.seq /\ got.session.id # 0
    BY <1>5, <1>6, <1>10 DEF News
  <2>3. Beyond(sessions[h], got.session.seq, noted'.last)
    BY <1>5, <1>10, <2>1, <2>2 DEF Follows
  <2>4. m.session.seq \in Nat /\ got.session.seq \in Nat /\ sessions[h].seq \in Nat
        /\ \A j \in DOMAIN sessions[h].carried : sessions[h].carried[j].seq \in Nat
    <3>1. sessions[h].carried \in Seq(Events) /\ sessions[h].out \in Seq(Frames) /\ sessions[h].seq \in Nat
      BY <1>7 DEF Sessions
    <3> QED BY <1>4, <3>1, Numbers DEF Refs
  <2> QED BY <1>10, <2>2, <2>3, <2>4 DEF Beyond, Past
<1> QED BY <1>2, <1>8, <1>9, <1>10

LEMMA LiveBeyondKept ==
    ASSUME CleanIInv, TurnIInv, NewsIInv, Next
    PROVE  LiveBeyond'
<1>1. Types /\ NotedFits /\ LiveBeyond /\ FutureBeyond /\ Registered
  BY DEF CleanIInv, TurnIInv, NewsIInv
<1>2. CASE Deliver
  BY <1>2, DeliverLeavesBeyond
<1>3. CASE live' = {}
  BY <1>3 DEF LiveBeyond
<1>4. CASE UNCHANGED noted /\ m'.session = m.session
  <2> SUFFICES ASSUME NEW h \in live', m.session.id # 0, sessions'[h].sid = m.session.id
               PROVE  Beyond(sessions'[h], m.session.seq, noted.last)
    BY <1>4 DEF LiveBeyond
  <2>1. m.session.seq \in Nat /\ noted.last \in Nat /\ noted.last <= Top(ledger.frames)
    BY LeftFacts DEF Refs
  <2>2. CASE h \in live
    <3>1. h \in Handles /\ sessions'[h].sid = sessions[h].sid
      BY <1>1, <2>2, LeftFacts DEF Registered
    <3>2. Beyond(sessions[h], m.session.seq, noted.last)
      BY <1>1, <2>2, <3>1 DEF LiveBeyond
    <3> QED BY <2>1, <3>1, <3>2, LeftFacts
  <2>3. CASE h \notin live
    <3>1. Register /\ h = op.h
      BY <2>3, RegistryMoves
    <3>2. op.pc = "register" /\ op.h \in Handles
      BY <1>1, <3>1 DEF Register, Types, Operation
    <3>3. Beyond(sessions[h], m.session.seq, noted.last)
      BY <1>1, <3>1, <3>2 DEF FutureBeyond
    <3> QED BY <2>1, <3>1, <3>2, <3>3, LeftFacts
  <2> QED BY <2>2, <2>3
<1> QED BY <1>1, <1>2, <1>3, <1>4, NotedChanges

(* The session the future holds still has told the machine all but what is newer. *)
Held(h) ==
    /\ m.session.id # 0 => sessions'[h].sid = m.session.id
    /\ Beyond(sessions'[h], m.session.seq, noted.last)

LEMMA HoldsOn ==
    ASSUME CleanIInv, TurnIInv, NewsIInv, Next, op.pc \in {"begin", "register", "advance", "read"}
    PROVE  Held(op.h) /\ op.h \in Handles
<1>1. Types /\ FutureBeyond
  BY DEF CleanIInv, NewsIInv
<1>2. op.h \in Handles
  BY <1>1 DEF Types, Operation
<1>3. /\ m.session.id # 0 => sessions[op.h].sid = m.session.id
      /\ Beyond(sessions[op.h], m.session.seq, noted.last)
  BY <1>1 DEF FutureBeyond
<1>4. m.session.seq \in Nat /\ noted.last \in Nat /\ noted.last <= Top(ledger.frames)
  BY LeftFacts DEF Refs
<1>5. Beyond(sessions'[op.h], m.session.seq, noted.last)
  BY <1>2, <1>3, <1>4, LeftFacts
<1>6. m.session.id # 0 => sessions'[op.h].sid = m.session.id
  BY <1>2, <1>3, LeftFacts
<1> QED BY <1>2, <1>5, <1>6 DEF Held

(* The requirement is about the session the machine knows. *)
LEMMA AsksItsOwn ==
    ASSUME CleanIInv, TurnIInv, op # NoOp
    PROVE  op.req.session = m.session
BY DEF TurnIInv, TurnFits, Wanted

(* Wherever the handler comes to, it holds a session that has told all but what is newer. *)
LEMMA HandlerHolds ==
    ASSUME CleanIInv, TurnIInv, NewsIInv, Next, op'.pc \in {"begin", "register", "advance", "read"}
    PROVE  Held(op'.h)
<1>1. Types /\ FramesFit /\ TurnFits /\ Paid /\ SessionsSound /\ LiveBeyond /\ Questions /\ SilentAtFirst /\ Reading
  BY DEF CleanIInv, TurnIInv, NewsIInv
<1>2. m.session.seq \in Nat /\ noted.last \in Nat /\ m.session.id \in Nat
  BY LeftFacts DEF Refs
<1>3. CASE op' = op
  BY <1>3, HoldsOn
<1>4. CASE Launch
  <2>1. op.pc = "launch" /\ op # NoOp /\ CameUp
    BY <1>1, <1>4, LaunchStirs DEF Launch, NoOp
  <2>2. sessions'[op'.h] = Launched.s
    BY <1>1, <1>4, <2>1, LaunchGrows DEF CameUp
  <2>3. Launched.s.sid = m.session.id /\ Launched.s.seq = m.session.seq /\ Launched.s.carried = << >> /\ Launched.s.out = << >>
    BY <1>1, <2>1, LaunchFits, AsksItsOwn
  <2>4. DOMAIN << >> = {}
    OBVIOUS
  <2> QED BY <1>2, <2>2, <2>3, <2>4 DEF Held, Beyond, Past
<1>5. CASE op'.pc \in {"begin", "register"} /\ ~Launch
  <2>1. op.pc \in {"begin", "register"} /\ op'.h = op.h
    BY <1>1, <1>5, PointsFollow
  <2> QED BY <2>1, HoldsOn
<1>6. CASE Finds
  <2>1. op.pc = "fulfill" /\ op'.h \in Entry(op.req.session) /\ UNCHANGED sessions
    BY <1>6 DEF Finds
  <2>2. op.req.session = m.session
    BY <2>1, AsksItsOwn DEF NoOp
  <2>3. op'.h \in live /\ m.session.id # 0 /\ sessions[op'.h].sid = m.session.id
    BY <2>1, <2>2 DEF Entry
  <2>4. Beyond(sessions[op'.h], m.session.seq, noted.last)
    BY <1>1, <2>3 DEF LiveBeyond
  <2> QED BY <2>1, <2>3, <2>4 DEF Held
<1>7. CASE Enters
  <2>1. op.pc = "register" /\ op'.h = op.h
    BY <1>7 DEF Enters
  <2> QED BY <2>1, HoldsOn
<1>8. CASE Advance \/ AdvanceReads
  <2>1. op.pc \in {"advance", "read"}
    BY <1>8 DEF Advance, AdvanceReads
  <2>2. op'.h = op.h
    BY <1>1, <1>8, AdvanceMoves, AdvanceReadsMoves
  <2> QED BY <2>1, <2>2, HoldsOn
<1>9. CASE BeginReads \/ EndsQuietly
  <2>1. op.pc = "begin"
    BY <1>9 DEF BeginReads, EndsQuietly
  <2>2. op'.pc \in {"begin", "register"}
    BY <1>1, <1>9, BeginsMove DEF EndsQuietly, Register, BeginReads
  <2>3. ~Launch
    BY <2>1 DEF Launch
  <2> QED BY <1>5, <2>2, <2>3
<1>10. CASE Handler
  <2>1. ~Books /\ ~Passes
    BY DEF Books, Passes
  <2> QED BY <1>1, <1>4, <1>6, <1>7, <1>8, <1>9, <1>10, <2>1, HandlerTurns
<1>11. CASE ~Handler
  <2>1. op' = op \/ op' = NoOp \/ (Taking /\ StartHandler)
    BY <1>11, OthersMove DEF Next
  <2>2. Taking => op'.pc = "fulfill"
    BY <1>1, TakingFits
  <2>3. op' # NoOp
    BY DEF NoOp
  <2> QED BY <1>3, <2>1, <2>2, <2>3
<1> QED BY <1>10, <1>11

(* What it has read of the session it holds. *)
LEMMA HandlerTells ==
    ASSUME CleanIInv, TurnIInv, NewsIInv, Next, op'.pc = "read"
    PROVE  /\ sessions'[op'.h].carried = << >> /\ InLine(op'.got, sessions'[op'.h].out, ledger'.frames)
           /\ Past(op'.got, m.session.seq, noted.last)
<1>1. Types /\ FramesFit /\ FutureBeyond /\ Paid
  BY DEF CleanIInv, TurnIInv, NewsIInv
<1>2. CASE Advance \/ AdvanceReads
  <2>1. PICK events : Hands(sessions'[op.h], events)
    BY <1>2, AllGo DEF HandsOver
  <2>2. op'.h = op.h /\ op'.got = events /\ Tells(sessions'[op.h], events)
    BY <2>1 DEF Hands
  <2>3. ledger' = ledger
    BY <1>2 DEF Advance, AdvanceReads
  <2> QED BY <2>2, <2>3 DEF Tells
<1>3. CASE op' = op /\ ~(Advance \/ AdvanceReads)
  <2> DEFINE h == op.h
  <2>1. op.pc = "read" /\ h \in Handles /\ op.got \in Seq(Events)
    BY <1>1, <1>3 DEF Types, Operation
  <2>2. Tells(sessions[h], op.got)
    BY <1>1, <2>1 DEF FutureBeyond
  <2>3. Counting /\ sessions[h] \in Sessions
    BY <2>1, LeftFacts
  <2>4. sessions[h].out \in Seq(Frames)
    BY <2>3 DEF Sessions
  <2>5. ~Launch /\ ~BeginReads
    BY <2>1 DEF Launch, BeginReads
  <2>6. CASE Idly
    <3>1. Rests(sessions'[h], sessions[h])
      BY <2>1, <2>6 DEF Idly
    <3>2. Tells(sessions'[h], op.got)
      BY <2>2, <3>1, RestsTells
    <3>3. sessions'[h].out = sessions[h].out
      BY <3>1 DEF Rests, Alike
    <3>4. InLine(op.got, sessions[h].out, ledger'.frames)
      BY <2>1, <2>2, <2>3, <2>4, RisingGrows DEF Tells, Counting
    <3> QED BY <1>3, <3>2, <3>3, <3>4 DEF Tells
  <2>7. ASSUME NEW k \in Handles, RuntimeWrites(k)
        PROVE  sessions'[h].carried = << >> /\ InLine(op.got, sessions'[h].out, ledger'.frames)
    <3>1. One(k) /\ ledger'.frames = ledger.frames + 1
      BY <1>1, <2>3, <2>7, WritesGoes, FramesCounted
    <3>2. CASE h # k
      <4>1. sessions'[h] = sessions[h]
        BY <2>1, <3>1, <3>2 DEF One
      <4> QED BY <2>1, <2>2, <2>3, <2>4, <4>1, RisingGrows DEF Tells, Counting
    <3>3. CASE h = k
      <4>1. PICK f \in Frames : /\ sessions'[h].out = Append(sessions[h].out, f) /\ f.n = ledger.frames + 1
                                /\ sessions'[h].carried = sessions[h].carried
        BY <1>1, <2>7, <3>3, WritesMean DEF Wrote
      <4>2. ledger.frames \in Nat
        BY <2>3 DEF Counting
      <4> QED BY <2>1, <2>2, <2>4, <3>1, <4>1, <4>2, WrittenInLine DEF Tells
    <3> QED BY <3>2, <3>3
  <2>8. Past(op.got, m.session.seq, noted.last)
    BY <2>2 DEF Tells
  <2> QED BY <1>1, <1>3, <2>5, <2>6, <2>7, <2>8, OthersIdle DEF Stirs
<1>4. CASE Handler /\ ~(Advance \/ AdvanceReads)
  <2>1. ~Books /\ ~Passes /\ ~Finds /\ ~Enters /\ ~EndsQuietly
    BY DEF Books, Passes, Finds, Enters, EndsQuietly
  <2>2. ~Launch /\ ~BeginReads
    BY <1>1, LaunchMoves, BeginsMove DEF Launch, BeginReads, Register
  <2> QED BY <1>1, <1>4, <2>1, <2>2, HandlerTurns
<1>5. CASE ~Handler
  <2>1. op' = op \/ op' = NoOp \/ (Taking /\ StartHandler)
    BY <1>5, OthersMove DEF Next
  <2>2. Taking => op'.pc = "fulfill"
    BY <1>1, TakingFits
  <2>3. op' # NoOp
    BY DEF NoOp
  <2> QED BY <1>3, <1>5, <2>1, <2>2, <2>3 DEF Handler
<1> QED BY <1>2, <1>4, <1>5

(* While the handler is at work the machine knows the same session and is told nothing. *)
LEMMA MachineWaits ==
    ASSUME CleanIInv, TurnIInv, NewsIInv, Next, op'.pc # "none"
    PROVE  m'.session = m.session /\ noted' = noted
<1>1. op' # NoOp
  BY DEF NoOp
<1>2. ~Deliver /\ ~Restart
  BY <1>1, HandlerOfATurn
<1> QED BY <1>2, NotedChanges DEF CleanIInv, NewsIInv

LEMMA FutureBeyondKept ==
    ASSUME CleanIInv, TurnIInv, NewsIInv, Next
    PROVE  FutureBeyond'
<1>1. CASE op'.pc \in {"begin", "register", "advance", "read"}
  <2>1. m'.session = m.session /\ noted' = noted
    BY <1>1, MachineWaits
  <2>2. Held(op'.h)
    BY <1>1, HandlerHolds
  <2>3. op'.pc = "read" =>
           /\ sessions'[op'.h].carried = << >> /\ InLine(op'.got, sessions'[op'.h].out, ledger'.frames)
           /\ Past(op'.got, m.session.seq, noted.last)
    BY HandlerTells
  <2> QED BY <2>1, <2>2, <2>3 DEF FutureBeyond, Held, Tells
<1> QED BY <1>1 DEF FutureBeyond

(* What is brought back, as the step leaves it. *)
Brought(result) ==
    /\ News(result, m.session, noted.last, ledger'.frames)
    /\ \A h \in live' : result.session.id # 0 /\ sessions'[h].sid = result.session.id =>
          Follows(sessions'[h], result, noted.last)

(* A failure without a word, of no session or of the one the machine knows. *)
LEMMA QuietBrought ==
    ASSUME CleanIInv, TurnIInv, NewsIInv, Next, op'.pc # "none", NEW session,
           session.id = 0 \/ session = m.session
    PROVE  Brought(Failed(session, << >>))
<1>1. m'.session = m.session /\ noted' = noted /\ LiveBeyond'
  BY MachineWaits, LiveBeyondKept
<1>2. DOMAIN << >> = {} /\ m.session.seq \in Nat
  BY LeftFacts DEF Refs
<1>3. News(Failed(session, << >>), m.session, noted.last, ledger'.frames)
  BY <1>2 DEF News, Failed, Rising, Past
<1>4. ASSUME NEW h \in live', session.id # 0, sessions'[h].sid = session.id
      PROVE  Follows(sessions'[h], Failed(session, << >>), noted.last)
  <2>1. session = m.session
    BY <1>4
  <2>2. Beyond(sessions'[h], m.session.seq, noted.last)
    BY <1>1, <1>4, <2>1 DEF LiveBeyond
  <2> QED BY <1>2, <2>1, <2>2 DEF Follows, Failed
<1> QED BY <1>3, <1>4 DEF Brought, Failed

(* An answer that waits to be delivered. *)
LEMMA StaysBrought ==
    ASSUME CleanIInv, TurnIInv, NewsIInv, Next, op.pc \in {"charge", "sweep", "done"},
           NEW result, result.session = op.got.session, result.events = op.got.events
    PROVE  Brought(result)
<1>1. Types /\ AnswerBeyond /\ Registered
  BY DEF CleanIInv, TurnIInv, NewsIInv
<1>2. Counting /\ noted.last \in Nat /\ noted.last <= Top(ledger.frames)
  BY LeftFacts
<1>3. op.got \in Results
  BY <1>1 DEF Types, Operation
<1>4. result.session \in Refs /\ result.events \in Seq(Events)
  BY <1>3 DEF Results
<1>5. News(result, m.session, noted.last, ledger.frames)
  BY <1>1 DEF AnswerBeyond, News
<1>6. News(result, m.session, noted.last, ledger'.frames)
  <2>1. << >> \in Seq(Frames)
    OBVIOUS
  <2>2. Rising(result.events, ledger'.frames)
    BY <1>2, <1>4, <1>5, <2>1, RisingGrows DEF News, Counting
  <2> QED BY <1>5, <2>2 DEF News
<1>7. live' \subseteq live
  <2>1. ~Register
    BY DEF Register
  <2> QED BY <2>1, RegistryMoves
<1>8. ASSUME NEW h \in live', result.session.id # 0, sessions'[h].sid = result.session.id
      PROVE  Follows(sessions'[h], result, noted.last)
  <2>1. h \in live /\ h \in Handles /\ sessions'[h].sid = sessions[h].sid
    BY <1>1, <1>7, LeftFacts DEF Registered
  <2>2. Follows(sessions[h], result, noted.last)
    BY <1>1, <1>8, <2>1 DEF AnswerBeyond, Follows
  <2>3. result.session.seq \in Nat
    BY <1>4 DEF Refs
  <2>4. Beyond(sessions'[h], result.session.seq, noted.last)
    BY <1>2, <2>1, <2>2, <2>3, LeftFacts DEF Follows
  <2>5. ASSUME NEW i \in DOMAIN result.events PROVE Beyond(sessions'[h], result.session.seq, result.events[i].n)
    <3>1. result.events[i].n \in Nat
      <4>1. << >> \in Seq(Frames)
        OBVIOUS
      <4> QED BY <1>4, <4>1, Numbers
    <3>2. result.events[i].n <= Top(ledger.frames)
      BY <1>5 DEF News, Rising
    <3> QED BY <2>1, <2>2, <2>3, <3>1, <3>2, LeftFacts DEF Follows
  <2> QED BY <2>4, <2>5 DEF Follows
<1> QED BY <1>6, <1>8 DEF Brought

(* No other session of the registry has the name of the one the future holds. *)
LEMMA AloneByName ==
    ASSUME CleanIInv, TurnIInv, NewsIInv, Next, op.pc \in {"begin", "advance", "read"},
           NEW h \in live', sessions'[h].sid = sessions'[op.h].sid, sessions'[h].sid # 0
    PROVE  op.pc # "begin" /\ h = op.h
<1>1. Types /\ NamesFit /\ OneEach /\ Registered
  BY DEF CleanIInv, TurnIInv
<1>2. ~Register
  BY DEF Register
<1>3. h \in live /\ h \in Handles /\ op.h \in Handles
  BY <1>1, <1>2, RegistryMoves DEF Types, Stock, Operation
<1>4. h = op.h \/ (sessions[h].sid = sessions[op.h].sid /\ sessions[h].sid # 0)
  BY <1>1, <1>3, SidsApart, LeftFacts
<1>5. CASE op.pc \in {"advance", "read"}
  BY <1>1, <1>3, <1>4, <1>5 DEF Registered
<1>6. CASE op.pc = "begin"
  <2>1. op.h \in Coming /\ op.h \notin live
    BY <1>1, <1>6 DEF OneEach, Coming
  <2> QED BY <1>1, <1>3, <1>4, <2>1 DEF OneEach
<1> QED BY <1>5, <1>6

(* What a session says when the handler lets go of it. *)
LEMMA HandedBrought ==
    ASSUME CleanIInv, TurnIInv, NewsIInv, Next, Advance \/ AdvanceReads \/ AdvanceFails,
           op'.pc \in {"charge", "done"}
    PROVE  Brought(op'.got)
<1> DEFINE t == sessions'[op.h]
           result == op'.got
<1>1. op.pc \in {"advance", "read"}
  BY DEF Advance, AdvanceReads, AdvanceFails
<1>2. PICK events : events \in Seq(Events) /\ Tells(t, events) /\ Brings(result, t, events)
  BY AllGo DEF HandsOver, Hands
<1>3. Held(op.h) /\ op.h \in Handles /\ sessions[op.h].sid # 0 /\ sessions'[op.h].sid # 0
  <2>1. sessions[op.h].sid # 0
    BY <1>1 DEF TurnIInv, Registered
  <2> QED BY <1>1, <2>1, HoldsOn, LeftFacts
<1>4. t \in Sessions /\ m.session \in Refs /\ noted.last \in Nat /\ ledger' = ledger
  <2>1. t \in Sessions
    BY <1>3, LeftFacts DEF Grown, Succ
  <2> QED BY <2>1, LeftFacts DEF Advance, AdvanceReads, AdvanceFails
<1> HIDE DEF t, result
<1>5. CASE result.session.id = 0 /\ result.events = << >>
  <2>1. DOMAIN << >> = {}
    OBVIOUS
  <2> QED BY <1>5, <2>1 DEF Brought, News, Rising, Past, result
<1>6. CASE result.session = session_ref(t) /\ result.events \in {<< >>, events}
  <2>0. t.seq \in Nat
    BY <1>4 DEF Sessions
  <2>1. DOMAIN << >> = {} /\ t.seq \in Nat /\ t.sid # 0
    BY <1>3, <2>0 DEF t
  <2>2. result.session.id = t.sid /\ result.session.seq = t.seq
    BY <1>6 DEF session_ref
  <2>3. InLine(events, t.out, ledger'.frames) /\ Past(events, m.session.seq, noted.last) /\ t.carried = << >>
    BY <1>2, <1>4 DEF Tells
  <2>4. News(result, m.session, noted.last, ledger'.frames)
    <3>1. Rising(result.events, ledger'.frames) /\ Past(result.events, m.session.seq, noted.last)
      BY <1>6, <2>1, <2>3 DEF InLine, Rising, Past
    <3>2. m.session.id # 0 => t.sid = m.session.id
      BY <1>3 DEF Held, t
    <3>3. m.session.seq <= t.seq
      BY <1>3 DEF Held, Beyond, t
    <3> QED BY <2>1, <2>2, <3>1, <3>2, <3>3 DEF News
  <2>5. Follows(t, result, noted.last)
    <3>1. t.seq <= t.seq
      BY <2>1
    <3>2. \A i \in DOMAIN t.out : noted.last <= 2 * t.out[i].n
      BY <1>3 DEF Held, Beyond, t
    <3>3. \A j \in DOMAIN result.events, i \in DOMAIN t.out : result.events[j].n <= 2 * t.out[i].n
      BY <1>6, <2>1, <2>3 DEF InLine, Before
    <3> QED BY <2>1, <2>2, <2>3, <3>1, <3>2, <3>3 DEF Follows, Beyond, Past
  <2>6. \A h \in live' : sessions'[h].sid = result.session.id => h = op.h
    BY <1>1, <2>1, <2>2, AloneByName DEF t
  <2> QED BY <2>4, <2>5, <2>6 DEF Brought, t, result
<1> QED BY <1>2, <1>5, <1>6 DEF Brings

(* A session whose prelude ended is named, but the registry does not hold it. *)
LEMMA EndedBrought ==
    ASSUME CleanIInv, TurnIInv, NewsIInv, Next, op.pc = "begin", op'.pc = "done",
           session_ref(sessions[op.h]) = session_ref(sessions'[op.h])
    PROVE  Brought(Failed(session_ref(sessions[op.h]), << >>))
<1> DEFINE t == sessions'[op.h]
           result == Failed(session_ref(t), << >>)
<1>1. Held(op.h)
  BY HoldsOn
<1>2. result.session.id = t.sid /\ result.session.seq = t.seq /\ result.events = << >> /\ DOMAIN << >> = {}
  BY DEF session_ref, Failed
<1> HIDE DEF t, result
<1>3. News(result, m.session, noted.last, ledger'.frames)
  BY <1>1, <1>2 DEF Held, Beyond, News, Rising, Past, t
<1>4. ~\E h \in live' : sessions'[h].sid = t.sid /\ t.sid # 0
  BY AloneByName DEF t
<1>5. Brought(result)
  BY <1>2, <1>3, <1>4 DEF Brought
<1> QED BY <1>5 DEF result, t

(* Who answers before the session has been told to go on has nothing to tell. *)
LEMMA AnswersQuietly ==
    ASSUME Types, FramesFit, Fulfill \/ Prepare \/ Launch \/ BeginReads \/ BeginFails, op'.pc \in {"charge", "sweep", "done"}
    PROVE  \E session : /\ op'.got = Failed(session, << >>)
                        /\ \/ session.id = 0 \/ session = op.req.session
                           \/ /\ BeginFails /\ op'.pc = "done" /\ session = session_ref(sessions[op.h])
                              /\ session_ref(sessions'[op.h]) = session_ref(sessions[op.h])
<1>1. op # NoOp
  BY HandlerStands DEF Handler
<1>2. IsOperation(op)
  BY <1>1, OpFits DEF Types
<1>3. NoSession.id = 0 /\ \A session : Answered(Failed(session, << >>)) => op'.got = Failed(session, << >>)
  BY DEF NoSession, Answered, Handling
<1>4. ASSUME NEW pc, NEW h, NEW tree,
             \/ op' = [op EXCEPT !.pc = pc] \/ op' = [op EXCEPT !.pc = pc, !.h = h]
             \/ op' = [op EXCEPT !.pc = pc, !.tree = tree] \/ op' = [op EXCEPT !.h = h, !.pc = pc]
      PROVE  op'.pc = pc
  BY <1>2, <1>4 DEF IsOperation
<1>5. CASE Fulfill
  <2>1. ASSUME NEW h, op' = [op EXCEPT !.pc = "sweep", !.h = h, !.got = Failed(op.req.session, << >>)]
        PROVE  op'.got = Failed(op.req.session, << >>)
    BY <1>2, <2>1 DEF IsOperation
  <2>2. \/ \E h : op' = [op EXCEPT !.pc = "sweep", !.h = h, !.got = Failed(op.req.session, << >>)]
        \/ Answered(Failed(op.req.session, << >>))
        \/ \E h : op' = [op EXCEPT !.pc = "advance", !.h = h]
        \/ op' = [op EXCEPT !.pc = "prepare"]
    BY <1>5, Zenon DEF Fulfill
  <2>3. ~\E h : op' = [op EXCEPT !.pc = "advance", !.h = h]
    BY <1>4
  <2>4. op' # [op EXCEPT !.pc = "prepare"]
    BY <1>4
  <2>5. op'.got = Failed(op.req.session, << >>)
    BY <1>3, <2>1, <2>2, <2>3, <2>4
  <2> QED BY <2>5
<1>6. CASE Prepare
  <2>1. \/ Answered(Failed(op.req.session, << >>)) \/ op' = [op EXCEPT !.pc = "launch"]
        \/ \E tree : op' = [op EXCEPT !.pc = "launch", !.tree = tree]
    BY <1>6, Zenon DEF Prepare
  <2>2. op' # [op EXCEPT !.pc = "launch"] /\ ~\E tree : op' = [op EXCEPT !.pc = "launch", !.tree = tree]
    BY <1>4
  <2> QED BY <1>3, <2>1, <2>2
<1>7. CASE Launch
  <2>1. \/ GiveUp(Failed(op.req.session, << >>)) \/ GiveUp(Failed(NoSession, << >>))
        \/ op' = [op EXCEPT !.h = Len(sessions'), !.pc = IF Launched.prelude THEN "begin" ELSE "register"]
    BY <1>7, Zenon DEF Launch, Launched
  <2>2. op' # [op EXCEPT !.h = Len(sessions'), !.pc = IF Launched.prelude THEN "begin" ELSE "register"]
    <3>1. (IF Launched.prelude THEN "begin" ELSE "register") \notin {"charge", "sweep", "done"}
      OBVIOUS
    <3> QED BY <1>4, <3>1
  <2>3. Answered(Failed(op.req.session, << >>)) \/ Answered(Failed(NoSession, << >>))
    BY <2>1, <2>2 DEF GiveUp
  <2> QED BY <1>3, <2>3
<1>8. CASE BeginReads
  <2>1. GiveUp(Failed(NoSession, << >>)) \/ op' = [op EXCEPT !.pc = "register"] \/ op' = op
    BY <1>8, Zenon DEF BeginReads
  <2>2. op.pc = "begin"
    BY <1>8 DEF BeginReads
  <2>3. Answered(Failed(NoSession, << >>))
    BY <1>4, <2>1, <2>2 DEF GiveUp
  <2> QED BY <1>3, <2>3
<1>9. CASE BeginFails
  <2>1. op' # [op EXCEPT !.pc = "register"]
    BY <1>4
  <2>2. sessions' = Dead(op.h)
    BY <1>9, <2>1 DEF BeginFails
  <2>3. PICK session \in {NoSession, op.req.session, session_ref(sessions[op.h])} : Answered(Failed(session, << >>))
    BY <1>9, <2>1 DEF BeginFails, GiveUp
  <2>4. op'.pc = "done"
    BY <2>3 DEF Answered, Handling
  <2>5. op.h \in Handles
    BY <1>9 DEF BeginFails, Types, Operation
  <2>6. session_ref(sessions'[op.h]) = session_ref(sessions[op.h])
    <3>1. Rests(sessions'[op.h], sessions[op.h])
      BY <2>2, <2>5, DeadIdles DEF Idly
    <3> QED BY <3>1 DEF Rests, Alike, session_ref
  <2> QED BY <1>3, <1>9, <2>3, <2>4, <2>6
<1> QED BY <1>5, <1>6, <1>7, <1>8, <1>9

LEMMA AnswerBeyondKept ==
    ASSUME CleanIInv, TurnIInv, NewsIInv, Next
    PROVE  AnswerBeyond'
<1>1. Types /\ FramesFit
  BY DEF CleanIInv
<1> SUFFICES ASSUME op'.pc \in {"charge", "sweep", "done"} PROVE Brought(op'.got)
  <2>1. op'.pc \in {"charge", "sweep", "done"} => m'.session = m.session /\ noted' = noted
    BY MachineWaits
  <2> QED BY <2>1 DEF AnswerBeyond, Brought, News, Rising, Past, Follows, Beyond
<1>2. CASE Fulfill \/ Prepare \/ Launch \/ BeginReads \/ BeginFails
  <2>1. PICK session : /\ op'.got = Failed(session, << >>)
                       /\ \/ session.id = 0 \/ session = op.req.session
                          \/ /\ BeginFails /\ op'.pc = "done" /\ session = session_ref(sessions[op.h])
                             /\ session_ref(sessions'[op.h]) = session_ref(sessions[op.h])
    BY <1>1, <1>2, AnswersQuietly
  <2>2. op # NoOp
    BY <1>2, HandlerStands DEF Handler
  <2>3. op.req.session = m.session
    BY <2>2, AsksItsOwn
  <2>4. CASE session.id = 0 \/ session = op.req.session
    BY <2>1, <2>3, <2>4, QuietBrought
  <2>5. CASE BeginFails /\ op'.pc = "done" /\ session = session_ref(sessions[op.h])
             /\ session_ref(sessions'[op.h]) = session_ref(sessions[op.h])
    BY <2>1, <2>5, EndedBrought DEF BeginFails
  <2> QED BY <2>1, <2>4, <2>5
<1>3. CASE Advance \/ AdvanceReads \/ AdvanceFails
  <2>1. op'.pc \in {"charge", "done"}
    BY <1>1, <1>3, AdvanceMoves, AdvanceReadsMoves, AdvanceFailsMoves
  <2> QED BY <1>3, <2>1, HandedBrought
<1>4. CASE Charge
  <2>1. op.pc = "charge" /\ op'.got.session = op.got.session /\ op'.got.events = op.got.events
    BY <1>1, <1>4, ChargeMoves DEF Charge
  <2> QED BY <2>1, StaysBrought
<1>5. CASE HandlerSweeps
  <2>1. op.pc = "sweep" /\ op'.got = op.got
    BY <1>1, <1>5, SweepsMove DEF HandlerSweeps
  <2> QED BY <2>1, StaysBrought
<1>6. CASE Register
  <2>1. op'.pc = "advance"
    BY <1>1, <1>6, RegisterTurns DEF Enters
  <2> QED BY <2>1
<1>7. CASE ~Handler
  <2>1. op' = op \/ op' = NoOp \/ (Taking /\ StartHandler)
    BY <1>7, OthersMove DEF Next
  <2>2. Taking => op'.pc = "fulfill"
    BY <1>1, TakingFits
  <2>3. op' = op
    BY <2>1, <2>2 DEF NoOp
  <2> QED BY <2>3, StaysBrought
<1> QED BY <1>2, <1>3, <1>4, <1>5, <1>6, <1>7 DEF Handler

LEMMA NewsInit ==
    ASSUME Init
    PROVE  NewsIInv
<1>1. /\ op = NoOp /\ sessions = << >> /\ live = {} /\ noted = [last |-> 0, ordered |-> TRUE] /\ ledger.frames = 0
  BY DEF Init
<1>2. op.pc = "none" /\ DOMAIN sessions = {}
  BY <1>1 DEF NoOp
<1> QED BY <1>1, <1>2 DEF NewsIInv, SessionsInLine, NotedFits, LiveBeyond, FutureBeyond, AnswerBeyond, Top

LEMMA NewsStutter ==
    ASSUME NewsIInv, UNCHANGED vars
    PROVE  NewsIInv'
<1>1. UNCHANGED <<m, op, sessions, live, noted, ledger>>
  BY DEF vars
<1> USE <1>1
<1>2. SessionsInLine => SessionsInLine'
  BY DEF SessionsInLine, InLine, Rising, Before, OutRising, Top
<1>3. NotedFits => NotedFits'
  BY DEF NotedFits, Top
<1>4. LiveBeyond => LiveBeyond'
  BY DEF LiveBeyond, Beyond, Past
<1>5. FutureBeyond => FutureBeyond'
  BY DEF FutureBeyond, Tells, Beyond, InLine, Rising, Before, OutRising, Past, Top
<1>6. AnswerBeyond => AnswerBeyond'
  BY DEF AnswerBeyond, News, Follows, Rising, Past, Beyond, Top
<1> QED BY <1>2, <1>3, <1>4, <1>5, <1>6 DEF NewsIInv

LEMMA NewsStep ==
    ASSUME CleanIInv, TurnIInv, NewsIInv, Next
    PROVE  NewsIInv'
BY SessionsInLineKept, NotedFitsKept, LiveBeyondKept, FutureBeyondKept, AnswerBeyondKept DEF NewsIInv

LEMMA NewsMeans ==
    ASSUME CleanIInv, NewsIInv
    PROVE  NotifiedOnceInOrder
<1>1. noted.ordered = TRUE
  BY DEF NewsIInv, NotedFits
<1>2. ASSUME op.pc = "done", NEW e \in Range(op.got.events)
      PROVE  e.seq > m.session.seq
  <2>1. Types /\ AnswerBeyond
    BY DEF CleanIInv, NewsIInv
  <2>2. op.got \in Results
    BY <1>2, <2>1 DEF Types, Operation
  <2>3. op.got.events \in Seq(Events)
    BY <2>2 DEF Results
  <2>4. PICK i \in DOMAIN op.got.events : e = op.got.events[i]
    BY <1>2 DEF Range
  <2>5. m.session.seq < e.seq
    BY <1>2, <2>1, <2>4 DEF AnswerBeyond, News, Past
  <2>6. m.session.seq \in Nat /\ e.seq \in Nat
    <3>1. m.session \in Refs
      BY <2>1 DEF Types, Machinery, Coherent, IsMachine, Machines
    <3>2. e \in Events
      BY <2>3, <2>4
    <3> QED BY <3>1, <3>2 DEF Refs, Events
  <2> QED BY <2>5, <2>6
<1> QED BY <1>1, <1>2 DEF NotifiedOnceInOrder

(* Nothing a runtime did is notified twice or out of order, and nothing new is taken for a    *)
(* repetition, however often the session is resumed, swept or restored from an old state:     *)
(* what a session has yet to tell is newer, and numbered higher, than all the machine has     *)
(* been told of it (observe, with_resume_high_water and the adapters' numbering).             *)
THEOREM NotifiedCorrect == Spec => []NotifiedOnceInOrder
<1>1. Init => CleanIInv /\ TurnIInv /\ NewsIInv
  BY CleanInit, TurnInit, NewsInit
<1>2. CleanIInv /\ TurnIInv /\ NewsIInv /\ [Next]_vars => CleanIInv' /\ TurnIInv' /\ NewsIInv'
  BY CleanStep, CleanStutter, TurnStep, TurnStutter, NewsStep, NewsStutter
<1>3. CleanIInv /\ NewsIInv => NotifiedOnceInOrder
  BY NewsMeans
<1> QED BY <1>1, <1>2, <1>3, PTL DEF Spec
=============================================================================
