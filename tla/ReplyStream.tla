---------------------------- MODULE ReplyStream ----------------------------
(***************************************************************************)
(* One streamed reply: a provider writes frames, normalize_sse             *)
(* (src/src/adapter/common/sse.rs) turns them into stream events with the  *)
(* normalizer of the provider's protocol, and collect                      *)
(* (src/src/stream/accumulator/mod.rs) rebuilds the Response.              *)
(*                                                                         *)
(* The provider may write any frame next, orderly or not; the connection   *)
(* may break or end at any frame, and frames of the Responses protocol may *)
(* get lost on the way.  The consumer reads the stream to its end, as an   *)
(* AgentStream does, also after the item that made collect give up.        *)
(***************************************************************************)
EXTENDS Accumulator

CONSTANTS
    Apis,        \* of {"anthropic", "chat", "responses"}
    Indices, MaxParts, MaxPieces, MaxSent, MaxIdle, Counts,   \* as in the protocols
    MaxItemPieces,   \* bound: pieces of one message of the Responses protocol
    MaxLost      \* bound: frames lost on the way

ASSUME ApisAssumption == Apis \subseteq {"anthropic", "chat", "responses"}

VARIABLES
    api,         \* the protocol of this stream, whether its events are numbered, and
                 \* whether frames get lost (then the provider keeps to the protocol)
    said,        \* what the provider has written
    lost,        \* how many of its frames were lost
    norm,        \* the normalizer
    pending,     \* DecoderState.pending
    terminated,  \* DecoderState.terminated
    acc,         \* the accumulator of collect
    result,      \* what collect returned: "" while it runs
    ended        \* items the consumer got from the first that ends a stream on

replyVars == <<api, said, lost, norm, pending, terminated, acc, result, ended>>

Anthropic == INSTANCE AnthropicStream
Chat == INSTANCE ChatStream
Responses == INSTANCE ResponsesStream WITH MaxPieces <- MaxItemPieces

Frames ==
    CASE api.protocol = "anthropic" -> Anthropic!Frames(said)
      [] api.protocol = "chat"      -> Chat!Frames(said)
      [] api.protocol = "responses" -> Responses!Frames(said, api.numbered, api.lossy)

Says(f) ==
    CASE api.protocol = "anthropic" -> Anthropic!Says(said, f)
      [] api.protocol = "chat"      -> Chat!Says(said, f)
      [] api.protocol = "responses" -> Responses!Says(said, f)

Meant ==
    CASE api.protocol = "anthropic" -> Anthropic!Meant(said)
      [] api.protocol = "chat"      -> Chat!Meant(said)
      [] api.protocol = "responses" -> Responses!Meant(said)

OpenIn ==
    CASE api.protocol = "anthropic" -> Anthropic!OpenIn(norm)
      [] api.protocol = "chat"      -> Chat!OpenIn(norm)
      [] api.protocol = "responses" -> Responses!OpenIn(norm)

\* SseNormalizer::translate
translate(f) ==
    CASE api.protocol = "anthropic" -> Anthropic!translate(norm, f)
      [] api.protocol = "chat"      -> Chat!translate(norm, f)
      [] api.protocol = "responses" -> Responses!translate(norm, f)

NewNormalizer(p) ==
    CASE p = "anthropic" -> Anthropic!NewNormalizer
      [] p = "chat"      -> Chat!NewNormalizer
      [] p = "responses" -> Responses!NewNormalizer

NothingSaid(p) ==
    CASE p = "anthropic" -> Anthropic!Nothing
      [] p = "chat"      -> Chat!Nothing
      [] p = "responses" -> Responses!Nothing

ReplyInit ==
    /\ api \in {a \in [protocol : Apis, numbered : BOOLEAN, lossy : BOOLEAN] :
                    (a.numbered \/ a.lossy) <=> a.protocol = "responses"}
    /\ said = NothingSaid(api.protocol) /\ lost = 0
    /\ norm = NewNormalizer(api.protocol)
    /\ pending = << >> /\ terminated = FALSE
    /\ acc = NewAccumulator /\ result = "" /\ ended = 0

-----------------------------------------------------------------------------

\* The consumer gets an item; isEnd: an error or the end of the message.
Counted(isEnd) == IF isEnd \/ ended > 0 THEN ended + 1 ELSE ended

\* The stream has nothing to give and may read the source.
Reading == pending = << >> /\ ~terminated /\ ~norm.terminal

\* The stream gives an error as its last item, and collect returns it.
GiveError ==
    /\ terminated' = TRUE
    /\ ended' = Counted(TRUE)
    /\ result' = IF result = "" THEN "Err" ELSE result
    /\ UNCHANGED <<api, pending, acc>>

\* A frame arrives and is translated.
Read(f) ==
    /\ Reading
    /\ UNCHANGED lost
    /\ LET r == translate(f)
       IN  /\ norm' = r.n
           /\ said' = IF r.ok THEN Says(f) ELSE said
           /\ IF r.ok
                THEN /\ pending' = r.events
                     /\ UNCHANGED <<api, terminated, acc, result, ended>>
                ELSE GiveError

\* A frame is lost on the way.
Lose(f) ==
    /\ Reading /\ api.lossy /\ lost < MaxLost
    /\ said' = Says(f) /\ lost' = lost + 1
    /\ UNCHANGED <<api, norm, pending, terminated, acc, result, ended>>

\* The source fails (transport, encoding or framing), or ends before the message does.
SourceFails ==
    /\ Reading
    /\ GiveError
    /\ UNCHANGED <<said, lost, norm>>

\* The stream gives the first pending event; collect pushes it until one is refused.
GiveEvent ==
    /\ pending # << >>
    /\ pending' = Tail(pending)
    /\ ended' = Counted(Head(pending).e \in {"MessageStop", "Error"})
    /\ LET next == push(acc, Head(pending))
       IN  IF result # "" THEN UNCHANGED <<acc, result>>
           ELSE acc' = next /\ result' = IF next.error # "" THEN "Err" ELSE ""
    /\ UNCHANGED <<api, said, lost, norm, terminated>>

\* The stream is over and collect finishes.
Finish ==
    /\ pending = << >> /\ (terminated \/ norm.terminal)
    /\ result = ""
    /\ result' = IF FinishError(acc) = "" THEN "Ok" ELSE "Err"
    /\ UNCHANGED <<api, said, lost, norm, pending, terminated, acc, ended>>

ReplyNext ==
    \/ \E f \in Frames : Read(f) \/ Lose(f)
    \/ SourceFails \/ GiveEvent \/ Finish

ReplySpec == ReplyInit /\ [][ReplyNext]_replyVars

-----------------------------------------------------------------------------
(***************************************************************************)
(* Properties.                                                             *)
(***************************************************************************)

\* A Response that collect returns is the message the provider wrote: every
\* block in the order of its start, with all of its pieces in order, its
\* signature, its tool input and the call it belongs to -- also when frames
\* were lost on the way (the Responses protocol repeats what it streamed).
ResponseIsWhatWasSaid ==
    result = "Ok" => Content(acc) = Meant

\* The tokens of a Response are the provider's last report: cumulative counters
\* are not added up (UsageTracker), and no report is taken twice.
TokensAreTheLastReport == result = "Ok" => acc.usage = said.tokens

\* What a normalizer yields, the accumulator takes: the two never disagree on
\* the order of events.  Only an error of the provider, and a tool input of the
\* Chat protocol that is no JSON, are refused there.
AccumulatorTakesWhatIsYielded ==
    acc.error \in {"", "Stream"}
                  \cup (IF api.protocol = "chat" THEN {"InvalidToolInput"} ELSE {})

\* Once all events are taken, the blocks open in the accumulator are the blocks
\* the normalizer still waits for.
OpenBlocksAgree ==
    pending = << >> /\ result = "" /\ ~norm.terminal => OpenBlocks(acc) = OpenIn

\* A stream gives one item that ends it, an error or the end of the message, and
\* no item after it.
NothingFollowsTheEnd == ended <= 1

\* With numbered events no lost frame goes unnoticed, not even one that carries
\* nothing of the message.
NoLossUnnoticed == result = "Ok" /\ api.numbered => lost = 0

\* What collect returns is what was said, and the stages of the pipeline agree:
\* on the order of events, on what is open and on where the stream ends.
ResponseInv ==
    /\ ResponseIsWhatWasSaid /\ TokensAreTheLastReport
    /\ AccumulatorTakesWhatIsYielded /\ OpenBlocksAgree /\ NothingFollowsTheEnd
=============================================================================
