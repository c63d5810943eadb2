----------------------------- MODULE Cancellation -----------------------------
(***************************************************************************)
(* Cancellation tokens (src/src/agent/context/cancel.rs).                  *)
(*                                                                         *)
(* A token has its own flag and a link to its parent; deriving a child     *)
(* never changes the parent.  cancel() stores the flag and then wakes the  *)
(* waiters of that token alone; a waiter of a descendant learns of it      *)
(* because cancelled() takes one Notified future per token of its chain.   *)
(* The two are not atomic with each other: cancel() is two steps, and      *)
(* cancelled() reads and registers link by link.                           *)
(*                                                                         *)
(* External: tokio::sync::Notify.  A Notified future receives every        *)
(* notify_waiters() called after the future was made, polled or not;       *)
(* notify_waiters() leaves nothing behind for a future made later.         *)
(*                                                                         *)
(* Operators under a comment "Fault:" are not part of the model.           *)
(***************************************************************************)
EXTENDS Naturals, FiniteSets

CONSTANTS
    Tokens,      \* names for the tokens of one tree
    Root,        \* the token of the root run
    NoToken,     \* the end of a chain, and "nothing" in a task
    Waiters,     \* tasks that call cancelled()
    Cancellers   \* tasks that call cancel()

ASSUME RootAssumption == Root \in Tokens
ASSUME NoTokenAssumption == NoToken \notin Tokens

VARIABLES
    live,     \* the tokens that exist
    parent,   \* CancellationState.parent
    ancestry,    \* the token and its ancestors, fixed when it is derived
    flag,     \* CancellationState.cancelled
    storing,  \* per canceller: the token whose flag it stored and has not notified
    phase,    \* per waiter: where in cancelled() it is
    token,    \* per waiter: the token it waits on
    at,       \* per waiter: the link it looks at next
    armed,    \* per waiter: the links with a Notified future
    woken     \* per waiter: the futures among them that were notified

tokenVars == <<live, parent, ancestry, flag, storing, phase, token, at, armed, woken>>

waiterVars == <<phase, token, at, armed, woken>>

MaybeToken == Tokens \cup {NoToken}

(* Arming: the futures are being made; Checking: is_cancelled runs;       *)
(* Parked: select_all awaits; Returned: cancelled() resolved.             *)
Phases == {"Idle", "Arming", "Checking", "Parked", "Returned"}

TokensTypeOK ==
    /\ live \subseteq Tokens /\ Root \in live
    /\ parent \in [Tokens -> MaybeToken]
    /\ ancestry \in [Tokens -> SUBSET Tokens]
    /\ flag \in [Tokens -> BOOLEAN]
    /\ storing \in [Cancellers -> MaybeToken]
    /\ phase \in [Waiters -> Phases]
    /\ token \in [Waiters -> MaybeToken]
    /\ at \in [Waiters -> MaybeToken]
    /\ armed \in [Waiters -> SUBSET Tokens]
    /\ woken \in [Waiters -> SUBSET Tokens]

TokensInit ==
    /\ live = {Root}
    /\ parent = [t \in Tokens |-> NoToken]
    /\ ancestry = [t \in Tokens |-> {t}]
    /\ flag = [t \in Tokens |-> FALSE]
    /\ storing = [c \in Cancellers |-> NoToken]
    /\ phase = [w \in Waiters |-> "Idle"]
    /\ token = [w \in Waiters |-> NoToken]
    /\ at = [w \in Waiters |-> NoToken]
    /\ armed = [w \in Waiters |-> {}]
    /\ woken = [w \in Waiters |-> {}]

-----------------------------------------------------------------------------

derive_child(t, child) ==
    /\ t \in live /\ child \notin live
    /\ live' = live \cup {child}
    /\ parent' = [parent EXCEPT ![child] = t]
    /\ ancestry' = [ancestry EXCEPT ![child] = ancestry[t] \cup {child}]
    /\ UNCHANGED <<flag, storing, waiterVars>>

(* cancel(): the store, and then notify_waiters in a step of its own. *)
StoreFlag(c, t) ==
    /\ t \in live /\ storing[c] = NoToken
    /\ flag' = [flag EXCEPT ![t] = TRUE]
    /\ storing' = [storing EXCEPT ![c] = t]
    /\ UNCHANGED <<live, parent, ancestry, waiterVars>>

(* Fault: the tokens of a tree share one Notify. *)
Notified_AnyToken(w, t) == phase[w] \in {"Arming", "Checking", "Parked"}

Notified(w, t) == t \in armed[w] /\ phase[w] \in {"Arming", "Checking", "Parked"}

NotifyWaiters(c) ==
    /\ storing[c] # NoToken
    /\ woken' = [w \in Waiters |->
                    IF Notified(w, storing[c]) THEN woken[w] \cup {storing[c]} ELSE woken[w]]
    /\ storing' = [storing EXCEPT ![c] = NoToken]
    /\ UNCHANGED <<live, parent, ancestry, flag, phase, token, at, armed>>

(* Fault: the flags are read before any future is made. *)
FirstPhase_CheckFirst == "Checking"

FirstPhase == "Arming"

(* cancelled() begins: it walks the chain from its own token. *)
StartWait(w, t) ==
    /\ t \in live /\ phase[w] \in {"Idle", "Returned"}
    /\ phase' = [phase EXCEPT ![w] = FirstPhase]
    /\ token' = [token EXCEPT ![w] = t]
    /\ at' = [at EXCEPT ![w] = t]
    /\ armed' = [armed EXCEPT ![w] = {}]
    /\ woken' = [woken EXCEPT ![w] = {}]
    /\ UNCHANGED <<live, parent, ancestry, flag, storing>>

NextLink(w) == parent[at[w]]

(* One Notified future; after the last link the flags are read. *)
ArmLink(w) ==
    LET next == NextLink(w) IN
    /\ phase[w] = "Arming"
    /\ armed' = [armed EXCEPT ![w] = @ \cup {at[w]}]
    /\ at' = [at EXCEPT ![w] = IF next = NoToken THEN token[w] ELSE next]
    /\ phase' = [phase EXCEPT ![w] = IF next = NoToken THEN "Checking" ELSE @]
    /\ UNCHANGED <<live, parent, ancestry, flag, storing, token, woken>>

(* is_cancelled, one load per link: a set flag ends the wait, *)
(* and past the root the task parks.                          *)
CheckLink(w) ==
    LET next == NextLink(w) IN
    /\ phase[w] = "Checking"
    /\ IF flag[at[w]]
       THEN phase' = [phase EXCEPT ![w] = "Returned"] /\ UNCHANGED at
       ELSE /\ phase' = [phase EXCEPT ![w] = IF next = NoToken THEN "Parked" ELSE @]
            /\ at' = [at EXCEPT ![w] = next]
    /\ UNCHANGED <<live, parent, ancestry, flag, storing, token, armed, woken>>

(* Fault: join_all, which waits for every future. *)
Wake_JoinAll(w) ==
    /\ phase[w] = "Parked" /\ armed[w] \subseteq woken[w]
    /\ phase' = [phase EXCEPT ![w] = "Returned"]
    /\ UNCHANGED <<live, parent, ancestry, flag, storing, token, at, armed, woken>>

(* select_all: any notified future resolves the wait. *)
Wake(w) ==
    /\ phase[w] = "Parked" /\ woken[w] # {}
    /\ phase' = [phase EXCEPT ![w] = "Returned"]
    /\ UNCHANGED <<live, parent, ancestry, flag, storing, token, at, armed, woken>>

(* The other branch of a caller's select! wins and the future is dropped. *)
DropWait(w) ==
    /\ phase[w] \in {"Arming", "Checking", "Parked"}
    /\ phase' = [phase EXCEPT ![w] = "Idle"]
    /\ UNCHANGED <<live, parent, ancestry, flag, storing, token, at, armed, woken>>

TokensNext ==
    \/ \E t, child \in Tokens : derive_child(t, child)
    \/ \E c \in Cancellers, t \in Tokens : StoreFlag(c, t)
    \/ \E c \in Cancellers : NotifyWaiters(c)
    \/ \E w \in Waiters, t \in Tokens : StartWait(w, t)
    \/ \E w \in Waiters : ArmLink(w) \/ CheckLink(w) \/ Wake(w) \/ DropWait(w)

TokensSpec == TokensInit /\ [][TokensNext]_tokenVars

(* A task that is runnable is polled, and cancel() runs to its end. *)
TokensFairness ==
    /\ \A w \in Waiters : WF_tokenVars(ArmLink(w) \/ CheckLink(w) \/ Wake(w))
    /\ \A c \in Cancellers : WF_tokenVars(NotifyWaiters(c))

FairTokensSpec == TokensSpec /\ TokensFairness

-----------------------------------------------------------------------------
(* Properties *)

(* CancellationToken::is_cancelled *)
IsCancelled(t) == \E link \in ancestry[t] : flag[link]

(* A wake-up for this link will still come, or has come. *)
WakeDue(w, link) == link \in woken[w] \/ \E c \in Cancellers : storing[c] = link

(* No wake-up is lost: a task parked in cancelled() on a token whose own  *)
(* or inherited flag is set has been woken, or the cancel() that set it   *)
(* has yet to notify.  This is the check-then-park race that cancelled()  *)
(* closes by making its futures before it reads the flags.                *)
NoLostWakeup ==
    \A w \in Waiters :
        phase[w] = "Parked" =>
            \A link \in ancestry[token[w]] : flag[link] => WakeDue(w, link)

(* cancelled() resolves only if the token it was called on is cancelled,  *)
(* by itself or by an ancestor: cancelling a child or a sibling wakes     *)
(* nobody else.                                                           *)
ReturnsOnlyIfCancelled ==
    \A w \in Waiters : phase[w] = "Returned" => IsCancelled(token[w])

(* A wait on a cancelled token ends, wherever in the chain the flag was   *)
(* set and whenever it was.                                               *)
CancelledWaitEnds ==
    \A w \in Waiters :
        (phase[w] = "Parked" /\ IsCancelled(token[w])) ~> phase[w] # "Parked"
=============================================================================
