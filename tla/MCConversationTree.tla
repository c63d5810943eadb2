------------------------- MODULE MCConversationTree -------------------------
(***************************************************************************)
(* Model-checking instance of ConversationTree and RowStore.  A behaviour  *)
(* is about one of five things: a conversation and a fork of it, with tool *)
(* calls and few structural changes; one conversation that is compacted    *)
(* and moves its head over the compactions; and, with rows, one            *)
(* conversation and an insert that is not finished, a conversation and its *)
(* fork that share facts, or one conversation that goes on from an older   *)
(* snapshot.                                                               *)
(***************************************************************************)
EXTENDS RowStore, TLC

CONSTANTS
    MaxForkVersion,    \* bound: the largest version in a behaviour about a fork
    MaxForkChanges,    \* bound: the structural changes of all conversations together
    MaxTornVersion,    \* bound: the largest version with an unfinished insert
    MaxSharedVersion,  \* bound: the largest version with shared facts
    MaxSharedChanges,  \* bound: the structural changes of both of them together
    MaxOlderVersion,   \* bound: the largest version beside an older snapshot
    MaxExports         \* bound: the finished inserts

VARIABLE focus

Changes == MapThenSumSet(LAMBDA c : conv[c].version, Live)

VersionsUpTo(n) == \A c \in Live : conv[c].version <= n

NoArtifacts == \A c \in Live : conv[c].artifacts = << >>

NoCalls == \A c \in Live : RawCallIds(conv[c]) = {}

Done == {a \in attempts : a.done}

\* Where a behaviour stays.
Within ==
    \/ /\ focus = "fork"
       /\ plan = NoValue /\ NoArtifacts
       /\ VersionsUpTo(MaxForkVersion) /\ Changes <= MaxForkChanges
    \/ /\ focus = "compaction"
       /\ Live \subseteq {Root} /\ NoCalls
    \/ /\ focus = "torn"
       /\ Live \subseteq {Root} /\ ~ diverged
       /\ Cardinality(attempts \ Done) <= 1 /\ Cardinality(Done) <= 2
       /\ VersionsUpTo(MaxTornVersion)
       /\ VersionsUpTo(MaxTornVersion - 1) \/ (NoCalls /\ NoArtifacts)
    \/ /\ focus = "shared"
       /\ plan = NoValue /\ ~ diverged /\ Done = attempts
       /\ Cardinality(Done) <= MaxExports
       /\ VersionsUpTo(MaxSharedVersion) /\ Changes <= MaxSharedChanges
    \/ /\ focus = "older"
       /\ Live \subseteq {Root} /\ NoCalls /\ Done = attempts
       /\ Cardinality(Done) <= MaxExports
       /\ VersionsUpTo(MaxOlderVersion)

MCInit == Init /\ RowInit /\ focus \in {"fork", "compaction", "torn", "shared", "older"}

MCNext ==
    /\ UNCHANGED focus
    /\ \/ focus \in {"fork", "compaction"} /\ Next /\ UNCHANGED rowVars
       \/ focus \in {"torn", "shared", "older"} /\ RowNext
    /\ Within'

MCSpec == MCInit /\ [][MCNext]_<<vars, rowVars, focus>>

IdSymmetry ==
    Permutations(TurnIds) \cup Permutations(CallIds) \cup Permutations(ArtifactIds)
=============================================================================
