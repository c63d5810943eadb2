------------------------- MODULE MCExternalSession -------------------------
(* The instance of ExternalSession that TLC checks. *)
EXTENDS ExternalSession

Base == [flavor |-> "codex", resume |-> TRUE, ephemeral |-> TRUE, toolIds |-> TRUE,
         stopOnError |-> FALSE, limit |-> 4, frames |-> 2]

\* Each kind of session, three in a worktree of their own and two in the shared
\* one, ACP with more frames.  Then one without resumption or tool ids, and one
\* with a policy that stops at a failed tool and a low limit.
MCConfigs ==
    {Base, [Base EXCEPT !.flavor = "opencode"], [Base EXCEPT !.flavor = "acp", !.frames = 3]}
    \cup {[Base EXCEPT !.flavor = f, !.ephemeral = FALSE] : f \in {"claude", "scripted"}}
    \cup {[Base EXCEPT !.flavor = "claude", !.frames = 1, !.resume = FALSE, !.toolIds = FALSE],
          [Base EXCEPT !.flavor = "scripted", !.ephemeral = FALSE, !.stopOnError = TRUE, !.limit = 2]}

MCToolSets == {{}, {"tool"}}

MCBatches == {<< >>, <<"BadSpawn">>, <<"Tool", "Spawn">>}
=============================================================================
