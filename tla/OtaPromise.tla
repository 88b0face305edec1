----------------------------- MODULE OtaPromise -----------------------------
(***************************************************************************)
(* What an update run promises (docs/design-gateway-ota.md): every module  *)
(* is staged, then applied, or written off; nothing is decided twice; the  *)
(* run ends by itself only when nothing is left open, and "done_ok" means  *)
(* that nothing was written off.  OtaRunner implements it.                 *)
(***************************************************************************)
CONSTANT Ids

VARIABLES
    state,     \* none | running | ok | failed | aborted
    outcome    \* of each module: todo | staged | done | lost

promise == <<state, outcome>>

Outcomes == {"todo", "staged", "done", "lost"}

Init == state = "none" /\ outcome = [u \in Ids |-> "todo"]

Begin ==
    /\ state # "running"
    /\ state' = "running"
    /\ outcome' = [u \in Ids |-> "todo"]

\* Module u goes from one stage to the next, or is written off.
Decide(u, o) ==
    /\ state = "running"
    /\ <<outcome[u], o>> \in {<<"todo", "staged">>, <<"todo", "lost">>,
                              <<"staged", "done">>, <<"staged", "lost">>}
    /\ outcome' = [outcome EXCEPT ![u] = o]
    /\ UNCHANGED state

End ==
    /\ state = "running"
    /\ \A u \in Ids : outcome[u] \in {"done", "lost"}
    /\ state' = IF \E u \in Ids : outcome[u] = "lost" THEN "failed" ELSE "ok"
    /\ UNCHANGED outcome

\* ABORT gives up what is staged.
Stop ==
    /\ state = "running"
    /\ state' = "aborted"
    /\ outcome' = [u \in Ids |-> IF outcome[u] = "staged" THEN "todo" ELSE outcome[u]]

\* The gateway resets: only the record remembers.
Forget == state' = "none" /\ outcome' = [u \in Ids |-> "todo"]

Next ==
    \/ Begin
    \/ \E u \in Ids, o \in Outcomes : Decide(u, o)
    \/ End
    \/ Stop
    \/ Forget

Spec == Init /\ [][Next]_promise
=============================================================================
