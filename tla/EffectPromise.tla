--------------------------- MODULE EffectPromise ---------------------------
(***************************************************************************)
(* What the effect path promises the operator about each plan, with no     *)
(* processes, ledgers or crashes: the plan is sent at most once, and the   *)
(* verdict on record never contradicts what the provider did or may still  *)
(* do.  OperatorLifecycle implements this.                                 *)
(***************************************************************************)
CONSTANT Plans

VARIABLES
    verdict,  \* "open", "sent", "done", "failed" or "review"
    effect    \* "untouched", "queued", "applied" or "void"

Init ==
    /\ verdict = [p \in Plans |-> "open"]
    /\ effect = [p \in Plans |-> "untouched"]

Judge(p, from, to) ==
    /\ verdict[p] = from
    /\ verdict' = [verdict EXCEPT ![p] = to]
    /\ UNCHANGED effect

\* The plan is committed to before the provider hears of it.
Send(p) == Judge(p, "open", "sent")

\* A plan may be closed while nothing was sent: it then never is.
Close(p) == Judge(p, "open", "failed") /\ effect[p] = "untouched"

\* The one request reaches the provider.
TakeEffect(p) ==
    /\ verdict[p] \in {"sent", "review"}
    /\ effect[p] = "untouched"
    /\ \E e \in {"queued", "applied", "void"} :
          effect' = [effect EXCEPT ![p] = e]
    /\ UNCHANGED verdict

JobEnds(p) ==
    /\ effect[p] = "queued"
    /\ \E e \in {"applied", "void"} : effect' = [effect EXCEPT ![p] = e]
    /\ UNCHANGED verdict

Confirm(p) == Judge(p, "sent", "done") /\ effect[p] = "applied"

Refute(p) == Judge(p, "sent", "failed") /\ effect[p] = "void"

\* Anything that was sent may be left to a human.
Defer(p) == Judge(p, "sent", "review")

Next ==
    \E p \in Plans :
        \/ Send(p) \/ Close(p) \/ TakeEffect(p) \/ JobEnds(p)
        \/ Confirm(p) \/ Refute(p) \/ Defer(p)

Spec == Init /\ [][Next]_<<verdict, effect>>

=============================================================================
