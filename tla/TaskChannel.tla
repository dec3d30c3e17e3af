----------------------------- MODULE TaskChannel -----------------------------
(***************************************************************************)
(* What a worker queue promises to the rest of the program, without its    *)
(* mutex, condition variable and thread positions: tasks are taken one at  *)
(* a time in the order they arrived, Close (the start of Stop) lets at     *)
(* most one more task be taken, and once Seal (the end of Stop) has        *)
(* happened no task is in hand and none is accepted.                       *)
(*                                                                         *)
(* WorkerQueue implements this specification.  RuleEngine and LlmRequests  *)
(* are built on top of it.                                                 *)
(***************************************************************************)
EXTENDS Sequences

CONSTANT Task

VARIABLES pending,  \* tasks accepted and not yet taken
          current,  \* <<>>, or <<t>> while the worker processes t
          open,     \* running_
          grace,    \* a closed channel may still hand out one task
          sealed    \* Stop() has returned

channelVars == <<pending, current, open, grace, sealed>>

ChannelTypeOK ==
    /\ pending \in Seq(Task)
    /\ current \in {<<>>} \cup {<<t>> : t \in Task}
    /\ open \in BOOLEAN
    /\ grace \in BOOLEAN
    /\ sealed \in BOOLEAN

ChannelInit ==
    /\ pending = <<>>
    /\ current = <<>>
    /\ open = TRUE
    /\ grace = TRUE
    /\ sealed = FALSE

Accept(t) ==
    /\ ~sealed
    /\ pending' = Append(pending, t)
    /\ UNCHANGED <<current, open, grace, sealed>>

Take ==
    /\ current = <<>>
    /\ pending # <<>>
    /\ open \/ grace
    /\ current' = <<Head(pending)>>
    /\ pending' = Tail(pending)
    /\ grace' = open
    /\ UNCHANGED <<open, sealed>>

Complete ==
    /\ current # <<>>
    /\ current' = <<>>
    /\ UNCHANGED <<pending, open, grace, sealed>>

\* running_ is cleared.  A worker that is between its loop test and its queue
\* can still take one task; one that is processing or about to test cannot.
Close ==
    /\ open
    /\ open' = FALSE
    /\ grace' \in {g \in BOOLEAN : g => current = <<>>}
    /\ UNCHANGED <<pending, current, sealed>>

\* The worker leaves without having used its grace.
Expire ==
    /\ ~open
    /\ grace
    /\ grace' = FALSE
    /\ UNCHANGED <<pending, current, open, sealed>>

\* Stop() has joined the worker and unsubscribed.
Seal ==
    /\ ~open
    /\ ~grace
    /\ current = <<>>
    /\ sealed' = TRUE
    /\ UNCHANGED <<pending, current, open, grace>>

ChannelNext ==
    \/ \E t \in Task : Accept(t)
    \/ Take \/ Complete \/ Close \/ Expire \/ Seal

ChannelSpec == ChannelInit /\ [][ChannelNext]_channelVars
==============================================================================
