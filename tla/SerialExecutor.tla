--------------------------- MODULE SerialExecutor ---------------------------
(***************************************************************************)
(* What Eventloop::queueInLoop promises its callers, without threads,      *)
(* eventfd or poller: the functors handed over are kept in one line and    *)
(* each is run once, in the order in which they were accepted.             *)
(***************************************************************************)
EXTENDS Sequences

CONSTANT Tasks        \* the functors that callers may hand over

VARIABLES accepted,   \* history: the functors accepted, in order
          backlog,    \* accepted and not yet run
          ran         \* history: the functors run, in order

vars == <<accepted, backlog, ran>>

Init == /\ accepted = <<>>
        /\ backlog = <<>>
        /\ ran = <<>>

\* A caller hands over functor t.
Accept(t) == /\ accepted' = Append(accepted, t)
             /\ backlog' = Append(backlog, t)
             /\ UNCHANGED ran

\* The oldest functor of the backlog is run.
RunNext == /\ backlog # <<>>
           /\ ran' = Append(ran, Head(backlog))
           /\ backlog' = Tail(backlog)
           /\ UNCHANGED accepted

Next == RunNext \/ \E t \in Tasks : Accept(t)

Spec == Init /\ [][Next]_vars

TypeOK == /\ accepted \in Seq(Tasks)
          /\ backlog \in Seq(Tasks)
          /\ ran \in Seq(Tasks)

(* Nothing is lost, repeated or overtaken: the functors run, followed by   *)
(* the ones still waiting, are the ones accepted, in the same order.       *)
Fifo == accepted = ran \o backlog
=============================================================================
