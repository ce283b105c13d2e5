------------------------------- MODULE Context -------------------------------
(***************************************************************************)
(* The contexts of tokio-context (context.rs, task.rs): handles that       *)
(* cancel, timeouts, contexts that are chained to a parent behind a mutex, *)
(* and the futures of done() that tasks wait for.                          *)
(*                                                                         *)
(* A future of done() goes up the chain: it locks the parent, and holds it *)
(* while it waits for the context's own end and for the parent's done(),   *)
(* which locks the next one.  What it has not locked yet it does not wait  *)
(* for; and while it waits for a lock, nothing wakes it for the end of the *)
(* context whose parent that is.                                           *)
(*                                                                         *)
(* The mutex of tokio is first come, first served.                         *)
(***************************************************************************)
EXTENDS Naturals, Sequences, SequencesExt

CONSTANTS
    Task,           \* tasks that wait for done(), or that a TaskController spawned
    MaxHandles,     \* bound: Handles, and TaskControllers, which work as they do
    MaxContexts     \* bound: contexts

VARIABLES
    handle,     \* Handles in the order of their making
    context,    \* contexts too; path goes from one to the root of its chain
    task,       \* Task -> what it does
    queue       \* for each context, the tasks that wait for its mutex

vars == <<handle, context, task, queue>>

Handles == DOMAIN handle
Contexts == DOMAIN context

\* A handle is held until it is cancelled.
Held(h) == handle[h].is # "cancelled"
HandleEnded(h) == handle[h].is \in {"elapsed", "cancelled"}

Idle == [does |-> "nothing"]
Waits(t) == task[t].does = "done"
Runs(t) == task[t].does = "run"

Path(c) == context[c].path
Root(c) == Last(Path(c))

-----------------------------------------------------------------------------
\* Handles and contexts

\* A context of handle h, chained to the context at the bottom of chain.
AddContext(h, shared, chain) ==
    /\ Len(context) < MaxContexts
    /\ context' = Append(context, [handle |-> h, shared |-> shared,
                                   path |-> <<Len(context) + 1>> \o chain])
    /\ queue' = Append(queue, <<>>)
    /\ UNCHANGED task

\* Context::new, with_timeout, with_parent, and those of RefContext (shared).
NewContext(shared, chain, timed) ==
    /\ Len(handle) < MaxHandles
    /\ handle' = Append(handle, [chain |-> chain, is |-> IF timed THEN "timed" ELSE "open"])
    /\ AddContext(Len(handle'), shared, chain)

\* Handle::spawn_ctx and spawn_ref: a context of the same handle and parent.
SpawnContext(h, shared) ==
    /\ Held(h)
    /\ AddContext(h, shared, handle[h].chain)
    /\ UNCHANGED handle

\* Handle::cancel, TaskController::cancel, or the drop of one: the sender goes.
Cancel(h) ==
    /\ Held(h)
    /\ handle' = [handle EXCEPT ![h].is = "cancelled"]
    /\ UNCHANGED <<context, task, queue>>

\* The timeout passes, for good.
Elapse(h) ==
    /\ handle[h].is = "timed"
    /\ handle' = [handle EXCEPT ![h].is = "elapsed"]
    /\ UNCHANGED <<context, task, queue>>

Ended(c) == HandleEnded(context[c].handle)

-----------------------------------------------------------------------------
\* done(). Task t waits for context ctx and has gone up to the at-th of its path:
\* it holds the mutexes up to there (a Context that is not shared has none), and
\* wants the next one.

Locked(t) ==
    IF ~Waits(t) THEN {}
    ELSE {Path(task[t].ctx)[i] : i \in 1..task[t].at} \cap {c \in Contexts : context[c].shared}

\* Mutant: the end of the context itself is not looked at when there is a parent.
ParentsOnly(t) ==
    LET p == Path(task[t].ctx) IN {p[i] : i \in 2..task[t].at}

\* The contexts whose end wakes t: not the last one while its parent is locked
\* by another.
Observed(t) ==
    LET p == Path(task[t].ctx)
    IN  {p[i] : i \in 1..(IF task[t].at = Len(p) THEN task[t].at ELSE task[t].at - 1)}

Queued(q, t, c, at) == IF at = Len(Path(c)) THEN q ELSE [q EXCEPT ![Path(c)[at + 1]] = Append(@, t)]

\* The future is made and looked at. A context that is not shared is borrowed.
Done(t, c) ==
    LET at == IF context[c].shared THEN 0 ELSE 1
    IN  /\ task[t] = Idle
        /\ ~context[c].shared => \A u \in Task : Waits(u) => task[u].ctx # c
        /\ task' = [task EXCEPT ![t] = [does |-> "done", ctx |-> c, at |-> at]]
        /\ queue' = Queued(queue, t, c, at)
        /\ UNCHANGED <<handle, context>>

\* lock().await
Lock(t) ==
    /\ Waits(t) /\ task[t].at < Len(Path(task[t].ctx))
    /\ LET c == Path(task[t].ctx)[task[t].at + 1]
       IN  /\ Head(queue[c]) = t
           /\ \A u \in Task : c \notin Locked(u)
           /\ queue' = Queued([queue EXCEPT ![c] = Tail(@)], t, task[t].ctx, task[t].at + 1)
    /\ task' = [task EXCEPT ![t].at = @ + 1]
    /\ UNCHANGED <<handle, context>>

\* The future is gone, and its locks and places in queues.
Leave(t) ==
    /\ task' = [task EXCEPT ![t] = Idle]
    /\ queue' = [c \in Contexts |-> SelectSeq(queue[c], LAMBDA u : u # t)]
    /\ UNCHANGED <<handle, context>>

Return(t) == Waits(t) /\ (\E c \in Observed(t) : Ended(c)) /\ Leave(t)

\* The caller's select took another branch.
Abandon(t) == Waits(t) /\ Leave(t)

-----------------------------------------------------------------------------
\* TaskController: spawn, and how the spawned task ends.

Spawn(t, h) ==
    /\ task[t] = Idle /\ Held(h) /\ handle[h].chain = <<>>
    /\ task' = [task EXCEPT ![t] = [does |-> "run", ctl |-> h]]
    /\ UNCHANGED <<handle, context, queue>>

Finish(t) ==
    /\ Runs(t)
    /\ task' = [task EXCEPT ![t] = Idle]
    /\ UNCHANGED <<handle, context, queue>>

\* Mutant: the timeout of the controller is forgotten.
ObeysCancelOnly(t) == ~Held(task[t].ctl)

\* Does the select of the spawned task see the end of its controller?
Obeys(t) == HandleEnded(task[t].ctl)

Abort(t) ==
    /\ Runs(t) /\ Obeys(t)
    /\ task' = [task EXCEPT ![t] = Idle]
    /\ UNCHANGED <<handle, context, queue>>

-----------------------------------------------------------------------------

Init ==
    /\ handle = <<>> /\ context = <<>> /\ queue = <<>>
    /\ task = [t \in Task |-> Idle]

Chains == {<<>>} \cup {Path(c) : c \in {p \in Contexts : context[p].shared}}

Next ==
    \/ \E shared, timed \in BOOLEAN, chain \in Chains : NewContext(shared, chain, timed)
    \/ \E h \in Handles :
          \/ Cancel(h) \/ Elapse(h)
          \/ \E shared \in BOOLEAN : SpawnContext(h, shared)
          \/ \E t \in Task : Spawn(t, h)
    \/ \E t \in Task :
          \/ Lock(t) \/ Return(t) \/ Abandon(t) \/ Finish(t) \/ Abort(t)
          \/ \E c \in Contexts : Done(t, c)

\* A future whose lock is free or whose context ended is woken and polled.
Fairness == \A t \in Task : WF_vars(Lock(t)) /\ WF_vars(Return(t)) /\ WF_vars(Abort(t))

Spec == Init /\ [][Next]_vars /\ Fairness

-----------------------------------------------------------------------------

\* When the context at the root of a chain ends, every done() below it returns,
\* whoever holds which lock and however many wait; and a task of a TaskController
\* that ended is aborted.
EndOfRootEndsAll ==
    \A t \in Task :
        /\ (Waits(t) /\ Ended(Root(task[t].ctx))) ~> task[t] = Idle
        /\ (Runs(t) /\ HandleEnded(task[t].ctl)) ~> task[t] = Idle

\* Does another task wait for a context of t's chain?
Shares(t, u) ==
    u # t /\ Waits(u) /\ ToSet(Path(task[u].ctx)) \cap ToSet(Path(task[t].ctx)) # {}

\* A context that ends wakes its own done(), unless another task holds a lock of
\* its chain: as long as it does, the end may go unnoticed.
EndWakesUnlessShared ==
    \A t \in Task :
        (Waits(t) /\ Ended(task[t].ctx)) ~> (~Waits(t) \/ \E u \in Task : Shares(t, u))

\* "Cancels the Context, ensuring that done() returns immediately" (Handle::cancel).
CancelEndsDone ==
    \A t \in Task : (Waits(t) /\ Ended(task[t].ctx)) ~> ~Waits(t)
=============================================================================
