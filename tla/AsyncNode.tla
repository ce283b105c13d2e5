----------------------------- MODULE AsyncNode -----------------------------
(***************************************************************************)
(* The node that runs as a task of its own (node.rs, started by            *)
(* start_node): the loop of run() over its channels, the application that  *)
(* takes Readies and advances, and the callers of the Node trait.          *)
(*                                                                         *)
(* Of RawNode the model keeps what it hands out: messages, entries and     *)
(* read states that a step makes, the numbers of the Readies it remembers, *)
(* whether a leader is known, and whether the term or the vote changed.    *)
(* What they hold is in RawNode.                                           *)
(*                                                                         *)
(* As it is written the loop keeps next to none of what it promises; the   *)
(* defects that are taken for mended are in `repaired', and all of them    *)
(* have to be before it works.                                             *)
(***************************************************************************)
EXTENDS Naturals, Sequences, SequencesExt, FiniteSets

CONSTANTS
    Caller,         \* tasks that call the node
    Repairs,        \* sets of defects taken for mended
    Kinds,          \* kinds of outputs: they differ in what as written is lost
    MaxMade         \* bound: outputs of Raft

Defects == {"ready_switch",  \* a Ready is sent whenever there is room
            "overwrite",     \* a Ready is taken while another was not sent
            "accept_ready",  \* it forgets later messages, and gives back the read states
            "light_ready",   \* what advance returns is dropped
            "advance",       \* it fails if the node was stepped since the Ready
            "conf_change",   \* a configuration change that is refused is unwrapped
            "channels",      \* proposals are sent to recvc, the other messages to propc
            "responses",     \* recvc passes nothing but responses
            "leader",        \* propc opens and closes by has_ready
            "done"}          \* the sender of done is dropped in new

ASSUME AsyncAssumption ==
    /\ Repairs \subseteq SUBSET Defects
    /\ Kinds \subseteq {"message", "entry", "read"}
    /\ MaxMade \in Nat \ {0}

VARIABLES
    repaired,   \* never changes
    ch,         \* the channels, of capacity 1: messages under way
    raft,       \* RawNode
    run,        \* the locals of run()
    call,       \* Caller -> its call
    app,        \* the application: it waits for a Ready, or advances
    given       \* history: how often the application got an output

vars == <<repaired, ch, raft, run, call, app, given>>

Mended(defect) == defect \in repaired

Channels == {"propc", "recvc", "confc", "conf_statec", "readyc", "advancec", "tickc",
             "stop", "status"}

HasRoom(c) == ch[c] = <<>>
Put(c, m) == [ch EXCEPT ![c] = Append(@, m)]
Took(c) == [ch EXCEPT ![c] = Tail(@)]

\* donec.changed() returns: the sender of done is gone.
DoneFires == ~Mended("done") \/ run.pc \in {"ended", "panicked"}

-----------------------------------------------------------------------------
\* RawNode

WithId(outputs, i) == {o \in outputs : o.id = i}
OfKind(outputs, kind) == {o \in outputs : o.kind = kind}

\* A step leaves an output of kind k, a leader is known or not, and term or vote
\* may change.
Made(n, k, known, voted) ==
    [n EXCEPT !.made = @ + 1, !.out = @ \cup {[id |-> n.made + 1, kind |-> k]},
              !.leader = known, !.ss = (@ \/ known # n.leader), !.hs = (@ \/ voted)]

\* What a step may leave: nothing new, or an output and perhaps another leader.
Steps(n) ==
    {n} \cup (IF n.made = MaxMade THEN {}
              ELSE {Made(n, k, known, voted) : k \in Kinds, known, voted \in BOOLEAN})

HasReady(n) == n.out # {} \/ n.ss \/ n.hs

NoReady == [number |-> 0, outputs |-> {}]

TakeReady(n) == [number |-> n.number + 1, outputs |-> n.out]
AfterReady(n) ==
    [n EXCEPT !.number = @ + 1, !.out = {}, !.hs = FALSE, !.records = Append(@, n.number + 1)]

\* accept_ready
Accepted(n, rd) ==
    [n EXCEPT !.ss = FALSE,
              !.out = IF Mended("accept_ready") THEN @
                      ELSE (@ \ OfKind(@, "message")) \cup OfKind(rd.outputs, "read")]

\* commit_ready: the record of the last Ready must be the one of rd.
IsLastRecord(n, rd) == n.records # <<>> /\ Last(n.records) = rd.number

\* What else advance asserts, as it is written: the last unstable entry is still the one
\* of rd (stable_entries), only a leader has messages by now, and the HardState is that of rd.
Unstepped(n, rd, leads) ==
    /\ OfKind(rd.outputs, "entry") # {} => OfKind(n.out, "entry") = {}
    /\ OfKind(n.out, "message") # {} => leads
    /\ ~n.hs

\* Does no assertion of advance fail?
MayAdvance(n, rd, leads) ==
    IsLastRecord(n, rd) /\ (Mended("advance") \/ Unstepped(n, rd, leads))

\* advance: all records are persisted, and the LightReady has the messages.
Advanced(n) ==
    [n EXCEPT !.records = <<>>,
              !.out = IF Mended("light_ready") THEN @ ELSE @ \ OfKind(@, "message")]

-----------------------------------------------------------------------------
\* run()

\* Is the next Ready taken at the top of the loop?
MayTake(l, n) ==
    ~l.advance_on /\ HasReady(n) /\ (Mended("overwrite") => ~l.ready_on)

\* Mutant: the Ready that is not advanced may be sent again.
StaysOn(l, take) == l.ready_on \/ take

\* Is there a Ready to send?
Switched(l, take) == ~l.advance_on /\ (l.ready_on \/ take)

\* Another leader than before: proposals are taken, or no longer.
Led(l, n) ==
    IF l.lead = n.leader THEN l
    ELSE [l EXCEPT !.lead = n.leader,
                   !.propc_on = IF Mended("leader") THEN n.leader ELSE HasReady(n)]

\* The top of the loop, with locals l and node n; the locals and node after it.
Top(l, n) ==
    LET take == MayTake(l, n)
        m == IF take THEN AfterReady(n) ELSE n
        k == [l EXCEPT !.rd = IF take THEN TakeReady(n) ELSE @,
                       !.ready_on = Switched(l, take)]
    IN  <<Led(k, m), m>>

\* A branch of the select is through.
Loop(l, n) ==
    /\ run' = Top(l, n)[1]
    /\ raft' = Top(l, n)[2]

Selects == run.pc = "select"

StepRaft == \E n \in Steps(raft) : Loop(run, n)

RecvProp ==
    /\ Selects /\ run.propc_on /\ ch.propc # <<>>
    /\ ch' = Took("propc")
    /\ StepRaft
    /\ UNCHANGED <<repaired, call, app, given>>

\* Responses of unknown peers are dropped, and as it is written all but responses.
RecvMsg ==
    LET m == ch.recvc[1]
    IN  /\ Selects /\ ch.recvc # <<>>
        /\ ch' = Took("recvc")
        /\ IF m = "response" \/ (m = "request" /\ Mended("responses"))
           THEN StepRaft ELSE Loop(run, raft)
        /\ UNCHANGED <<repaired, call, app, given>>

\* Applying a configuration change may remove the node itself. A change that is
\* refused is unwrapped; if that is mended, the ConfState there was is handed back.
RecvConf ==
    /\ Selects /\ ch.confc # <<>>
    /\ ch' = Took("confc")
    /\ \E refused, removed \in BOOLEAN :
          IF refused /\ ~Mended("conf_change")
          THEN run' = [run EXCEPT !.pc = "panicked"] /\ UNCHANGED raft
          ELSE /\ run' = [run EXCEPT !.pc = "conf", !.propc_on = @ /\ (refused \/ ~removed)]
               /\ IF refused THEN UNCHANGED raft ELSE raft' \in Steps(raft)
    /\ UNCHANGED <<repaired, call, app, given>>

\* The ConfState is handed back, or nobody is to wait for it.
SendConfState ==
    /\ run.pc = "conf"
    /\ \/ HasRoom("conf_statec") /\ ch' = Put("conf_statec", "conf_state")
       \/ DoneFires /\ UNCHANGED ch
    /\ Loop([run EXCEPT !.pc = "select"], raft)
    /\ UNCHANGED <<repaired, call, app, given>>

RecvTick ==
    /\ Selects /\ ch.tickc # <<>>
    /\ ch' = Took("tickc")
    /\ StepRaft
    /\ UNCHANGED <<repaired, call, app, given>>

MaySend == HasRoom("readyc") /\ (Mended("ready_switch") => run.ready_on)

SendReady ==
    /\ Selects /\ MaySend
    /\ ch' = Put("readyc", run.rd)
    /\ Loop([run EXCEPT !.advance_on = TRUE], Accepted(raft, run.rd))
    /\ UNCHANGED <<repaired, call, app, given>>

\* Whether this node is the leader that is known is left open.
RecvAdvance ==
    /\ Selects /\ run.advance_on /\ ch.advancec # <<>>
    /\ ch' = Took("advancec")
    /\ \E leads \in {FALSE, raft.leader} :
          IF MayAdvance(raft, run.rd, leads)
          THEN Loop([run EXCEPT !.rd = NoReady, !.advance_on = FALSE], Advanced(raft))
          ELSE run' = [run EXCEPT !.pc = "panicked"] /\ UNCHANGED raft
    /\ UNCHANGED <<repaired, call, app, given>>

RecvStop ==
    /\ Selects /\ ch.stop # <<>>
    /\ ch' = Took("stop")
    /\ run' = [run EXCEPT !.pc = "ended"]
    /\ UNCHANGED <<repaired, raft, call, app, given>>

-----------------------------------------------------------------------------
\* Callers

Idle == [op |-> "none", at |-> "idle"]

\* propose; step, campaign, read_index; transfer_leadership and report_*, and a
\* response of an unknown peer; apply_conf_change; stop; status.
Operations == {"propose", "step", "report", "apply_conf_change", "stop", "status"}

Target(op) ==
    CASE op = "propose" -> IF Mended("channels") THEN "propc" ELSE "recvc"
      [] op = "step"    -> IF Mended("channels") THEN "recvc" ELSE "propc"
      [] op = "report"  -> "recvc"
      [] op = "apply_conf_change" -> "confc"
      [] OTHER -> op

Messages(op) ==
    CASE op = "propose" -> {"proposal"}
      [] op = "step" -> {"request", "response", "stray"}
      [] op = "report" -> {"request", "response"}
      [] OTHER -> {op}

Call(c, op) ==
    /\ call[c] = Idle
    /\ call' = [call EXCEPT ![c] = [op |-> op, at |-> "send"]]
    /\ UNCHANGED <<repaired, ch, raft, run, app, given>>

\* Where a call goes on when its message is sent.
AfterSend(op) ==
    CASE op = "apply_conf_change" -> [op |-> op, at |-> "conf_state"]
      [] op = "stop"   -> [op |-> op, at |-> "stopped"]
      [] op = "status" -> [op |-> op, at |-> "reply"]
      [] OTHER -> Idle

Send(c) ==
    LET op == call[c].op
    IN  /\ call[c].at = "send" /\ HasRoom(Target(op))
        /\ \E m \in Messages(op) : ch' = Put(Target(op), m)
        /\ call' = [call EXCEPT ![c] = AfterSend(op)]
        /\ UNCHANGED <<repaired, raft, run, app, given>>

\* Mutant: who waits for the stop to be acknowledged does not look at done.
SeesDoneOnce(c) == call[c].at \in {"send", "conf_state"}

\* Is done in the select the call waits in? Not in the one for a status.
SeesDone(c) == call[c].at \in {"send", "conf_state", "stopped"}

\* apply_conf_change goes on to wait for a ConfState, the others return.
GiveUp(c) ==
    /\ DoneFires /\ SeesDone(c)
    /\ call' = [call EXCEPT ![c] =
          IF @.op = "apply_conf_change" /\ @.at = "send" THEN AfterSend(@.op) ELSE Idle]
    /\ UNCHANGED <<repaired, ch, raft, run, app, given>>

\* The ConfState of whichever change.
TakeConfState(c) ==
    /\ call[c].at = "conf_state" /\ ch.conf_statec # <<>>
    /\ ch' = Took("conf_statec")
    /\ call' = [call EXCEPT ![c] = Idle]
    /\ UNCHANGED <<repaired, raft, run, app, given>>

\* The Context of the call is done.
Cancel(c) ==
    /\ call[c].at = "send" /\ call[c].op \in {"propose", "step"}
    /\ call' = [call EXCEPT ![c] = Idle]
    /\ UNCHANGED <<repaired, ch, raft, run, app, given>>

\* tick: one that finds no room is missed after 10 ms.
Tick ==
    /\ HasRoom("tickc")
    /\ ch' = Put("tickc", "tick")
    /\ UNCHANGED <<repaired, raft, run, call, app, given>>

-----------------------------------------------------------------------------
\* The application

TakesReady ==
    /\ app = "ready" /\ ch.readyc # <<>>
    /\ ch' = Took("readyc")
    /\ given' = [i \in 1..MaxMade |-> given[i] + Cardinality(WithId(ch.readyc[1].outputs, i))]
    /\ app' = "advance"
    /\ UNCHANGED <<repaired, raft, run, call>>

Advance ==
    /\ app = "advance"
    /\ \/ HasRoom("advancec") /\ ch' = Put("advancec", "advance")
       \/ DoneFires /\ UNCHANGED ch
    /\ app' = "ready"
    /\ UNCHANGED <<repaired, raft, run, call, given>>

\* boot_strap has made entries before run() begins.
Init ==
    /\ repaired \in Repairs
    /\ ch = [c \in Channels |-> <<>>]
    /\ \E k \in Kinds :
       LET n == [made |-> 1, out |-> {[id |-> 1, kind |-> k]}, leader |-> FALSE,
                 ss |-> FALSE, hs |-> FALSE, number |-> 0, records |-> <<>>]
           l == [pc |-> "select", rd |-> NoReady, ready_on |-> FALSE, propc_on |-> FALSE,
                 advance_on |-> FALSE, lead |-> FALSE]
       IN  run = Top(l, n)[1] /\ raft = Top(l, n)[2]
    /\ call = [c \in Caller |-> Idle]
    /\ app = "ready"
    /\ given = [i \in 1..MaxMade |-> 0]

Next ==
    \/ RecvProp \/ RecvMsg \/ RecvConf \/ SendConfState \/ RecvTick
    \/ SendReady \/ RecvAdvance \/ RecvStop
    \/ \E c \in Caller :
          \/ \E op \in Operations : Call(c, op)
          \/ Send(c) \/ GiveUp(c) \/ TakeConfState(c) \/ Cancel(c)
    \/ Tick \/ TakesReady \/ Advance

\* The select takes a branch that is ready again and again: it begins with one at
\* random. A caller is polled when it can go on.
Fairness ==
    /\ SF_vars(RecvProp) /\ SF_vars(RecvMsg) /\ SF_vars(RecvConf) /\ SF_vars(RecvStop)
    /\ WF_vars(SendConfState)
    /\ \A c \in Caller : WF_vars(Send(c)) /\ WF_vars(GiveUp(c)) /\ WF_vars(TakeConfState(c))

Spec == Init /\ [][Next]_vars /\ Fairness

-----------------------------------------------------------------------------

\* What Raft hands out is somewhere on its way to the application, or it has it,
\* once: in Raft, in the Ready that was taken, or in the channel; and run() does not
\* die of an assertion of advance or a configuration change.
OutputsOnce ==
    /\ run.pc # "panicked"
    /\ \A i \in 1..raft.made :
          1 = given[i] + Cardinality(WithId(raft.out, i))
              + (IF run.ready_on THEN Cardinality(WithId(run.rd.outputs, i)) ELSE 0)
              + (IF ch.readyc # <<>> THEN Cardinality(WithId(ch.readyc[1].outputs, i)) ELSE 0)

\* Every call returns, also when the node is stopped in between or the loop died:
\* but one that needs propc may wait until it opens, and status is never answered.
CallsReturn ==
    \A c \in Caller :
        (call[c] # Idle) ~> \/ call[c] = Idle
                            \/ call[c].op = "status"
                            \/ Target(call[c].op) = "propc" /\ ~run.propc_on
=============================================================================
