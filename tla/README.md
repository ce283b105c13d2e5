# Verification of linkrocks

linkrocks is a Rust workspace around a port of the raft consensus library of
TiKV (`src/components/raft`), its protobuf messages (`src/components/raftpb`), a
small library of cancellable contexts (`src/components/tokio-context`) and a
binary that only prints a greeting (`src/src/main.rs`). This directory holds TLA+
models of the parts that carry its logic, the TLC runs that check them on small
instances, and TLAPS proofs about them. In what follows file names without a
directory are under `src/components/raft/src`.

Commands, in this directory:

    tlc -workers 2 -config RawNodePipeline.cfg MCRawNode  one run, see "Runs"
    tlc -workers 2 -config FollowerLog.cfg MCFollowerLog  another one (a minute)
    tlc -workers 2 -config Election.cfg MCElection        and another (two minutes)
    tlapm RawNodeProofs.tla                               proofs (about 4 minutes)
    tlapm ElectionProofs.tla                              proofs (about 4 minutes)
    tlapm FollowerProofs.tla                              proofs (about 2 minutes)
    tlapm PeerProgressProofs.tla                          proofs (about 2 minutes)

The other modules of proofs are `InflightsProofs`, `ReadIndexProofs`, `TrackerProofs` and
`ConfChangeProofs`, each a minute or less.

`PROJECT.json` lists the components, the runs, the mutations of definitions that
show that each property can fail, the source lines each definition stands for, the
hazards and the theorems.

## 1. Inventory

### The raft library

| part | state it keeps | operations | correct when |
| --- | --- | --- | --- |
| `Unstable` (`log_unstable.rs`) | entries not handed to storage yet, their offset, a pending snapshot | `truncate_and_append`, `stable_entries`, `stable_snap`, `restore` | the entries are contiguous and start where storage ends; nothing is dropped before it is stored |
| `RaftLog` (`raft_log.rs`) | a `Storage`, an `Unstable`, `committed`, `persisted`, `applied` | `append`, `maybe_append`, `find_conflict`, `commit_to`, `maybe_commit`, `maybe_persist`, `applied_to`, `next_entries_since`, `restore`, `slice` | `applied <= min(committed, persisted)`, `persisted < offset`; a committed entry is never replaced; only persisted committed entries are delivered |
| `MemStorage` (`storage.rs`) | entries, `HardState`, `ConfState`, snapshot metadata | `append`, `compact`, `apply_snapshot`, `snapshot`, `set_hardstate`, `term`, `entries` | no gap, no overwriting of compacted entries |
| `UncommittedState` (`raft.rs`) | size of the proposals of this leader not handed out yet, index of the last entry before its term | `maybe_increase_uncommitted_size`, `maybe_reduce_uncommitted_size` | the size is that of the entries it stands for: no underflow, no drift |
| `Raft` (`raft.rs`) | term, vote, role, leader, election clock, reads, pending configuration change, tracker | `step`, `tick`, `hup`, `campaign`, `append_entry`, `on_persist_entries`, `maybe_commit`, `handle_append_entries`, `handle_heartbeat`, `handle_snapshot`, `apply_conf_change` | election safety, leader completeness, log matching; one unapplied configuration change at a time; reads that are not stale |
| `RawNode` (`raw_node.rs`) | a `Raft`, previous soft and hard state, the queue of `ReadyRecord`s, `commit_since_index` | `ready`, `advance`, `advance_append`, `advance_append_async`, `on_persist_ready`, `advance_apply_to`, `propose`, `read_index`, `campaign`, `boot_strap` | each committed entry is delivered once, in order, when it is on disk; each HardState change is given out once; no assertion fails |
| `ReadOnly` (`read_only.rs`) | queue of read requests with their acknowledgements | `add_request`, `recv_ack`, `advance` | a read is answered after a quorum confirmed the leader, in the order of requests |
| `Progress`, `Inflights` (`tracker/`) | next and matched index of a peer, probe/replicate/snapshot state, ring buffer of append messages in flight | `maybe_update`, `maybe_decr_to`, `become_*`, `update_state`; `add`, `free_to`, `set_cap` | `matched < next_idx`; at most a window of messages in flight |
| `ProgressTracker` (`tracker/mod.rs`) | configuration, progress of all peers, votes | `maximal_committed_index`, `tally_votes`, `quorum_recently_active`, `apply_conf` | the progress map is that of the configuration |
| quorums (`quorum/`) | sets of voters | `committed_index`, `vote_result` of majority and joint configurations | a quorum acknowledges what is committed; joint means both |
| `Changer`, `restore` (`confchange/`) | none | `simple`, `enter_joint`, `leave_joint`, `restore` | the invariants of `check_invariants`; simple changes move one voter |
| `AsyncNode` (`node.rs`), `bootstrap.rs`, `SwitchChannel` (`util.rs`) | the task that owns a RawNode and the channels of the Node handles | `run`, `step_with_wait_option`, `propose`, `ready`, `advance`, `stop` | calls get an answer or a stop; one Ready at a time |
| `Config`, `Status`, errors | plain values | `validate` | |

### Other crates

| part | state it keeps | operations | correct when |
| --- | --- | --- | --- |
| tokio-context `Context` (`context.rs`) | parent, deadline, cancellation channel | `new`, `add_parent`, `with_timeout`, `done` | a cancelled parent ends all children |
| tokio-context `TaskController` (`task.rs`) | a cancellation handle | `spawn`, `cancel` | a cancelled controller ends its tasks |
| raftpb | generated messages | accessors | |
| examples | an application loop | `on_ready` | see module RawNode |

### How the parts interact

An application owns a `RawNode`. It calls `tick`, `propose`, `read_index` or `step`;
these change `Raft` and its `RaftLog` and may append entries to `Unstable`. When
`has_ready` says so the application takes a `Ready`: the unstable entries and the
HardState it must write, messages, read states, and committed entries it may apply.
It writes them to the `Storage` that `RaftLog` also reads, and calls one of the
advance functions. `advance` and `advance_append` say that everything is on disk;
they stabilise the entries, raise `persisted` and possibly `committed`, and return a
`LightReady` with more committed entries and a new commit index. After
`advance_append_async` the application may take further Readies and reports with
`on_persist_ready(number)` which of them have reached the disk. It reports what it
has applied with `advance_apply_to`. `AsyncNode` runs this in a task and connects
handles with channels. A call is never interrupted by another one on the same
node (`&mut self`), but the four things that move at their own pace, namely the
calls of clients, the writes, the disk and the state machine, interleave in any
order, and a crash may come between any two steps.

### What is hard here

The hazards are listed one by one, with their lines, in `PROJECT.json`. The groups are:

* crashes between the steps of the pipeline: entries before HardState, Ready before
  LightReady, storage before disk, applied before saved, and the restart in
  `Raft::new` that must accept whatever is left;
* acknowledgements that come late, for several Readies at once, or while newer
  Readies are out (`on_persist_ready`), and for the follower log those that name
  entries truncated meanwhile;
* delivery that runs independently of application (`commit_since_index`), in
  pieces of limited size;
* configuration changes that are proposed, refused, committed, not yet applied or
  forgotten in a crash;
* counters at their boundaries: the size of uncommitted entries, the ring buffer of
  `Inflights`, even and joint quorums;
* several nodes: lost, reordered and duplicated messages;
* the channels of `AsyncNode` and the locks of `Context`: callers that wait for ever.

## 2. Modules

| module | what it models |
| --- | --- |
| `LogSegment` | a contiguous piece of a log, the data structure under `Unstable` and `MemStorage` |
| `MemStorage` | `MemStorageCore` as a value with its operations and the conditions of its panics |
| `RaftLog` | `RaftLog` and `Unstable` without a pending snapshot, as operators on a storage and an unstable segment |
| `RawNode` | the Ready pipeline of a group with one voter: `RawNode` + `Raft` + `RaftLog` + `MemStorage` + the application + disk, crashes and restarts |
| `DurableLog` | the abstract specification of what the pipeline promises to the application |
| `FollowerLog` | the log of a follower: `handle_append_entries`, `handle_heartbeat`, `restore` and the acknowledgement of writes, with the rest of the group as an environment |
| `Election` | several voters with terms, votes, pre-votes, leases, check-quorum, transfers of leadership and commits, over a network, with crashes; uses `Majorities` |
| `PeerProgress` | how a leader brings its log to one peer: `Progress`, sending, batching, snapshots and the answers, composed with the peer and the network |
| `ReadIndex` | `ReadOnly` in a group: reads at leaders and followers, heartbeats with contexts, answers, changes of leader; uses `Majorities` |
| `Inflights` | the ring buffer of in-flight append messages (`tracker/inflights.rs`) |
| `BoundedQueue` | the abstract specification of `Inflights`: a FIFO queue whose capacity moves |
| `Majorities` | decisions of majority and joint configurations (`quorum/`) as operators: the committed index, with and without group commit, and the result of a vote |
| `Tracker` | `ProgressTracker` of a fixed configuration: acknowledgements, commit groups and votes; uses `Majorities` |
| `ConfChange` | `Changer`, `restore` and the restart of `Raft::new`: the configuration and the peers in the progress map; uses `Majorities` |
| `AsyncNode` | the task that owns a `RawNode`, its channels, the application and the callers of the `Node` trait |
| `Context` | tokio-context: handles, chained contexts, `done()` with its locks, and task controllers |
| `RawNodeInv`, `FollowerInv`, `ElectionInv`, `ReadIndexInv`, `PeerProgressInv` | the inductive invariants of `RawNode`, `FollowerLog`, `Election`, `ReadIndex` and `PeerProgress`; the other components have theirs beside the proofs |
| `MCRawNode`, `MCFollowerLog`, `MCTracker`, `MCElection`, `MCPeerProgress`, `MCReadIndex`, `MCAsyncNode` | constants, bounds and symmetry of TLC runs |
| `RawNodeProofs` | lemmas about the operators of the first three modules, the theorems about `RawNode`, and at the end the one about `AsyncNode`, the loop around a `RawNode` |
| `FollowerProofs`, `ElectionProofs`, `PeerProgressProofs`, `ReadIndexProofs`, `InflightsProofs`, `TrackerProofs`, `ConfChangeProofs` | the theorems about the module each is named for |

The raft library is cut along the state its parts share. `RawNode` has everything of a node
that is alone, down to the disk. With several voters that would be out of reach, so each
of the other modules keeps one part in detail and states what it takes from the others:
`Election` has all nodes, but an append needs no probing: it brings the leader's log up to any index; `PeerProgress` has the log of one leader
and one peer, and no elections; `FollowerLog` has the log of one follower with everything the
group may send it; `ReadIndex` has elections and commits as one step each, with what
`Election` checks about them.

### Defects taken for mended

As it is written, a group of several voters does not survive its first message (run
`group_dies`), and `AsyncNode` delivers next to nothing. A model of only that would say nothing
about the rest of the code. `Election`, `PeerProgress` and `AsyncNode` therefore name each
defect that stands in the way (`Defects`), and `repaired` is the set of those taken for mended:
each operator has the code as it is written and the mended form side by side, and `{}` is
the code as it is. Every run says which set it takes. Each defect that the runs of `PeerProgress` and
`AsyncNode` mend is needed: with it as written the run finds a violation, of `BothSurvive`
(`update_state`), `MatchedIsReplicated` (`find_conflict`, `restore`), `SentInOrder` (`is_continuous`) or
`OutputsOnce` (the others). So is `find_conflict` in `Election` (`ElectionCut.cfg`). Only `done` is mended for another reason: as it is written every call may
give up at once, so `CallsReturn` would hold and say nothing.

| module | defect | as written | mended |
| --- | --- | --- | --- |
| `Election` | `new_message` | `new_message(.., None)` unwraps `None` (`raft.rs:293`) | `send` fills in the sender |
| | `send_term` | a message that is no vote needs a term before `send` gives it one (`raft.rs:631`) | it must not have one |
| | `pre_vote` | a pre-election calls `become_candidate` (`raft.rs:1260`) | `become_pre_candidate` |
| | `in_lease` | the lease holds for a node without leader (`raft.rs:1344`) | for one with a leader |
| | `find_conflict` | the first index of the message is the conflict (`raft_log.rs:179`): an append that says nothing new cuts the log behind it | such an append leaves the log alone |
| `PeerProgress` | `update_state` | the arms of `Probe` and `Replicate` are exchanged (`tracker/progres.rs:231`) | exchanged back |
| | `find_conflict` | the first index of the message is the conflict (`raft_log.rs:179`) | the first that differs, or none |
| | `is_continuous` | `try_batching` batches what does not follow (`raft.rs:741`, `util.rs:75`) | what follows, also behind an append without entries |
| | `restore` | a peer that asked for a snapshot takes any (`raft.rs:2585`) | one as new as it asked for |
| `AsyncNode` | `ready_switch` | the branch that sends a Ready is never switched off (`node.rs:385`) | only when there is one |
| | `overwrite` | a Ready that was not sent is replaced (`node.rs:320`) | it is sent first |
| | `accept_ready` | drains messages made since, and puts read states back (`raw_node.rs:653`) | neither |
| | `light_ready` | what `advance` returns is dropped (`node.rs:390`) | its messages are kept |
| | `advance` | it fails when raft was stepped since the Ready: new unstable entries (`raw_node.rs:677`, `log_unstable.rs:86`), messages of a node that does not lead (`raw_node.rs:744`), another HardState (`raw_node.rs:753`) | what was made since stays for the next Ready |
| | `conf_change` | a change that is refused is unwrapped (`node.rs:357`) | it changes nothing |
| | `done` | the sender of `done` is dropped in `new` (`node.rs:289`) | it lives as long as the loop |
| | `channels` | proposals go to `recvc`, other messages to `propc` (`node.rs:426`) | the other way round |
| | `responses` | `recvc` passes only responses of known peers (`node.rs:347`) | requests too |
| | `leader` | `propc` opens and closes by `has_ready` (`node.rs:325`) | by whether a leader is known |

### How RawNode corresponds to the code

*Variables.* `store` is the `MemStorage` the node reads and the application writes.
`disk` is the part of it that survives a crash; `Sync` copies `store` to it. `unstable`,
`committed`, `persisted` and `applied` are the fields of `RaftLog`. `state`, `term`, `vote`,
`matched` (the progress the leader keeps of itself), `pending_conf_index`,
`uncommitted_size`, `last_log_tail_index` and `read_states` are those of `Raft`.
`prev_state` (the role in the previous SoftState), `prev_hs`, `max_number`, `records` and
`commit_since_index` are those of `RawNode`. The application has a `stage` (`idle`,
then `ready`, `entries` once the entries of the Ready are written, `written` once its
HardState is, `light` while it holds a LightReady), the Ready `rd`, the commit index
`light` of the LightReady, the committed entries it was handed (`inbox`) and those in its
state machine (`sm`). `panics` collects the assertions that failed, and a node that
panicked does nothing more.

*Actions.* One action is one call of the library or one step of the application:
`Hup` (a campaign, which the only voter wins at once), `BootStrap`, `Propose`, `ReadIndex`,
`GetReady` (`ready`), `AdvanceAppend(apply)` (`advance_append`, or `advance` when `apply`),
`AdvanceAppendAsync`, `OnPersistReady(n)`, `AdvanceApply` (`advance_apply_to`), the writes
`WriteEntries`, `WriteHardState` and `WriteCommit`, `Sync`, `ApplyEntry`, `Compact` and
`CrashRestart` (`RawNode::new` on what the disk holds).

*Data.* An entry is a term, a type (normal or configuration change) and a size. The
limit of a Ready's size is the free choice of where a delivery ends, with at least one
entry, which is what `limit_size` guarantees. The configuration change that is applied
changes nothing: what matters here is when it may be proposed and when it keeps a
node from campaigning. Applying an entry commits when the leader can, as
`apply_conf_change` does.

*The application.* It follows `on_ready` of `examples/single_mem_node/main.rs` in the
order entries, HardState, advance, LightReady. Unlike the example it writes to a disk
and is written for crashes, so the model states what such an application has to do:

* it applies an entry only when a HardState whose commit index covers it is on disk,
  and it restarts the node with `Config::applied` equal to what it has applied;
* with `SaveLightCommit` it saves the commit index of a LightReady. The configuration
  `RawNodeLightCommit.cfg` shows why: without it a restart can end in `fatal!`, although the
  comment at `raw_node.rs:253` says that saving is not required;
* it takes a Ready only after it finished the previous one (`advance*`), as the
  library demands, and bootstraps only a node whose storage is empty and whose term
  is 0.

### How FollowerLog corresponds to the code

*The group.* Raft's own promises are the environment: a leader only appends to its log
(`LeaderAppend`), commits an index of its own term (`LeaderCommits`), and a new one
(`NewLeader`) starts from the beginning of an earlier leader's log that contains
everything committed. An append message (`ReceiveAppend`) is any piece of the
present leader's log with any commit index this leader may have sent, taken at any time and
any number of times. So messages of one term are lost, delayed, duplicated and
reordered; those of earlier terms never reach the log, because `Raft::step` drops
them. Entries carry only their term.

*The follower.* `store`, `unstable`, `snap`, `committed`, `persisted` and `applied` are those of
`RaftLog`, `Unstable` and `MemStorage`; `records` is the queue of `RawNode`. `Stabilize` is
`ready`, the application's write to storage and `advance_append_async` in one action:
while a Ready is out nothing else may be called. `OnPersistReady(k)` comes whenever it
likes. `answered` is the highest index the follower put in an answer to this leader;
it becomes `acked` only when the Ready that carries the answer is reported persisted,
as the messages of a follower are sent after persistence. Sending is in `Election`; what a
refusal says is checked on the state in which it is built (`HintIndex`).

*Left out.* Crashes (module `RawNode` has them), compaction, `request_snapshot` (`PeerProgress`), and
the configuration inside a snapshot. `maybe_append` is modelled as it is written, with a
`find_conflict` that always returns the first index of the message, and the condition of
`raft_log.rs:254` unchanged.

### How Inflights corresponds to the code

`buffer` is the `Vec` and `allocated` whether it has memory, `start`, `count` and `cap` are the
fields, and `incoming_cap` is the smaller capacity that waits for the buffer
to empty. The actions are the public operations, called in the order and with the
arguments the progress tracker allows: `add` only when not `full`, `free_to` any index.
The abstract queue has the elements in order, and its capacity.

### How Tracker and ConfChange correspond to the code

In `Tracker` `incoming` and `outgoing` are the halves of `conf.voters`, any two sets of peers to
begin with; `matched` and `group` are the two fields of a `Progress` that the quorums read.
Peers that vote or acknowledge without being voters are learners. `electing` stands for the
role of `Raft`: a candidate records votes, a leader, who must have won them,
acknowledgements, and `reset` forgets both. `committed_index`
sorts the voters as the hash set gives them; the operators of `Majorities` return a set,
one result for each order of voters with equal indexes (`Sorted`). The loop over groups
is written as what it finds: the group to compare with (`CheckedGroup`), and the first
voter of another one. What `Raft` does with a new committed index belongs to the log.

In `ConfChange` `conf` is the `Configuration` and `progress` the keys of the progress map. An
operation of `Changer` takes and returns both with the reason of a refusal; the list of
changes that `IncrChangeMap` keeps has the same effect as changing the set at once, as
`contains` looks at the last change of a peer. `ApplyConfChange` is `apply_conf_change` with
any transition and any sequence of up to `MaxChanges` single changes, with the exchanged
arms of `Changer::apply` as they are written: `ConfChangeRemoveNode` makes a learner and
`ConfChangeAddLearnerNode` removes. A change that is refused does nothing. `Restart` builds
the configuration from the `ConfState` of the running node as `Raft::new` does, and `panics` holds
the reason when it does not start.

### How Election corresponds to the code

*Nodes.* `node[s]` has the fields of `Raft` by their names. `recent` stands for
`election_elapsed < election_timeout`; a log is the terms of its entries; `saved` is how much of it
is on disk; `votes`, `matched` and `active` (`recent_active`) are of the tracker. `elected` and `chosen`
are history: who led which term, and what leaders committed. A `scenario` has the settings and
bounds of a behaviour.

*Actions.* One action is one call of `step` or `tick`: the timers (`LeaseExpires`,
`ElectionTimeout`, `Beat`, `CheckQuorum`), `PersistEntries` (`on_persist_entries` of a leader),
`TransferLeader`, `Restart` (`Raft::new` on what is on disk) and one `Receive` for each type of
message. `AtTerm`, `IgnoredInLease` and `OldTerm` are the first half of `step`, which looks at the
term. A handler, the write of its Ready and the sending of its messages are one step: a
crash between them loses messages, which the network does anyway. A leader sends before it
writes, so its last entries can be lost in a crash (`saved`).

*Data.* A leader appends nothing but the empty entry of its term. A message of appends stands for all that
this leader sends with this log and commit index: it is taken in with the leader's log up to any index `k`, as often as
one likes, so that shorter and older appends of a term come after longer ones (`ReceiveAppend`). How the leader finds
where the logs part is in `PeerProgress` and `FollowerLog`. A log that has the entries already stays
as it is, or, with `find_conflict` as it is written, may be cut off behind them (`Taken`): whether it is
depends on where the message begins, which is left open. The code
answers an append that begins below its commit index with that index (`raft.rs:2471`), whatever
is in the append. So it may acknowledge entries that it does not have, to a leader whose log lacks some of what it
committed (`HasCommitted`). For this a node must have learnt a commit index while its
term stayed behind, as it can from a pre-vote, and there must be five servers or more; the run of three
never gets there. The theorems cover it: a leader that gets such an answer can commit nothing any more. A
message stays in a set when it is handled: it may come late, again or never, which is
delay, repetition and loss. A message that can no longer change anything is taken out (`Spent`, `Overtaken`):
`Spent` follows the guards of the handlers, and of several heartbeats the
newest says most. A request for a pre-vote that comes when its sender is no candidate any more can still tell the receiver a
commit index, so it stays until the receiver has committed as far (`raft.rs:1630`).
A scenario can switch this off (`forgets`), and the theorems hold for both.

### How PeerProgress corresponds to the code

`pr` is the `Progress` of the peer by its fields, `ins` the queue that `Inflights` was shown to be.
`log`, `committed` and `compacted` are the leader's, `peer` the peer's log with
`pending_request_snapshot`, `out` the appends in `Raft::msgs`, into which `try_batching` puts later
entries, and `net` the messages under way. An append names the indexes of its entries, as
the leader's log only grows. `MaybeSendAppend`, `SendSnapshot`, `SendEntries` and `Batched` are the functions of
the same names on a record of what they change; `SendAppendAggressively` is the loop around
them, and a loop of more rounds than there are entries counts as one that does not end.
`HandleHeartbeatResponse`, `HandleRejection`, `HandleAcknowledgement`, `HandleSnapshotStatus` and
`HandleUnreachable` are the leader's handlers; `HandleAppendEntries`, `HandleHeartbeat`, `HandleSnapshot` and
`RequestSnapshot` the peer's. Of three voters the third is open (`OtherCommits`). Without
`batch_append` messages leave `out` in the step that makes them. Of `request_snapshot` only
what a correct application asks for is taken: an index below the end of its log would make
`restore` throw away entries that are acknowledged.

### How ReadIndex corresponds to the code

`queue` and `pending` are `read_index_queue` and `pending_read_index`; `current` is
`commit_to_current_term`. `Ask` is `RawNode::read_index`, `ReadIndex` both handlers of `MsgReadIndex`
(a follower forwards), `Beat` the heartbeat with the last context that waits, `ReceiveHeartbeatResp`
the second half of `handle_heartbeat_response`, with `RecvAck`, `Advance` and the answers. `Elect` and
`Commit` are one step each, with a quorum of the term; a deposed leader does not know it until
a message tells it. A server is
elected whoever still leads, also with `LeaseBased` reads, which a leader answers at once: a transfer passes
over leases (`raft.rs:1342`), and the leader that began it goes on answering (`raft.rs:2204`). So
`ReadsAreCurrent` speaks of reads that a quorum confirms (`Safe`); what is wrong with the others
is among the findings (`ReadIndexLease.cfg`).

### How AsyncNode corresponds to the code

`ch` is the channels, of capacity one; `run` the locals of `run()`: `rd`, which of the `SwitchChannel`s
are on, `lead`, and where it is (`select`, `conf` while it hands back a ConfState, `ended`,
`panicked`). `raft` keeps what a `RawNode` hands out (messages, entries, read states), the numbers of
its `ReadyRecord`s, and whether a leader is known; what is in them is in `RawNode`. Each branch of
the `select` is an action, which ends with the top of the loop (`Loop`, `Top`). A caller is in a
`select` too (`at`), and goes on when there is room, an answer, `done` fires or its context ends.
`given` counts how often the application got each output, `made` how many there were. `channels`, `responses` and `leader` stay
as they are written in the run: callers survive them, but no proposal reaches raft.

The loop goes on stepping raft while the application has the Ready, which `RawNode` forbids
(`raw_node.rs:537`). What a step may leave is open (`Steps`, `Made`): an output of any kind, another leader, another
HardState. `advance` then ends the loop (`MayAdvance`, `Unstepped`), unless the defect `advance` is mended, and so does a
configuration change that is refused, unless `conf_change` is. What is always checked is the number
of the Ready that is advanced (`IsLastRecord`).

### How Context corresponds to the code

`handle` has the `Handle`s with their timeouts, `context` the contexts, each with the way to the root of
its chain; a task waits in `done()` at some height of that way (`at`), holding the mutexes below. The mutex of
tokio is a queue (`queue`). A `Context` that is not shared is borrowed by the one future that waits
for it and has no mutex of its own. `Observed` is what wakes the future: while it waits for a
parent's lock nothing looks at the context whose parent that is. A `TaskController` is a handle,
and a task it spawned (`Runs`) ends by itself or by the handle's end.

### What DurableLog says

A sequence of decided entries that only grows, a counter of how many of them the state
machine has taken, one at a time, and the read index, which never goes back and is at
least what has been taken. `RawNode` implements it with `decided` = what is on disk
(including what was compacted there), `taken` = `Len(sm)` and `read` = the last read
index. So no entry, once on disk, is lost or changed, not even in a crash, and a read
index given after a restart is never older than one given before.

## 3. Runs

A run whose constants are plain uses the module itself, the others the `MC` module of the same
name; `pipeline` and `live` use `MCRawNode`. Deadlock is checked only where the system never
stops (`inflights`, `tracker`): elsewhere the bounds on terms, indexes, Readies, disruptions or handles are used up,
or an assertion failed, and nothing is left to do. In `AsyncNode` a stopped node stops for good.

| run | bounds | what it shows |
| --- | --- | --- |
| `pipeline` (`RawNodePipeline.cfg`) | proposals up to index 3, of sizes 1 and 2 against a limit of 2, 5 Readies for each start, 1 read, 1 crash | no assertion fails in the pipeline or in a restart (`NoPanic`); delivery in order and of durable entries only (`InOrder`, `HandedOutIsDurable`); no HardState is lost (`NoLostHardState`) or taken back (`HardStateMonotone`); `persisted` is true (`PersistedIsDurable`); one unapplied configuration change (`OneUnappliedConf`); `uncommitted_size` is the size of the own entries not handed out, exactly (`UncommittedAccounting`); types (`TypeOK`) and the refinement (`ImplementsDurableLog`) |
| `live` (`RawNodeLive.cfg`) | index 2, 1 crash, 10 Readies | under fairness what is on disk is applied in the end (`DurableIsApplied`), and the node becomes leader again and again (`LeaderAgain`) |
| `follower` (`FollowerLog.cfg`) | logs of 3 entries in 2 terms with 2 Readies on their way to disk, or in 3 terms with none; logs of 2 entries in 3 terms with 2 | no assertion fails but the one of the findings (`FollowerNoPanic`); what is committed is what the group committed (`CommittedIsChosen`); `LogMatching`; the hint of a refusal skips no index of agreement (`HintKeepsAgreement`); what is left of the acknowledged entries stays the leader's (`AckedIsLeaders`); a late report counts only over the log it was written with (`ReportedIsWritten`) |
| `election` (`Election.cfg`) | 3 voters; 3 terms and 3 disruptions with plain settings; 2 terms with pre-votes and check-quorum, and 3 disruptions or 4 without a transfer; mended: all of `Election` that the settings use | no assertion fails (`NodesSurvive`); one leader in a term (`ElectionSafety`), with everything committed before (`LeaderCompleteness`); what a node takes for committed is (`CommittedWasChosen`); a lease keeps its node out of votes of later terms (`LeaseStandsFirm`) |
| `group_dies` (`ElectionAsWritten.cfg`) | 3 voters, nothing mended | a violation of `NodesSurvive` |
| `progress` (`PeerProgress.cfg`) | leader's log up to 4 entries, the peer's shorter or with another tail, window 2, 1 entry in a message, 2 messages under way, 1 fault; with and without batching; all four defects mended | no assertion fails on either side and sending ends (`BothSurvive`); what counts as matched is in the peer's log (`MatchedIsReplicated`); appends and the window follow the log (`SentInOrder`) |
| `reads` (`ReadIndex.cfg`) | 3 servers, 2 reads; 3 terms and 2 commits; 2 terms and 1 commit with requests that come twice; 2 terms and 2 commits with leases | a read that a quorum confirms sees what was committed when it was asked for (`ReadsAreCurrent`); the queue and the map of pending reads agree (`QueueIsPending`) |
| `inflights` (`Inflights.cfg`) | capacities 0 to 4 from 2, three values | no panic (`RingNoPanic`), and that it is a queue (`ImplementsQueue`) through growing, shrinking and freeing |
| `tracker` (`Tracker.cfg`) | 4 peers, all configurations, indexes to 2, 2 commit groups or none | the committed index is the highest that more than half of both halves have, or that spans two groups (`CommittedIsReplicated`); the result of an election is what the first votes say (`VoteStandsAsCast`), and stays (`DecidedStaysDecided`) |
| `conf_change` (`ConfChange.cfg`) | 4 peers, 3 voters to begin with, up to 3 single changes in one | the progress map follows the configuration (`ProgressIsConfiguration`), `check_invariants` refuses nothing (`CheckNeverRefuses`), quorums before and after a change overlap (`QuorumsOverlap`), also over restarts that succeed |
| `async_node` (`AsyncNode.cfg`) | 1 caller, 2 outputs, which are messages or entries; seven defects mended | each output is in one place on its way to the application, or was given once, and the loop does not die (`OutputsOnce`); calls return (`CallsReturn`) |
| `context` (`Context.cfg`) | 2 tasks, 3 handles, 3 contexts | the end of a root ends every `done()` below it, and the end of a controller its tasks (`EndOfRootEndsAll`); the end of a context wakes who waits for it, unless another task waits in the same chain (`EndWakesUnlessShared`) |

*Why the bounds are enough.* Every mutation in `PROJECT.json` is caught within them. For the
properties that are proved (section 4) they do not matter.

In `RawNode`, `MaxIndex` bounds proposals; the empty entry of a new leader
and the entry of `boot_strap` come on top. One crash is enough to
restart from every state the bounds allow; that a restart leads to a state like any other is
what the inductive invariant says, which is proved for any number of crashes. Index 3 with
five Readies lets three Readies with
entries be outstanding while a fourth is taken and the second is reported, with
entries of two leaders, a compaction in between and a configuration change waiting;
a payload of size 2 and a change of size 1 against a limit of 2 give proposals that fit
and that do not. In `live` the bound
on Ready numbers must not be what stops the node, so it is larger than any number a
behaviour reaches (no state has `max_number` above 8).

In `FollowerLog` three entries let `persisted` stand two above a conflict, the distance in the
condition of `raft_log.rs:254`. Three terms let the follower have entries of a term above the leader's at the index
where it is probed, two in a row, so that `find_conflict_by_term` goes down more than one step, and let an entry be
written, replaced and written again, the case the comment in `maybe_persist` is about. The latter is also
in `FollowerReports.cfg`, with three records outstanding; it passes. After `panics` is not empty the node does
nothing more, so the states after a heartbeat that kills the node are not followed.

In `Election` three terms are the least in which an entry of the first, replicated by a leader of the third,
must not be committed by counting; two of the three servers can have conflicting logs
by then, one of them after a crash. A disruption is a timer, a crash or a transfer: three are two
campaigns and a crash, four are what a lease takes to run out, at two servers, and two campaigns behind it;
transfers are in the scenarios with three. Messages are not bounded.

In `PeerProgress` a window of two and messages of one entry fill the window, free it and fill it
again within four entries; the other tail is longer than what the leader has in common with the peer. Two
messages under way can pass each other. Three servers are enough for a leader that does not know it is
deposed while a quorum without it commits, and two reads for a queue whose later element is
acknowledged first. One output on its way and one being made are all the pairs the loop of
`AsyncNode` can mix up, as a Ready stands for any number of outputs; one caller is enough as
others can only fill channels of capacity one, which the caller's own earlier calls do. Three
contexts make a chain of three, or a parent with two children.

Capacities
to 4 give a ring that wraps around, grows by more and by less than it holds, and shrinks
below what it holds. Four peers give halves of every size from one to four, even ones and ones
that overlap in
any number of peers; group commit compares two groups, and those of four peers can stand in
any order of their indexes. Three single changes let one peer
be removed, added and removed again in a joint configuration, or three peers change at once.
The configurations themselves are not bounded by a number of steps. Peers and servers are
symmetric where the `MC` modules say so: they differ only in what the variables say of them.

*Fairness.* In `RawNode` (`FairSpec`) the application's loop goes on: a Ready is taken, written,
advanced and its entries applied. `Sync` is fair because a disk finishes writing,
`OnPersistReady(durable_number)` and `AdvanceApply` because the application reports what
is done, `Hup` because the election clock of a node that is not leader runs out in
the end. Only weak fairness is assumed. Proposals, reads, compaction, bootstrap and
crashes are not fair; neither is a particular choice of how many entries a Ready delivers.

In `AsyncNode` the branches of the `select` that receive are strongly fair: `tokio::select!` begins with a
branch at random, so one that is ready again and again is taken. Callers are weakly fair: a task
that can go on is polled. The application is not fair: it may never come for a Ready.

In `Context` a future whose lock is free (`Lock`), or one of whose awaited contexts ended
(`Return`), is woken and polled, and so is a spawned task (`Abort`). Nobody has to cancel, and
timeouts need not pass.

### Configurations beside the runs

These belong to findings below, or to a larger instance; each is run as
`tlc -workers 2 -config X.cfg M` with the module named.

| configuration | module | result |
| --- | --- | --- |
| `RawNodeLightCommit.cfg` | `MCRawNode` | `RestartWithoutLightCommit` is violated |
| `FollowerReports.cfg` | `MCFollowerLog` | passes: three terms and three records; also `TypeOK` and `AppliedInvariant` |
| `FollowerHeartbeat.cfg` | `MCFollowerLog` | `HeartbeatInLog` is violated |
| `FollowerPersisted.cfg` | `MCFollowerLog` | `DeliversOnlyPersisted` is violated |
| `FollowerSnapshot.cfg` | `MCFollowerLog` | `SnapshotIsSaved` is violated |
| `ElectionCut.cfg` | `MCElection` | with `find_conflict` as written and all else mended `LeaderCompleteness` is violated (and so is `NodesSurvive`) |
| `ReadIndexLease.cfg` | `MCReadIndex` | `LeaseReadsAreCurrent` is violated |
| `PeerProgressSnapshot.cfg` | `MCPeerProgress` | with `restore` as written `MatchedIsReplicated` is violated |
| `ConfChangeRestore.cfg` | `ConfChange` | `RestoreEnactsConfState` is violated |
| `ContextCancel.cfg` | `Context` | `CancelEndsDone` is violated |

### Findings

`group_dies`: `campaign` makes its vote requests with `new_message(.., None)` (`raft.rs:1300`), which
unwraps the missing sender (`raft.rs:293`), and so do the replies to votes. So the first
campaign of a node that has a peer panics. With that mended `send` ends in `fatal!` for every message without a term that is no vote (`raft.rs:631`), which is how
replies, appends and heartbeats are built: the message says "term should not be set", and the
test is for one that is not set. The example `five_mem_node` announces "a 5 nodes Raft cluster" (line 77).

The following have a configuration beside the runs.

`RawNodeLightCommit.cfg`: the comment on `LightReady::commit_index` says "It is not required to save
it to stable storage" (`raw_node.rs:253`). If the application believes it, applies the
entries of that LightReady and passes what it applied as `Config::applied` when it starts
again, `Raft::new` calls `commit_apply` with an index above the commit index of the
HardState, and `RaftLog::applied_to` ends in `fatal!` (`raft_log.rs:299`). The counterexample
has one proposal, one LightReady and one crash.

`FollowerHeartbeat.cfg`: `find_conflict` promises zero when the log already has all the
entries (`raft_log.rs:154`), but its `return` stands outside the test and it answers the
index of the first entry. An append of the same leader that comes late therefore cuts
off all entries behind it, which the follower may have acknowledged. The leader
counts them, and its next heartbeat, with commit index `min(matched, committed)`,
lies beyond the log: `commit_to` ends in `fatal!` (`raft_log.rs:275`). Whatever
is truncated is not committed as far as the follower knows, because
`handle_append_entries` answers messages from before the commit index itself.

`ElectionCut.cfg`: the same, seen by the group. The leader counts the entries that were cut off and commits them; the follower,
whose log is short again, votes for a candidate that lacks them, or becomes leader itself: a committed entry is
lost. So all of `Election` that rests on acknowledgements is checked and proved only with `find_conflict` mended.

`ReadIndexLease.cfg`: "`LeaseBased` ensures linearizability of the read only request by relying on the leader lease"
(`read_only.rs:13`). A leader that transfers its leadership answers such reads at once until it hears of
the new term (`raft.rs:2204`), and the campaign of the transferee passes over leases (`raft.rs:1342`);
`in_lease` as it is written (`raft.rs:1344`) keeps no follower of a leader from voting either. By then the new leader
may have committed what the answer misses.

`FollowerPersisted.cfg`: `maybe_append` lowers `persisted` only if it is greater than
`conflict_idx + 1` (`raft_log.rs:254`). When a new leader replaces the last one or two
persisted entries, `persisted` stays, the new entries are taken for persisted, and
they are handed to the application as soon as they are committed, although they are only
in `unstable`. `next_entries_since` promises "committed and persisted entries"
(`raft_log.rs:411`). A leader's duplicate append has the same effect in the same term.

`FollowerSnapshot.cfg`: `ready` takes the metadata out of the copy of the snapshot that it puts
into the Ready (`raw_node.rs:584`). For the examples such a snapshot is empty, they do not
store it, and the log has a gap once the Ready is advanced. The other runs model an
application that reads the snapshot with `RawNode::snap` before it advances.

`ConfChangeRestore.cfg`: `Changer::apply` calls `make_learner` for `ConfChangeRemoveNode` and `remove` for
`ConfChangeAddLearnerNode` (`confchange/changer.rs:176`). A node that is removed stays, as a
learner, and a node can never be added as one. The invariants of the tracker
hold all the same (run `conf_change`), as the two operations are sound by themselves. But a
configuration with a learner cannot be restored: `restore` (`confchange/restore.rs:72`) plays
`AddLearnerNode` for it and `Raft::new` ends in `fatal!("invalid restore")`. The same holds for
joint configurations that lose a voter.

`PeerProgressSnapshot.cfg`: `request_snapshot` promises "The snapshot's index must be greater or equal to the
request_index" (`raw_node.rs:817`), but `restore` of a peer that waits for one takes any snapshot
(`raft.rs:2585`, `raft.rs:2625`), also an older one that was sent earlier and comes late. Its log
is then shorter than what it acknowledged and the leader counts.

`ContextCancel.cfg`: `Handle::cancel` says "ensuring that done() returns immediately"
(`context.rs:197` of tokio-context). The future of `done()` first waits for the lock of the parent,
and holds it while it waits (`context.rs:341`). Of two children of one parent that both wait, the second
does not notice its own cancellation until the first is done. `EndWakesUnlessShared` is what
remains, and `EndOfRootEndsAll` shows that the end of the root always gets through.

Seen on the way, modelled as written unless a defect of that name is taken for mended:

* `to_conf_state` (`tracker/mod.rs:145`) does not give out `auto_leave`, although `restore` reads it from
  the `ConfState`, so a node that restarts in a joint configuration that was to be left
  automatically stays in it until the application asks.
* A pre-election calls `become_candidate` (`raft.rs:1260`): the term and vote change, which pre-votes
  are there to avoid. `in_lease` asks for a node without a leader (`raft.rs:1344`), so followers
  with one join every vote.
* `update_state` (`tracker/progres.rs:229`) has the arms of `Probe` and `Replicate` exchanged: a probe fills the window past its
  end, and sending to a replicating peer does not end.
* `try_batching` batches entries that do not follow the message and sends apart those that do
  (`raft.rs:741`). And `is_continuous_ents` (`util.rs:75`) takes any entries for a
  continuation of an append without entries, wherever that one stands.
* A late rejection while probing can lower `next_idx` to `matched` or below (`maybe_decr_to` has no
  limit there); entries are then sent again, and nothing worse happens.
* A peer that asks for a snapshot at an index that is not committed yet gets none, and refuses appends
  meanwhile, until another voter lets the index be committed.
* A request for a read that is repeated with the same context can be answered by the
  acknowledgements of its first round, and then misses what was committed in between. Contexts
  have to be unique, as `read_index` says (`ReadsAreCurrent` is stated for those).
* `AsyncNode`: proposals go to the channel of received messages, where they are dropped, and are answered with `Ok`;
  peers' messages go to the channel of proposals, where `from` is overwritten with the node's own
  id, and which opens only at the first change of leader that finds a Ready. `status` is never
  answered. The ConfState of one caller's change may go to another caller. `start_node` uses
  `node` after it was moved, so the crate does not compile at this commit.
* `MemStorageCore::snapshot` unwraps metadata that a default snapshot does not have (`storage.rs:260`).
* `single_mem_node` applies the committed entries of a Ready before it writes the HardState.
* `stringify_conf_change` writes `l` for what the parser reads as `r`, and the other way round
  (`confchange.rs:149` of raftpb).

## 4. Proofs

### RawNode

Everything is proved for all values of the constants that satisfy `NodeAssumption`
(types only) and under `SaveLightCommit`, the discipline of the application that the
finding (`RawNodeLightCommit.cfg`) shows to be necessary. The theorems are in `RawNodeProofs`:

| theorem | statement |
| --- | --- |
| `Invariance` | `Spec => []IInv` |
| `TypesHold` | `Spec => []TypeOK` |
| `PanicFreedom` | `Spec => []NoPanic` |
| `OrderedDelivery` | `Spec => []InOrder` |
| `DurableDelivery` | `Spec => []HandedOutIsDurable` |
| `WatermarkOrder` | `Spec => []LogWatermarks` |
| `PersistedSafety` | `Spec => []PersistedIsDurable` |
| `HardStateSaved` | `Spec => []NoLostHardState` |
| `HardStateProgress` | `Spec => HardStateMonotone` |
| `LogInvariance` | `Spec => []LogInv` |
| `OneConfAtATime` | `Spec => []OneUnappliedConf` |
| `SizesInvariance` | `Spec => []SizesOK` |
| `AccountingHolds` | `Spec => []UncommittedAccounting` |
| `DurableLogRefinement` | `Spec => ImplementsDurableLog` |

*The argument.* With one voter nothing is ever truncated, so there are three copies of
one log, each a part of the next: what is on `disk`, what is in `store`, and what the node
sees with `unstable` on top (`DiskBehind`, `ReadyShape`). All the indexes are positions in it,
in a fixed order (`Watermarks`):

    applied <= Len(sm) <= commit_since_index <= persisted <= disk <= store <= last
                                             <= committed <= last

None of the properties is inductive by itself. That `persisted` is on disk rests on the
records: the entry in a record is past `persisted`, the entries of records grow with
their numbers, and the record of a Ready that is on disk has its entry on disk
(`RecordsOK`). That `stable_entries` finds what it expects rests on the last record
belonging to the Ready that is out (`ReadyShape`). That a restart does not panic rests on the
HardState on disk covering what is applied (`Watermarks`) and pointing into the log on disk
(`DiskBehind`), which in turn rests on the chain disk, storage, HardState on its way to
storage (`WrittenHs`), HardState of the node, each not older than the one before
(`HardStatesOK`). That an election finds its log persisted rests on followers having
nothing unpersisted but the configuration change of `boot_strap`, which keeps them
from campaigning (`FollowerLog`). There is one lemma for each action.

The runs check the properties these theorems state, except `IInv`, `LogInv`, `SizesOK` and
`LogWatermarks`, which are only proved: they follow for every instance.

*Entries and reads.* `LogInv` is a second invariant, proved on top of `IInv`. Its three parts are
what the other properties of entries and reads rest on. That only one configuration change is
not applied (`OneUnappliedConf`) follows from what `propose` compares: a leader knows an index
that no such change lies behind, also when it won its election with changes of an earlier
term in its log (`ConfOK`). That a read covers what was committed follows from the leader having
committed in its term before it answers, or else knowing nothing newer; and that this is so
when a node starts again, from the terms of what a HardState commits (`CommitTermsOK`). The
obvious form of this, that no entry on disk has a later term than the HardState, is
false: entries are written before the HardState of their term, and a crash may come between.
That no read goes back follows from `ReadOK`. With `LogInv` every action is a step of `DurableLog`
or a stutter: `Sync` decides, `ApplyEntry` takes, `ReadIndex` reads, and everything else,
`CrashRestart` included, stutters.

*Sizes.* `uncommitted_size` is a sum over a part of the log, and the sum is a fold, of which the
library has no theorem that these provers can use. But a fold over a finite set of indexes is a function on the
subsets of that set (`FoldExists`, shown by a least subset without one), and what is needed of sums are
three laws: one more element adds its size (`SumStep`), a sum is cut in two (`SumCut`), and it
does not depend on how the entries are numbered (`SumRenumbered`). `SizesOK` is proved on top of
`IInv`: while a node leads, its size is that of the entries above what it has handed out or took
over, whichever is higher. Proposals add to the upper end; handing out committed entries removes from the lower end,
entries taken over excepted, as `maybe_reduce_uncommitted_size` skips those. So the saturating
subtraction in the code never saturates, and the size does not drift.

*Only model-checked*: liveness (`DurableIsApplied`, `LeaderAgain`), which is out of the
prover's reach.

### FollowerLog

All theorems assume `ReadySnapshot = FALSE`: the application stores the snapshot it gets from
`RawNode::snap`. For one that stores the copy in the Ready the properties are
false (`FollowerSnapshot.cfg`), so the assumption is needed. They hold for logs, terms and
numbers of Readies of any size, with heartbeats and without.

| theorem | statement, given `ReadySnapshot = FALSE` |
| --- | --- |
| `NodeInvariance`, `FollowerInvariance` | `Spec => []NodeInv`, `Spec => []IInv` |
| `FollowerNeverPanics` | `Spec => []FollowerNoPanic` |
| `FollowerStateMachineSafety` | `Spec => []CommittedIsChosen` |
| `AcknowledgedIsLeaders` | `Spec => []AckedIsLeaders` |
| `FollowerMatchesLeader` | `Spec => []LogMatching` |
| `FollowerAppliesInOrder` | `Spec => []AppliedInvariant` |
| `RefusalKeepsAgreement` | `Spec => []HintKeepsAgreement` |
| `ReportsAreWritten` | `Spec => ReportedIsWritten` |

*The argument.* The log of the follower need not be the beginning of the present leader's log: it
has a tail of some earlier leader, and the late `find_conflict` cuts it anywhere. What holds is
that it is always the beginning of one log of the group (`MirrorsOne`), and that the logs of the
group match one another (`GroupInv`), which follows from how a leader begins. An append that is
taken matches at one index, so by `LogsMatch` everything before it is the present
leader's, and afterwards all of the log is. Hence what is committed is the
leader's, and stays so for the next one, whose log starts with everything committed.
A conflict is never at or below `committed`, as `handle_append_entries` answers those messages itself,
and a heartbeat that would commit beyond the log ends the node, so every other commit
index lies in the log.

For the late reports `Images` says the same of each image of storage that waits for its report:
it is the beginning of one log of the group, not necessarily of the present one. The report
compares one term. If that is still the same, `LogsMatch` makes all entries before it the same,
which is why truncating and writing again in between does no harm. Between two snapshots the images have one
start, and without entries they are equal (`ImagesFollow`), so a record without a
snapshot reports over a storage that starts where its own did.

`find_conflict_by_term` is a recursive function. Nothing can be said of it by induction here; but
for given arguments one can write down what it computes, the greatest index whose term is
not above the leader's, and show that a least place where the two differ cannot exist
(`HintIsLast`).

*Only model-checked*: the bounds in `TypeOK`. `HeartbeatInLog`, `DeliversOnlyPersisted` and
`SnapshotIsSaved` are false (see the findings).

### Election

The theorems assume nothing beyond `ElectionAssumption` (two servers or more): any number of servers,
terms, entries, messages and crashes, settings with pre-votes, leases and transfers or
without, and any subset of the five defects mended. Where a statement is false without one, it names it;
`Kept` says that `find_conflict` is mended:

| theorem | statement |
| --- | --- |
| `InductiveInvariant` | `Spec => []IInv` |
| `TypesHold` | `Spec => []TypeOK` |
| `ElectionSafetyHolds` | `Spec => []ElectionSafety` |
| `LeaderCompletenessHolds` | `Spec => [](Kept => LeaderCompleteness)` |
| `CommittedWasChosenHolds` | `Spec => [](Kept => CommittedWasChosen)` |
| `CommitsAgreeHolds` | `Spec => [](Kept => CommitsAgree)`: two servers have the same entry wherever both take it for committed |
| `SurvivalHolds` | `Spec => [](Kept /\ Sendable => NodesSurvive)`; `Sendable`: `new_message` and `send_term` are mended |
| `LeaseStandsFirmHolds` | `Spec => LeaseStandsFirm`, if `in_lease` is mended wherever `check_quorum` is set |

*The argument.* Votes: who granted a vote, or has sent one that is still on its way, has voted for that
candidate in that term or will never vote in it again (`VotesOK`), through restarts too. So each
leader has a quorum that can elect nobody else (`ElectedOK`), and two quorums meet
(`WinnersMeet`). Logs: only the leader of a term makes entries of it, one in
each term, so logs with an entry of the same term agree up to it (`LogsOK`).
This much holds of the code as it is.
Commits, where `find_conflict` is mended: who acknowledged the log of a leader has an entry of its term on disk,
and grants no vote to a candidate of a later term without one (`AcksOK`, `KeepsUp`), or that leader can commit
nothing any more (`Beaten`). The entry may be
anywhere in a later log by then, which is why `KeepsUp` speaks of terms and not of logs, and
`SafeOK` makes the connection: a log with an entry of a later term has the log of a leader,
unless that leader is beaten, which means that a quorum left its term before acknowledging. When a leader commits, its
acknowledgements are a quorum, so the second case is impossible and what was chosen is in every
later log (`ChosenOK`). Commit indexes travel in appends, heartbeats and, as this code does
it, in requests and refusals of votes; `CommitsOK` says for each of them where what it says was chosen.
Two servers that take the same index for committed have it from two of the logs that were chosen, and of those one
is the beginning of the other (`CommitsAgree`).

*Acknowledging what one does not have.* A node answers an append that begins below its commit index with that
index. If the leader's log lacks some of what the node committed, that is an acknowledgement of entries the
node has not got. One would like to exclude it: what a node committed was committed in its term
or an earlier one. But with pre-votes that is false, as a request for one tells a commit
index to a node whose term stays behind. It does no harm: what the leader lacks was committed in a later term than its own,
as it has everything of earlier ones, so a quorum voted for that later leader and had left this
leader's term without its log. Hence the second case of `AcksOK`, and `Reached`, which says what an acknowledged index
means while its sender stays in the term: it has the leader's log up to it, or has itself
committed that far.

*Survival.* `Reached` is also what keeps heartbeats within the logs: a leader commits for a
peer at most what that peer acknowledged, so the peer has that many entries, from this
leader or committed before, and while it stays in the term its log does not lose them if `find_conflict` is mended. A restart finds what its
HardState commits because a leader counts of its own log only what is on disk
(`Shape`).

*Leases.* A server that heard from its leader enters a later term only by a message of that term. Requests for
votes and pre-votes are dropped by `IgnoredInLease`, for which `in_lease` must look at the right case, unless they
are a transfer's; a later term in any other message makes it follow or wait, and not vote.

### PeerProgress

The theorems hold for logs, windows and batches of any size, any number of faults and messages
under way, and messages that arrive in any order, more than once or never. The parameters `Repairs` of the
model are the sets of mended defects. Logs stay in step without `update_state`; for the window
and the assertions all four are needed:

| theorem | statement |
| --- | --- |
| `LogsInvariance` | `Spec => []LogsOK`, if `find_conflict`, `is_continuous` and `restore` are mended |
| `ReplicationHolds` | `Spec => []MatchedIsReplicated`, under the same condition |
| `PeerInvariance` | `Spec => []PeerInv`, if all four `Defects` are mended |
| `SurvivalHolds` | `Spec => []BothSurvive`, under the same condition |
| `OrderHolds` | `Spec => []SentInOrder`, under the same condition |

The run `progress` mends all four. Without one of them the statements are false, as the runs and the
mutations of the definitions show. The other assumption (`PeerAssumption`) is about the logs at the
start: the peer's log matches that of the leader in the sense of raft (`LogsMatch`), and has nothing
of the leader's own term. That is what `Election` and `FollowerLog` prove of a new leader.

*The argument.* The peer may have a tail of another term, and what it sends describes a log that it has meanwhile cut or
replaced. `Matching` says what stays true: where both logs have the same entry they agree on everything before it, and
the peer has nothing of the leader's term that the leader has not. Hence a match at one index is a
match of the prefix (`TermsAgree`), appends and snapshots change the peer's log only above what agrees
(`AppendTaken`, `SnapshotStep`), and the agreement of the two logs (`Agree`)
never shrinks. This makes all messages true for ever (`MessageOK`): an append is a segment of the leader's
log, a heartbeat's commit index and an accepted index lie in what agrees. Late and duplicated messages therefore need
no special treatment, and `matched`, which only takes over accepted indexes, is replicated.
One step could lose entries, a snapshot that is older than the log. A peer that asked for a snapshot takes no
appends until it gets one, so its log still ends where it was when it asked (`PeerOK`), and what
it gets is at least that new if `restore` is mended.

The window (`WindowOK`) is increasing and lies between `matched` and `next_idx` while the leader replicates,
and is empty otherwise. That is why `free_to` releases a prefix of it (`FreeToOK`), which is what the module's
definition by a filter and the code's loop have in common, and why neither `add` to a full window
nor `optimistic_update` can fail. `send_append_aggressively` is a loop; the module folds one round
(`SendMore`) over as many rounds as the log has entries. Each round that sends raises `next_idx` or pauses the
progress (`Round`), so after that many rounds nothing is left to send (`AggressivelyOK`): the loop
ends, which is part of `BothSurvive`.

### ReadIndex

`ReadIndexProofs` proves for any number of servers, reads, commits and terms:

| theorem | statement |
| --- | --- |
| `InductiveInvariant` | `Spec => []IInv` |
| `ReadsAreCurrentHolds` | `Spec => []ReadsAreCurrent`: of the reads that a quorum confirms (`Safe`) |
| `QueueIsPendingHolds` | `Spec => []QueueIsPending` |

*The argument.* A leader that committed in its term and lacks something that was committed since has lost a
quorum to later terms (`CurrentOK`), and it is the same quorum for every read it takes from then on.
Its members acknowledged none of them, nor is such an acknowledgement on its way
(`Silent`). The queue matters: `advance` answers all reads before the acknowledged one, so no
member may have acknowledged a later one either (`LateOK`). Any acknowledgement that answers the
read has a quorum, which meets the one that is silent. `FreshOK` says what "asked" means: nobody works on a
read that was not asked for, if no context is used twice.

### Tracker

| theorem | statement |
| --- | --- |
| `TrackerTypes` | `Spec => []TypeOK` |
| `CommittedIsReplicatedHolds` | `Spec => []CommittedIsReplicated` |
| `VoteStandsAsCastHolds` | `Spec => []VoteStandsAsCast` |
| `DecidedStays` | `Spec => DecidedStaysDecided` |

These hold for any finite set of peers, any indexes below `u64::MAX` and any commit groups. `TypeOK` is the invariant; what has to be
proved is about the operators. The code sorts the indexes and takes the one in the middle; the
property counts who has which. The two are connected by the number of voters that stand before a
place in the order (`FirstOnes`, `QuorumIndex`). That the voters can be put in order at all
(`SortedExists`) has no induction to show it, but a least set of voters without an order leads to
a contradiction. With groups, where the code stops is compared with the greatest index that spans two of them
(`OtherGroup`, `GroupsSpanned`). A vote that is decided stays so because an answer that is recorded is never
replaced and the missing ones can no longer turn it.

### ConfChange

| theorem | statement |
| --- | --- |
| `InductiveInvariant` | `Spec => []IInv` |
| `ProgressIsConfigurationHolds` | `Spec => []ProgressIsConfiguration` |
| `CheckNeverRefusesHolds` | `Spec => []CheckNeverRefuses` |
| `QuorumsOverlapHold` | `Spec => QuorumsOverlap` |

These hold for any finite set of peers and sequences of changes of any length. The invariant (`IInv` in `ConfChangeProofs`) is that
configuration and progress map satisfy all that `check_invariants` asks, that there is a voter, and that only joint
configurations are left by themselves. It is kept by each single change, and a sequence of changes is the
iteration of one: the proofs name the configurations in between (`AreSteps`) and find the first
one that fails. Quorums overlap because a simple change moves one voter at most (`OneVoterApart`), a joint
configuration shares a half with each of its neighbours, and a restart gives the same voters
(`MovesOverlap`).

### Inflights

`InflightsProofs` proves for all capacities and values, from `Init` and each operation:

| theorem | statement |
| --- | --- |
| `InflightsInvariance` | `Spec => []RingLayout` |
| `InflightsPanicFreedom` | `Spec => []RingNoPanic` |
| `InflightsRefinement` | `Spec => ImplementsQueue` |

`RingLayout` is inductive: `count` and the length of the `Vec` do not exceed the capacity, the
elements in use lie inside the `Vec`, which has its full length when they wrap around,
and a smaller capacity waits only while something is queued. From it follows that the place of the next element is in the
`Vec` or at its end, which is what the index expressions of `add` need. For the refinement
each operation is compared with the queue element by element (`Elements`).

### AsyncNode

| theorem | statement |
| --- | --- |
| `OutputsOnceHolds` | `Async!Spec => []Async!OutputsOnce`, if all of `LoopDefects` are mended and `MaxMade` is not 0 |

`LoopDefects` are `ready_switch`, `overwrite`, `accept_ready`, `light_ready`, `advance` and `conf_change`: with any of them as
written the statement is false. Nothing is asked of the other four, so it holds for callers with and without working
channels, and for any number of callers and outputs. `MaxMade` is a bound of the model; `boot_strap` makes
an output before the loop begins, so it is at least 1.

*The argument.* `AsyncInv` says where the loop, the channels and the application are together (`RoundOK`): at most one
Ready is on its way, in `rd`, in its channel or being worked on, the next is taken only after it was advanced, and
raft remembers the record of exactly this one (`LoopOK`). So the assertion of `advance` on its number does not fail; the others are what the defect `advance` is about. Each output
is in raft, in `rd` or in the channel, or was given once (`OnceOK`), and every branch of the `select` either leaves them alone or
moves all outputs of one place to the next. The theorem is at the end of `RawNodeProofs`, which has
`AsyncNode` as the instance `Async`.

### Without proofs

All safety and action properties that the runs check are proved, and `Context` has none: its properties are about what happens in
the end. Liveness is out of the prover's reach and only model-checked: `DurableIsApplied`, `LeaderAgain`,
`CallsReturn`, `EndOfRootEndsAll` and `EndWakesUnlessShared`.

## 5. Plan

The modules were written from the inside out: the Ready pipeline of one node (`RawNode`), then the
parts beside it (`Inflights`, `Tracker`, `ConfChange`), then those with several nodes (`FollowerLog`, `Election`,
`PeerProgress`, `ReadIndex`), then what runs around them (`AsyncNode`, `Context`); each was checked first, then its
invariant strengthened until it was inductive. All components with logic of their own are modelled, and
what can be proved of the properties is. What would extend the project:

1. Crashes in `FollowerLog`, while Readies of a log that was truncated are on their way to the disk.
2. Learners and changes of the configuration in `Election`, with what `ConfChange` proves of
   overlapping quorums.

## 6. Not modelled

* Plain data and its handling: the messages generated from protobuf and their accessors
  (raftpb), the text form of configuration changes, `Config` and its validation, status, error
  texts, formatting and logging, the binary. They keep no state that a step could leave
  wrong.
* `five_mem_node`: a demonstration in threads, whose network is `Election`'s and whose application
  is `RawNode`'s; it cannot run (`group_dies`).
* In `Raft`: priorities, and learners in elections (nodes are alike, and voters); `ping`; what
  `post_conf_change` does in a larger group after the quorum shrank (a single voter's is in `RawNode`);
  the step that leaves a joint configuration by itself (`auto_leave`); `committed_index` and
  `update_committed` of a `Progress`, a field that nothing reads.
* `MemStorage::snapshot` beyond its index, and the asynchronous fetching of log entries
  (`on_entries_fetched`), which the in-memory storage uses only in tests.
* `FollowerLog` has no crashes: `RawNode` has them for a log that is never truncated, `Election` for
  logs that are written with each step. That Readies of a truncated log are on their way to disk in a crash is not covered.
