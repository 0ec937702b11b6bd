# Aegis-log: formal models

TLA+ models of Aegis-log, a replicated log in Go: a Raft cluster orders client
payloads, every node appends what is committed to a write-ahead log on disk, and a
coordinator tracks consumer groups and their offsets. `PROJECT.json` lists the
runs, the mutants, the source lines of every definition, the findings and the
theorems; this file explains them.

    tlc -config RaftElection.cfg MCRaft        # RaftElection, -Terms, -Stale, -Snapshot, -Applier, SnapshotSkipsWal
    tlc -config RaftProgress.cfg RaftProgress  # liveness of the leader
    tlc -config PreVoteDisrupts.cfg PreVoteTimers
    tlc -config CrashLostWrite.cfg RaftCrash
    tlc -config Groups.cfg MCGroups            # any consumer group run
    tlc -config Wal.cfg MCWal
    tlapm RaftConsensusProofs.tla              # the proofs, module by module (section 4)

## 1. The system

| part | source | state | operations | modelled by |
|---|---|---|---|---|
| Raft election | `src/raft/consensus.go` | `currentTerm`, `votedFor`, `role`, `leaderID`, the counters of a running pre-vote round or election | election timer, `runPreVote`, `startElection`, `becomeLeader`, `HandleRequestVote` | `RaftElection` |
| Raft replication | `src/raft/consensus.go` | `log` with its snapshot anchor, `commitIndex`, `lastApplied`, `nextIndex`, `matchIndex`, `commitNotifyCh` | `Propose`, heartbeats, reply goroutines, `HandleAppendEntries`, `HandleInstallSnapshot`, `TakeSnapshot`, `runApplierLoop` | `RaftReplication` |
| peer transport | `src/raft/tcp_transport.go` | one TCP connection an RPC | send, answer, time out | `RaftNode` (`Exchange`, `LoseRpc`) |
| node server | `src/cmd/node/main.go` | WAL, coordinator, Raft node; chaos switches | `OnCommit`, `OnRestoreSnapshot`, produce, consume, snapshot trigger, partition, kill, stop | the parts the others see: `RaftReplication` (`Apply`, `TakeSnapshot`), `RaftCrash` (`Restart`), `WalStore` (`Close`, which the kill switch ends in) |
| consumer groups | `src/consumer/group_coordinator.go` | groups, members with heartbeats and shares, offsets, `offsets.checkpoint` | join, leave, heartbeat, commit, fetch, eviction tick, recovery | `ConsumerGroups` |
| WAL | `src/storage/wal_segment.go`, `src/storage/mmap_windows.go` | segment files and their mappings, write positions, closed and active segments, `nextOffset` | open and recover, append, roll, read, sync, close | `WalStore` |
| offset index | `src/storage/index.go` | (relative offset, position) pairs in a mapped file, `entryCount` | open, append, lookup, close | `SparseIndex` |
| wire frames | `src/network/binary_protocol.go` | none | encode, decode | `Frames` |
| TLS, dashboard, benchmarks | `src/network/tls_cert.go`, `src/dashboard`, `src/benchmark` | - | - | no: no protocol state |

How they interact. A client sends a payload to a node; the leader's `Propose`
appends it to the Raft log and polls until it is committed. Broadcasts start one
goroutine per peer; every goroutine owns a connection, waits for the reply without
the lock, and takes `rn.mu` again to use it. A commit puts a wake-up in
`commitNotifyCh`; the applier goroutine hands the entries to `OnCommit`, which
appends to the WAL and ignores errors. At start, the number of frames in the WAL
becomes `InitialCommitIndex`. The coordinator has its own file and lock and does
not meet Raft.

What is hard: everything the Raft goroutines do between a request and the use of
its reply; RPCs that overtake each other; the critical section `runPreVote` leaves
and enters again; the commit rule over terms; snapshots against logs of any shape;
the wake-up channel that drops sends; timers that race heartbeats; restarts that keep
only the WAL; for the groups, interrupted and failed writes and evictions; and for the
WAL, kills between any two writes to a mapping, pages that survive a power failure in
any order, failed rolls and reopened indexes. `PROJECT.json` lists these hazards at their
lines, with the properties that would catch them.

What makes each part correct:

- election: one leader a term; a vote is binding.
- replication: logs match, committed prefixes agree, commits are final, acknowledged
  writes survive, the leader's idea of a follower is never optimistic.
- progress: a leader with a bare quorum commits what it appends and brings followers up to date.
- applier: no lost wake-up, the same stream in every WAL.
- the cluster as clients see it: one stream that only grows (`ReplicatedLog`).
- WAL: every record is read at its offset; only a power failure takes records, and none
  that was flushed (`AppendOnlyLog`).
- groups: shares disjoint and even, offsets survive, silent members go.

## 2. The modules

| module | content |
|---|---|
| `RaftNode` | constants, state, log and anchor helpers, RPC records and the bag of RPCs in flight, `stepDown`, initial state, type invariant |
| `RaftElection` | the election loop, pre-vote, votes |
| `RaftReplication` | proposals, AppendEntries, snapshots, commit, applier |
| `RaftConsensus` | the cluster: `Next`, the safety properties |
| `RaftCrash` | the cluster with nodes that crash and start again, and the RPCs they leave behind |
| `ReplicatedLog` | what the cluster promises; `RaftConsensus!IsReplicatedLog` is the refinement |
| `RaftProgress` | fairness of the links of one leader, and what follows from it |
| `PreVoteTimers` | the election part of the cluster with `electionResetEvent` as a clock, and a node that is cut off |
| `MCRaft` | symmetry and the two views for TLC |
| `RaftHistory` | the inductive invariant of the log: a history that explains the state |
| `RaftConsensusProofs` | proofs: types, votes, elections, wake-ups |
| `RaftHistoryProofs`, `RaftStepProofs`, `RaftReplicationProofs` | lemmas: what a history implies, and that every step continues one |
| `RaftSafetyProofs` | proofs: the safety of the log, the WALs, the refinement of `ReplicatedLog` |
| `Selection`, `SelectionProofs` | the elements of a sequence a loop does not skip, by rank; lemmas on sets of numbers |
| `ConsumerGroups`, `MCGroups` | the coordinator, its properties, the lists TLC is given |
| `ConsumerGroupsProofs` | proofs: types, offsets, shares, owners |
| `Frames` | `EncodeFrame` and `DecodeFrame` over the cells of a file |
| `SparseIndex` | the offset index: entries, capacity, binary search |
| `WalStore`, `MCWal` | segments, recovery, append and roll, kills and power failures; payload sizes for TLC |
| `AppendOnlyLog` | what a WAL promises; `WalStore!IsALog` is the refinement |
| `WalStoreProofs` | proofs: types, index, readers, the refinement of `AppendOnlyLog` |

**Steps.** A step is one critical section under `rn.mu` (or `c.mu`). A broadcast is
part of the step that calls it. What a goroutine closure remembers (its term, the
index of its snapshot, its election) travels in the reply record, as `sent` or
`election`. A set `reached` stands for the peers whose RPC leaves the node at all; the
others' fail at once.

**Messages.** `msgs` is a bag: nothing orders two RPCs to the same peer, because each has
its own connection. Nothing is duplicated, because the code does not retry an RPC. A
request can be lost before it is handled, and its reply after. When a node crashes (`RaftCrash`),
the connections to it end, and so do its goroutines that wait for replies; the requests it has sent go on:
they move to a second bag, `orphans`, whose requests the peers handle with the same actions.

**Proposals.** A waiting `Propose` is a record in `proposals`. Its poll may find the entry committed
(`ProposeReturns`), and it may end with an error at any moment (`ProposeFails`): after two seconds, when
its node is no longer leader in its term, or when the node stops. Either way the entry stays in the log.
The write counts as acknowledged (`acked`) only after `ProposeReturns`.

**Clocks** are nondeterministic, except in `PreVoteTimers`: a timer fires at any moment, and
a comparison with `electionResetEvent` comes out either way. Only one consequence of durations is used: a
pre-vote RPC lives 200 ms, less than the 350 ms (`main.go:227`) between two rounds, so
`ElectionTimeout` clears the RPCs of the node's previous round (`OwnPreVotes`).

**Log.** `log[n]` is what follows `rn.log[0]`; the anchor is `snapIndex`, `snapTerm`.
An entry's `Index` field is its position. Snapshot data is opaque and left out, as
the only listener logs a line.

**Two ways to model pre-vote.** The nodes in `Poller` run pre-vote RPC by RPC. The others
take `ElectionTimeoutUnopposed`, an election right after the timeout: a superset of what
pre-vote permits. A pre-vote round changes another node in nothing, and its own node
only by a step down that a vote reply could cause as well. So the runs about the log, which
leave `Poller` empty, still cover every election the code can hold.

**Groups.** `stale` abstracts time: a member whose last heartbeat is older than the session timeout.
`disk` and `tail` are `offsets.checkpoint`: the last readable terminated line of every key, and what
follows the last newline. `broken` is the error that `bufio.Writer` keeps. The file system is taken to
keep what `write` took, also when `Sync` returned an error: losing unsynced pages in a power failure is
not modelled. `Generation` is never read and left out. Every call that joins or leaves brings its own
list of available partitions, one of `Lists`; a list names no partition twice (with a duplicate in it,
two members own that partition, as its caller has asked).

**Timers.** `PreVoteTimers` reuses the actions of the election modules and adds the age of
every `electionResetEvent` and the set of cut-off nodes. The links of such a node fail both ways, as
`Disconnect` of the mock network in `tests/raft_test.go:32` has it; the chaos switch of the node server
(`main.go:588`) is weaker, since it fails only the RPCs its own node sends, so a follower behind it still gets
heartbeats and its timer stays young. A tick is the 200 ms a pre-vote
round may last, `ElectionMin` is two of them (350 ms rounded up). The network is at its
best: every heartbeat arrives within a tick, every RPC ends in the tick it began in.

**WAL.** A file is a function from positions to cells. The 17 bytes of a frame header are two cells, the
magic byte and the fields behind it; a payload is as many cells as its size; a checksum stands for the
payload it was computed of. A cell never written is zero, and zeros are well-formed fields (length 0,
offset 0, the checksum of nothing), as in the code. `mem` is what is mapped and outlives the process,
`disk` what outlives the power. The kill switch of the node server is a `Close` (`NodeServer.Stop` runs
before `os.Exit`); `Killed` is a process that the operating system ends, as `stop-cluster.ps1` does. A
kill inside `Append` leaves the first word of an index entry, the entry, and then, of the frame:
nothing, the whole header, or the header and any number of cells of the payload. Inside the header, a
cut behind a length that is not zero leaves a frame whose checksum is missing: it does not verify, no
more than the one of a header without its payload does. The other cuts inside a header are the first of
the faults below. A power failure keeps any set of the pages that were not flushed. `records` is a
history variable: the payloads whose frames are whole. The index runs its binary search for real, zeros
behind the entries included, because `entryCount` of a reopened file is its capacity: `Close` truncates
only after the file is closed (`index.go:138`), and the failure is ignored.

`Faults` names three things a run may leave out. Each of them is possible in the code, and with each of
them TLC finds `ReadersSeeAll` violated within seconds, so `Wal` shows that the WAL is right
apart from these three:

- *torn header* (`binary_protocol.go:99`): a kill after the first byte of a frame, or later in a header
  whose length is zero or not yet written. The zeros, with whatever there is of the offset, make it a
  whole frame of no payload; recovery counts it, and the next append gets an offset that is in use.
- *half-made segment* (`wal_segment.go:357`): `NewSegment` makes its file and then fails. The next
  append goes to an older segment; after a restart the empty file is the newest segment and
  hides what was appended.
- *append after outage* (`mmap_windows.go:77`): a power failure has kept a page and lost the one before
  it. Appends fill the hole, and the frames of before the failure follow them.

## 3. Runs

Every bound is a constant, named in the guards, so a run explores all behaviours within
its bounds. `CHECK_DEADLOCK FALSE` in the Raft runs: with every bound reached and no
leader a node may rightly have nothing to do. The group runs check deadlock.

| run | bounds | checks |
|---|---|---|
| `RaftElection` | 3 nodes, all polling; 2 terms, no entries, 2 RPCs | `ElectionSafety`, `VotesAreBinding` |
| `RaftTerms` | 4 terms, 2 indexes | `AckedWritesSurvive`, `CommittedPrefixesAgree`, `LogMatching` |
| `RaftStale` | 2 terms, 1 entry, 1 snapshot, 2 RPCs | `MatchIndexSound`, `CommitsAreFinal` |
| `RaftSnapshot` | 2 terms, 2 entries, snapshots at both | `TypeOK`, `PositionsOrdered`, `CommittedPrefixesAgree` |
| `RaftApplier` | 2 terms, 2 entries of 2 payloads, 2 appliers, channel of 1 | `WalsAgree`, `NoLostWakeup`, `IsReplicatedLog` |
| `RaftProgress` | 2 terms, 1 entry, 1 snapshot; the leader reaches one of two followers, the other may become leader too | `EntriesCommit`, `FollowersCatchUp` |
| `Groups` | 3 members, lists of 3 and of 2 of the 3 partitions, offsets 0..1 of 2 partitions; an interrupted write leaves nothing or all | `TypeOK`, `SharesAreFair`, `OffsetsSurvive`, `LivePartitionsStayHeld`, `SilentMembersGo` |
| `Wal` | 5 records of 0, 1 or too many cells, segments of 6 cells in pages of 3, 3 index entries, 3 rolls in a life, any number of lives, `Faults` empty | `TypeOK`, `IndexPointsAtFrames`, `ReadersSeeAll`, `IsALog` |

Why the bounds are enough to see something. Each property has a mutant in
`PROJECT.json`, a plausible error in one definition, and TLC finds the property broken
within the same bounds. Two terms give two rival leaders; the rule that only entries of
the current term are committed by counting needs four, with an entry that is stored, replaced
and stored again; `LogMatching` needs three terms and two indexes, since a leader starts with
its own last index and must have a log before it can skip a follower's. A segment of six cells
holds two frames or three, so five records take rolls, closed segments with a second index entry,
and an index that is full, and three rolls are enough for one that fails, one that is
repeated and one that succeeds. Two RPCs in flight let one overtake
the other. A channel of one is full after one commit. Two contenders among three nodes
suffice for every rivalry, as the third node can vote for either.

`SYMMETRY` permutes the nodes that all bounds treat alike, and the payloads. The two `PROPERTY`s of
those runs, `CommitsAreFinal` and `IsReplicatedLog`, are conditions on single steps that treat all nodes
and payloads alike: they are checked on every step from a representative and are the same for its
permutations. (`Committed` picks a node that is furthest ahead; which one makes no difference as long as
committed prefixes agree.) `RaftProgress`, which checks liveness, has neither symmetry nor a view. `VIEW
LiveView` drops what no step reads before writing it: `nextIndex` and `matchIndex` of a node that is not
leader (`becomeLeader` sets them), a follower's `votes` (`startElection` sets them), and `leaderID`
where no pre-vote reads it; and a `Propose` call whose node has left the term, which can only fail.
`VIEW LogView`, of `RaftTerms`, where nobody applies, also drops `notify`, `lastApplied` and `wal`,
which nobody writes to or reads, and a leader's `votes`. No property of their runs reads those values
either: `VotesAreBinding` looks at the votes of candidates and leaders, `MatchIndexSound` at leaders.

Runs that must fail, each a disagreement between the code and what its documents say:

| run | property | what TLC shows |
|---|---|---|
| `CrashLostWrite` | `AckedWritesSurvive` | A follower that stored an acknowledged entry restarts with an empty log and no vote (`NewRaftNode`), and elects a node that never had it. |
| `SnapshotSkipsWal` | `AppliedIsInWal` | A snapshot moves `lastApplied` past entries that the applier has not delivered; they never reach that node's WAL. |
| `PreVoteDisrupts` | `SettledLeaderUndisturbed` | A follower that was cut off reconnects and its timer expires before the next heartbeat; the leader, whose own timer nothing has reset since its election, grants the pre-vote, and an election of the next term starts against a leader that the other follower has heard of all the time. |
| `GroupsTorn` | `OffsetsSurvive` | A commit appended to the fragment of an interrupted one returns nil and is unreadable afterwards. |

Two more facts need no run. A cluster of one never commits: only the goroutines of
`broadcastAppendEntries` call `checkAndUpdateCommitIndex`, and there are none without peers
(`consensus.go:600`). And eviction does not rebalance (`group_coordinator.go:295`): partitions
stay without owner until somebody joins or leaves.

So `WalsAgree` and `AckedWritesSurvive` hold without restarts (and, for the WAL, without
snapshots), and the violation runs show why those conditions are there.

**Fairness.** Two specifications state it.

`RaftProgress!FairSpec` is about one node, `Hub`, and the peers it reaches, a bare quorum.
It asks that an RPC ends (weak fairness: `conn.SetDeadline`, `tcp_transport.go`), and, for every
reached peer, strong fairness of an RPC that leaves the hub, of its handling and of the use of its
reply: the heartbeat ticker goes on (`consensus.go:492`) and the link loses any number of RPCs but
not all of them. Nothing is asked of the other links, of elections, or of clients, and both properties
allow the hub to lose its leadership. A `Propose` may give up at any moment, so no call is promised an answer:
`EntriesCommit` is about the commit index, and promises that an entry of the leader's term is committed,
not that it is within the two seconds its caller waits.

`ConsumerGroups!FairSpec` is weak fairness of `EvictionTick`: the one-second ticker runs as long as
the coordinator does (`group_coordinator.go:280`). No fairness is assumed of consumers: a
member need never call again.

**Refinements.** `IsReplicatedLog` maps the cluster to one stream, the payloads up to the highest
commit index, and says that elections, replication and snapshots are stutters or extensions of it,
that an applier step delivers a further piece of it, and that an answer of `Propose` names an
index of it that holds the payload of the call. `IsALog` maps `records` and `synced` to
themselves, since they are histories: its content is that a flush covers what the mapping relies
on, so that the records a power failure leaves (computed by the code's own recovery from any
set of surviving pages) are never fewer than those synced, and that no restart, roll, refusal or failure takes
one back.

## 4. Proofs

Every safety property the runs check, and both refinements, are theorems too: where TLC looks
at a few nodes, terms, offsets and cells, they hold for all values of the constants. A theorem
assumes what the constants' modules assume by name (a finite, non-empty set of nodes, `NoNode` not one of
them, `NilData` not a payload, `NotifyCap` at least one, an index with more entries than a segment can ask
for, and so on), and TLC evaluates those assumptions in every run. Three groups of theorems
assume more, and a violation run, or a fault, shows why they must.

### Elections and the applier (`RaftConsensusProofs`)

| theorem | states |
|---|---|
| `TypeCorrectness` | `Spec => []NodeTypeOK` |
| `VotesBind` | `Spec => []VotesAreBinding` |
| `ElectionIsSafe` | `Spec => []ElectionSafety` |
| `WakeupsSuffice` | `Spec => []NoLostWakeup` |

*Types.* Each action preserves the conjuncts it touches. The work is in the message bag:
lemmas on `Exchange` say that the result is a bag whose members were in flight or are sent.

*Elections.* `ElectionSafety` is not inductive: it says nothing of the votes that are still
on their way. `VotesAreBinding` collects all evidence of votes (`Claims`: granted replies in
flight, and votes counted by candidates and leaders in their term) and says that
a claim is never newer than its voter's term, agrees with `votedFor` if it is of the voter's
term, and never contradicts another claim of the same voter and term; a leader has counted a
quorum. With `NodeTypeOK` that is inductive: a step only adds a claim together with the
`votedFor` it records, or turns a reply into a counted vote, and a term only grows. Two leaders
of a term have counted two majorities, which share a voter; that voter's two claims name one
candidate.

*Wake-ups.* `NoLostWakeup` is inductive with types: a commit always leaves at least one
wake-up, full channel or not, and the applier, which takes one, catches up in the same
critical section.

### The log (`RaftSafetyProofs` and the modules it builds on)

| theorem | states |
|---|---|
| `HistoryExists` | `Spec => []LogInv` |
| `LogsMatch` | `Spec => []LogMatching` |
| `CommitsAgree` | `Spec => []CommittedPrefixesAgree` |
| `AckedSurvive` | `Spec => []AckedWritesSurvive` |
| `MatchIsSound` | `Spec => []MatchIndexSound` |
| `PositionsKeepOrder` | `Spec => []PositionsOrdered` |
| `CommitsFinal` | `Spec => CommitsAreFinal` |
| `WholeTypeCorrectness` | `Spec => []TypeOK`, with `nextIndex` and `matchIndex` inside the leader's log |
| `WalsAreCopies`, if `MaxSnapshot = 0` | `Spec => []WalsAgree` |
| `AppliedReachesWal`, if `MaxSnapshot = 0` | `Spec => []AppliedIsInWal` |
| `ImplementsReplicatedLog`, if `MaxSnapshot = 0` | `Spec => IsReplicatedLog` |

None of these is inductive. A vote for a log that is up to date protects a committed entry only because of
what its voter had *stored*, in terms whose leaders may be gone and whose entries may have been
replaced since; no variable remembers that. `LogInv` says that there *is* a memory that explains
the state: a history `h` of who was elected in each term and by which quorum, of every leader's
whole log, of how much of it each node has stored in that term, and of every node's log as it
would be without compaction. What it must explain (`Explains`):

- the history is consistent (`HistoryOK`): each entry of a log came, with all before it, from the leader of
  its term (`Chain`), and whatever a voter had stored is in the new leader's log, unless the leader of a
  term in between lacked it (`Kept`);
- every node's log and anchor are parts of its whole log, and it holds what it has stored (`NodeOK`);
  a leader is the one elected, with the log of its term (`LeaderOK`); elected nodes and voters are
  bound (`ElectionOK`);
- every vote in flight, every request, reply and answer tells the truth about the history (`ClaimOK`,
  `MessageOK`, `ProposalOK`, `AnswerOK`), however late it is read;
- what is below a commit index was chosen by a leader, in its own term, with a quorum (`CommitOK`).

For each action the proof names the history that comes after it: the same one, or one with a new leader,
a longer log, or more stored (`Grows`), and `RaftHistoryProofs` shows once that the untouched parts
still explain the rest. The core is leader completeness: if a leader of a term `t` chose an entry, and a
later leader lacked it, take the earliest that did; its quorum shares a voter with the quorum that
stored the entry, and `Kept` says that the entry is in its log after all. So committed prefixes agree,
and the log properties are consequences of `LogInv` in a single state. `MatchIndexSound` comes from
replies that tell the truth about their own term, and snapshots only move an anchor along a whole log.
What `TypeOK` says of `nextIndex` and `matchIndex` is inductive only next to `LogInv`
(`ProgressStaysInLog`): a late reply is of an entry its leader has stored. A `Propose` that fails is a
step like any other: it takes the call away, and the same history explains what is left
(`FailureExplained`).

`AppliedReachesWal` and its neighbours need `MaxSnapshot = 0`: `SnapshotSkipsWal` shows that a snapshot
leaves a gap in a WAL. Their invariant (`WalIsApplied`) is that a WAL holds the payload of every entry
up to `lastApplied` at its place. The refinement maps the stream to the payloads up to the highest
commit index (`StreamOK`); its steps follow from `CommitsFinal` (the stream only grows), `WalIsApplied`
(a delivery is the next piece of it) and `AnswerOK` (an answered index holds the caller's payload).

All of this is about `Spec`, in which nodes do not restart; `CrashLostWrite` shows that it has to be.

### Consumer groups (`ConsumerGroupsProofs`)

| theorem | states |
|---|---|
| `GroupTypes` | `Spec => []TypeOK` |
| `OffsetsOutlive`, if `Cuts \subseteq {"nothing", "whole"}` | `Spec => []OffsetsSurvive` |
| `SharesStayFair` | `Spec => []SharesAreFair` |
| `LivePartitionsHeld` | `Spec => LivePartitionsStayHeld` |

Offsets: file and memory each hold the acknowledged offset of a key or one in doubt since, and the file ends in
a whole line (`OffsetInv`). The assumption says that an interrupted write leaves all of its line or nothing;
`GroupsTorn` shows what a fragment does. Shares: the k-th of c members gets the turns `(i - 1) % c + 1 = k` of L
partitions, disjoint for different members, together all of them, and, by a counting argument (shifting one
member's turns by the distance to another's moves all but one into range), of sizes that differ by at most
one; L is the length of the list of the call, so a partition whose owner is alive stays held unless that list
omits it. Evictions only take members away.

### The WAL (`WalStoreProofs`)

| theorem | states |
|---|---|
| `WalTypes` | `Spec => []TypeOK` |
| `ReadersAreServed`, if `Faults = {}` | `Spec => []ReadersSeeAll` |
| `IndexesAreSound`, if `Faults = {}` | `Spec => []IndexPointsAtFrames` |
| `ImplementsAppendOnlyLog`, if `Faults = {}` | `Spec => IsALog` |

`WalTypes` holds whichever faults happen. Besides types it needs that the index of a segment that can be
written begins at or before the next offset (`ActiveBehind`): else the relative offset of an entry would be
negative. The other three assume that none of the three faults of section 2 happens. With any one of them TLC
refutes `ReadersSeeAll` and `IsALog` on the instance of `Wal.cfg`, and with appends after an outage
`IndexPointsAtFrames` too. With the other two it found no state that breaks the last: for a half-made segment
in all states of four records and two rolls, for a torn header in as many as five minutes allow. For those two it
stays open.

What recovery, the binary search in the index and the scan of `ReadAt` compute is recursive. The proofs get at
it without an induction rule: of the places where a claim fails take the last (or, in a search, the smallest
range); it does not fail at the next, so it does not fail here either. They give:

- `RecoveredIs`: over cells in which the frames of the records `b .. u - 1` lie one behind the other,
  and nothing decodes behind them, recovery returns the end of the last and the offset `u`;
- `LookupIs`, `ReadFinds`: whatever the zeros of a reopened index do to the binary search, it returns 0 or the
  position of an entry at or before the offset, and the scan from there finds the record.

The invariant (`WalInv`) says for every file that its segment holds the records from its base to the
next base (`Ends`), laid out at some positions `p` (`Readable`); and, until a power has failed, what
holds of memory *and* disk (`Sound`): any cell that looks like the fields or the last byte of a frame
belongs to a record at its place, or to a frame just begun (`Genuine`), so no mixture of old and new
pages can decode to anything but records; index entries lead to records or to where the next one will
go; and what is synced is the same on disk. Of the process it says that every segment that no later one
has replaced knows where its records end (`ObjectsOK`; a record that fits no segment leaves an empty
segment behind, whose files the next roll uses again), that the closed segments come in the order of
their offsets, one of them perhaps more than once (`ClosedOK`, for failed rolls), and that the active
index is empty behind its entries (`SlotsFree`).

From there the steps are: a record, or the first k cells of its frame, written behind the last one keeps
`Readable` and `Sound`, with one record more or none (`FileTakes`); a mixture of memory and disk is
readable up to some record, and all synced ones are among them (`FileSurvives`); in the active segment
alone anything is unsynced, because a roll flushes. `ReadAt` picks the newest closed segment that begins
at or before the offset: a later one begins behind it, so the one picked has not been replaced and ends
behind the offset (`NewestHolds`). For the refinement, a power failure keeps the `v` records the last
file is recovered to, and `v` is not less than `synced`.

### What stays with TLC

- Liveness: `EntriesCommit`, `FollowersCatchUp`, `SilentMembersGo`. TLAPS has no rules for fairness and
  `ENABLED`.
- The violation runs, and with them everything about restarts of Raft nodes (`RaftCrash`), torn lines
  and pre-vote with clocks (`PreVoteTimers`, where nothing but the refuted property is stated).
- That the conditions of the theorems are needed. TLC shows it: for `MaxSnapshot` and `Cuts` in a
  violation run, for `Faults` with the fault added to `Wal.cfg`.

## 5. Not modelled, and the plan

Done: election, replication, snapshots, applier, restarts, pre-vote with clocks, progress of a
leader, consumer groups, the WAL with its index and frames, and the abstract specifications
`ReplicatedLog` and `AppendOnlyLog`.

Every safety property and both refinements are proved. Next, in this order:

1. Proofs under weaker conditions: `WalsAgree` with snapshots for WALs that nothing has been skipped in;
   `OffsetsSurvive` for lines that are torn as long as no commit follows.
2. The bound `append after outage` split into the appends that fill a hole and those that do not, so that
   the WAL's theorems cover the harmless ones.
3. The WAL's errors composed with the applier, once the code does something about them:
   today `OnCommit` drops them (`main.go:233`), which any failing append turns into a gap.

Parts of modelled components that are left out: `ReadAt` of a corrupted file (the disk is
taken to keep what it has written), errors of the Windows calls other than those of a new segment,
`SyncOnWrite` (an append followed by a sync), JSON encoding and TLS of peer connections,
`RegisterNode` and the start and stop of the listener. The offset `produce` returns (the Raft index, from
1) and the one `consume` reads (from 0) are not related: no document says which of them the API
promises. The client protocol loop keeps no state between commands.

Left out for good: the dashboard, the benchmarks, TLS certificates, HTTP and WebSocket
handlers and latency statistics; they keep no state the properties speak of.
