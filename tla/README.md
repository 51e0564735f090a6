# GitKit, specified

TLA+ specifications of the parts of [GitKit](../src/README.md), a Swift wrapper
of libgit2, whose correctness depends on the *order* in which things happen:
what several processes do to one repository, what a remote does while it is
pushed to, what is left when a step throws or the process dies, and what a
caller may do between two calls that belong together. TLC checks the models on
small instances; the TLA+ proof system proves, for every size, what matters
most about ten of them: the commit, the push, the rebase, merge and
cherry-pick, the octopus merge, the index, the fetch, the SSH transport, the
reaping of its processes and the include policies.

Contents: [the system](#the-system) · [the modules](#the-modules) ·
[properties, runs and bounds](#properties-runs-and-bounds) ·
[where the code and its documents disagree](#where-the-code-and-its-documents-disagree) ·
[fairness](#fairness) · [what is proved](#what-is-proved) ·
[limits](#limits) · [not modelled](#not-modelled) · [plan](#plan) · [running it](#running-it)

## The system

A `Repository` is a handle on a git repository. It has next to no state of its
own: libgit2 caches the index in it. The state is on disk and shared with every
other git process (other handles, `git` itself, editors), without any lock but
git's lock files: `index.lock`, `<ref>.lock`, `logs/<ref>.lock`. Every operation
is a sequence of libgit2 calls; each of those is (nearly always) atomic, and the
sequence is not. Swift's `defer` and `throw` decide what a failing step leaves.

| Component (source, under `src/Sources`) | State | Operations | What makes it hard, and what makes it correct |
|---|---|---|---|
| Amend and commit (`Repository+Amend.swift`, `Repository.swift`, `lockfile.c`, `index_lock.c`) | objects, refs, HEAD, reflogs, index, lock files, a handle's cached index | `amendDetailed`, `commitDetailed` | Other processes between any two reads; dying with locks held. No commit overwritten unseen, no stale index recorded, no reflog entry lost or re-signed, locks released on every path |
| Push (`Repository+Push*.swift`, `CallbacksPayload.swift`) | local refs, remote-tracking refs, the remote's refs, updates in flight, upstream configuration | `push` in its forms | The remote moves after it advertised its refs; a connection drops with updates under way; part of a push is refused. Nothing unseen is overwritten; each ref's verdict is true |
| Octopus merge (`OctopusMerge.swift`, `Repository+OctopusMerge*.swift`) | index with skip-worktree bits, work tree, MERGE_* files, HEAD | `mergeHeads`, `octopusMerge` | A dozen steps that may each fail, over files libgit2 was not asked to touch; a rollback. A failure changes nothing; a conflict can be concluded; local changes survive |
| Rebase (`Repository+Rebase.swift`) | `.git/rebase-merge`, HEAD, the branch, the index | `rebase`, `rebaseContinue`, `rebaseSkip`, `rebaseAbort` | The state outlives the call and the process; anything may happen between calls. No commit lost, reordered or half moved |
| Merge and cherry-pick (`Repository+Merge.swift`, `Repository+CherryPick.swift`) | MERGE_HEAD, CHERRY_PICK_HEAD, index, HEAD | merge, pick, their continuations and aborts | HEAD is read several times; the state files of one operation meet another. The branch only grows; no commit is taken back by a merge that never saw it |
| Reset (`Repository+Reset.swift`) | HEAD, index | `reset` by mode and by path | Cleans up the state of operations in progress |
| Staging and the index (`Repository.swift`, `Repository+MvRm.swift`, `Repository+IndexFlags.swift`, `index_flags.c`) | the index, cached and on disk | `add`, `stageTrackedChanges`, `remove`, `move`, `setSkipWorktree`, `setAssumeUnchanged` | Some lock before they read, some lock only to write. A flags update changes its bit and nothing else; what failed is never written later |
| Checkout (`Repository+Checkout.swift`) | HEAD, index, work tree | checkout of branches, commits, paths | HEAD moves after the files |
| Fetch (`Repository+Clone.swift`, `Repository+FetchTags.swift`, `Repository+FetchHead.swift`, `remote_patched.c`) | tags, tracking refs, FETCH_HEAD | `fetch`, `unshallow` | libgit2 moves tags git would not; they are put back from what was read before the fetch. In the end every tag is as git's rules have it, and FETCH_HEAD says so |
| Clone (`Repository+Clone.swift`) | – | `clone` | One libgit2 call |
| SSH transport (`SSHTransport.swift`, `SSHTransportBridge.swift`) | registered provider, one context per connection, its channel and stream | `register`, `unregister`; action, close, free, read, write as callbacks | libgit2's threads call in with an address that may have been another's. A stream reaches its own channel; each channel is closed; the schemes are registered all or none |
| Process reaping (`gitkit_process_reap.h`, `process_patched.c`, `ssh_exec_patched.c`) | a child and its pid | reap on close, reap on free | Two call sites, a time bound, a pid that may be reused. No child outlives its connection, no stranger is struck, the close ends |
| Config include policies (`ConfigIncludePolicy.swift`, `config_file_patched.c`) | policies per repository, per thread and by default; the references to their payloads | set, remove, ask | Replaced while a callback runs; a mutex made by whoever comes first; addresses that come back. The right policy is asked, and is alive while it is |
| Stash (`Repository+Stash.swift`) | the stash reflog | save, apply, pop, drop, clear, branch | Entries are named by a position that shifts |
| Worktrees (`Repository+Worktree.swift`) | worktree names, branches | add, remove, prune, list | Checked first, taken later |
| Remote lookup, credentials, progress, tags and reflogs, reading, patterns, signatures, config, submodules, patches, set-up | none, or one libgit2 call each | – | Sequential; left to the tests |

How they interact: everything above the transport shares the refs, HEAD and the
index through the file system. `rebase`, `merge`, `cherryPick`, `reset` and
`commitDetailed` also share git's state files (`MERGE_HEAD`,
`CHERRY_PICK_HEAD`, `rebase-merge`), which libgit2's
`git_repository_state_cleanup` removes *all together*, whoever asks. `push`,
`fetch` and `clone` go through the callbacks of `CallbacksPayload.swift` and,
over ssh, through the transport or the `ssh` child and its reaping. Every
config a `Repository` opens asks the include policies. The hazards of the
components, at their lines, are in `PROJECT.json`, with the gravest of the
unmodelled ones.

## The modules

| Module | Models | EXTENDS / INSTANCE |
|---|---|---|
| `AmendCommit` | `amendDetailed` and `commitDetailed` by several processes | instances `AtomicCommits` |
| `AtomicCommits` | the abstract specification: refs move atomically | – |
| `AmendCommitProofs` | theorems about `AmendCommit` | extends it, `SequenceTheorems` and `TLAPS` |
| `Push` | `pushImpl` by several clients against one remote | – |
| `PushProofs` | theorems about `Push` | extends it and `TLAPS` |
| `OctopusCheckout` | `checkOut` of a computed octopus merge, to its end | – |
| `OctopusHeads` | `mergeHeads`, the loop over the heads, the parents recorded | – |
| `OctopusProofs` | theorems about `OctopusCheckout` and `OctopusHeads` | extends both, `FiniteSetTheorems`, `WellFoundedInduction` and `TLAPS` |
| `Rebase` | the four rebase calls, over libgit2's rebase | – |
| `RebaseProofs` | theorems about `Rebase` | extends it, `SequenceTheorems` and `TLAPS` |
| `Merging` | merge and cherry-pick, their continuations and aborts | – |
| `MergingProofs` | theorems about `Merging` | extends it, `FiniteSetTheorems`, `SequenceTheorems` and `TLAPS` |
| `IndexWriters` | the operations that change the index, by several handles beside git and editors | – |
| `FetchTags` | what a fetch does to the tags and to FETCH_HEAD | – |
| `IndexAndTagsProofs` | theorems about `IndexWriters` and `FetchTags` | extends both, `FiniteSetTheorems`, `WellFoundedInduction` and `TLAPS` |
| `SSHTransport` | the registration of a supplied transport and the callbacks of its connections | – |
| `ProcessReap` | the reaping of the `ssh` children, under a kernel that reuses numbers | – |
| `ProcessReapProofs` | theorems about `ProcessReap` and `SSHTransport`, the two ends of a connection | extends both, `FiniteSetTheorems`, `SequenceTheorems`, `WellFoundedInduction` and `TLAPS` |
| `IncludePolicies` | the policies for `[include]`, their mutex and their payloads | – |
| `IncludePoliciesProofs` | theorems about `IncludePolicies` | extends it, `FiniteSetTheorems`, `SequenceTheorems`, `WellFoundedInduction` and `TLAPS` |
| `MC…` | the constants of each run, symmetry and constraints | extend the above |

The comment above each definition says which part of the code it is; `map` in
`PROJECT.json` gives the lines. What libgit2 or git does is modelled from how the
code uses it and marked *external* there.

**`AmendCommit`.** One `pc` per process, one action between two accesses to the
disk. `BeginAmend … FinishAmend` follow `amendDetailed`: HEAD is resolved
before `index.lock` is taken (`AcquireIndexLock`), the index is read again under
it if the file is another one (`ReadIndex`), the commit is built (`BuildAmended`), HEAD is read twice
(`ReadHeadKind`, `ReadHeadName`), moved by compare-and-swap (`MoveHead`), and the
reflog entries restamped under the refs' locks (`LockRef … RewriteLog`).
`BeginCommit`, `BuildTree` and `CreateCommit` are `commitDetailed`, which uses
the cached index and takes no `index.lock`. `mem` is that cache: which file it was
read from or written to, and what it holds; `Stages`, the calls that stage
(`IndexWriters` has them step by step), writes both, or fails and leaves edits in the cache alone.
`SoftRead` is `git_index_read` without force: a file that is not the one last
read is read, and edits of one that is are kept. `Crash` leaves lock files
behind, as the code does. `OtherGit` is every other git process: it
stages, commits, switches, orphans, detaches and expires logs, under the same
lock files.

**`Push`.** Per client: the advertisement (`Connect`), the leases read against
it (`SettleLeases`), git's fast-forward and tag rules (`ApplyRules`), the sending, for
which libgit2 resolves the sources a second time (`Send`), the remote's verdict on each
update, one at a time (`RemoteTakes`, `RemoteRefuses`), the settling of what was
accepted, refused and never reported (`Settle`), and the upstreams, one by one,
any of which may throw (`SetUpstream`). A destination is given by its full name or
a short one (`short`): a deletion by a short name has to find its ref in the
advertisement, one by a full name is sent whether it is there or not. An update in
`flight` carries the old value the client saw and is applied by the remote only while
that still holds, or, where it deletes a ref the client saw none of, whatever is
there by then (`DeletesNothing`: there is no old value for the remote to compare);
`Drops` cuts the connection and leaves its updates astray.

**`OctopusCheckout`.** One action per phase: preflight, snapshot, what lies outside the
sparse checkout, the two checkouts, conflict entries written by hand, the
commit, the sparse bits put back and re-applied, HEAD moved, the three state
files persisted; each with a companion that throws there (`…Throws`) and
goes through the same `RollBack` or `Undone`. `disk`, `index` and `state` are work
tree, index and MERGE_* files; `OthersMoveHead`, `OthersLockHead` and `Edit` are
everyone else.

**`OctopusHeads`.** A history is a function from commits to parents, a tree the
set of commits whose changes it has. `mergeHeads` resolves the heads it is given and
returns the *names* of those that remain; `octopusMerge` reads HEAD and resolves the
names again (`OctopusMerge`) and takes one head after the other (`MRC`,
fast-forwards while it stands for HEAD alone); `Conclude` picks the recorded parents.
`given` is what the first call saw, `named` what the names stand for now: between
the two calls `RefMoves` takes HEAD's branch, or one named as a head, anywhere.

**`Rebase`.** `rebase` is `.git/rebase-merge`: the operations, the count of the
current one (`msgnum`) and where HEAD was; `branch` and `at` are histories,
sequences of commits that each bring changes. A call is a chain of steps
(`RebaseStarts`, `AppliesCleanly` and its two failing companions,
`CommitCurrent`, `Finish`, …), so that it can die or throw between any two;
between calls the caller resolves, stages, commits, picks or resets, and others
move the branch, as far as the behaviour's `world` allows.

**`Merging`.** A commit is its place in a sequence that grows, a tree a set of
changes: a commit that *reverts* another is one whose tree lacks what its
ancestor has. Each call is a chain of steps at the points where HEAD is read, the
index written, the commit created and the state files removed; `world` is the
set of operations a behaviour may call.

**`IndexWriters`.** The index is a map from paths to content and flags: `disk` is
the file, `memory` what each handle has cached. `UpdateFlags` and `FlagsLock`,
`FlagsRead`, `FlagsMark`, `FlagsCommit`, with the two ways out of it
(`FlagsCleanup`, `FlagsFail`), are `gitkit_index_update_entry_flags`, call for
call. `Add`, `StageAll`, `Remove` and `Move` change the cached index edit by edit
(`MakeEdit`) and lock only to write (`WriteLock`, `Write`, `WriteFails`); an `add`
whose second file is missing throws after the first is staged in memory.
`GitWrites` and `Saves` are git processes and editors; `Dies` leaves the lock.

**`FetchTags`.** A world is one fetch: its refspecs, what negative ones exclude,
`--tags` or following, and which tags point into what arrives. `ReadTags` is the
reading before the fetch, `UpdateTip` and `UpdateAllTags` are libgit2's passes,
which use the refspec matching of `remote_patched.c` and may clobber; `DropTag`
and `DropEnds` are `dropUnfollowableTags`, `Settle` is `settleFetchedTags`, one
advertised ref at a time, `ReorderHead` the lines of FETCH_HEAD for `--tags`.
`Change` is another process, `Fail` the fetch that throws.

**`SSHTransport`.** The registry is a map from the address of a subtransport to a
context, as in the code, and an address comes back into use as soon as the memory
is given back, the second half of a free. `RegisterStarts … RegisterEnds` take the three schemes one by one and
give back those taken when one is the host's; `Allocate … FreeEnds` are the
callbacks as libgit2's smart transport calls them, per thread.

**`ProcessReap`.** `child` is the kernel's table. `gitkit_process_reap` is a loop
of polls, SIGTERM, the loop again, SIGKILL and a wait that `EINTR` restarts; a
close runs it and the free of the git_process runs it again with the pid it
still has. Numbers are handed out in turn, round and round (`HandOut`), to the
children and to other programs (`Elsewhere`); `passed` counts them in the time of
each connection, and `round` says whether they have come round in the time of
one. The host may reap any child too.

**`IncludePolicies`.** Each thread has a stack of calls, since a callback may call
back: `open` sets the thread's policy and reads, a read asks once per include,
`StorePolicy` and `ReleaseReplaced` set one, `CloseBegins` and `CloseGoesOn` are
`deinit`. A callback makes the same calls: it opens, reads, sets and closes, of
any repository but those the calls around it have in hand. `LoadLock`
and `PublishLock` make the mutex on first use by compare-and-swap; `refs` counts
the references to each payload.

## Properties, runs and bounds

All properties but `CloseReturns`, a liveness property, are safety properties.
Each run is a `.cfg` with an `MC` module, or the module itself where the `.cfg`
needs no definitions; the one run that TLC must refute, `fetch_clobber`, is in
the next section. A `TypeOK` that is not among the properties of a run is the
record of what the module's variables hold; those of `Push`, `OctopusCheckout`,
`Rebase`, `Merging`, `IndexWriters`, `FetchTags` (`FetchTypeOK`), `SSHTransport` (`SSHTypeOK`) and `IncludePolicies`
are proved, as parts of their inductive invariants.

### Amend and commit

| Run | Checks | Instance |
|---|---|---|
| `amend_pair` | `TypeOK`, `LockDiscipline`, `StampedByMover`, `ImplementsAtomicCommits`, `ReflogOnlyGrows` | two processes, two branches, two trees, three commits, two side steps, each a staging or a step of another git |

`ImplementsAtomicCommits` is the refinement of the abstract specification, whose
variables are a subset of the detailed ones: every step extends the ref it moves,
replaces exactly the commit that ref holds with one that has the tree of the
index file *at that moment*, or of what the amending handle has made of just that file
without writing it, or changes none of it. A cache of any other file is never
amended in. Dropping the lock, the second read
or the compare-and-swap breaks it. Two processes and one intruder are enough for
every race in the code, which are all between a pair of accesses; three commits
allow an amend of an amend; two side steps allow a commit and what undoes its
traces, a move away and back, or a failed staging and another's write. The
constraint `FewTogether` takes the second side step only into states with one
process at work, alive, and with git holding `index.lock` only against a handle
with edits of its own, and the first beside a dead process only with no other at
work: a race is between two parties, or between one process and two side steps.

### Push

| Run | Checks | Instance |
|---|---|---|
| `push` | `TrueVerdict`, `NoLostWork`, `UpstreamWentThrough` | one client, a branch and a tag pushed alone or together, plainly, by force, leased either way or deleted, the deletions by full and by short names and under leases that expect something and nothing, two steps of others |

Three commits, two of which diverge from the first, are the smallest history with
a fast-forward and a non-fast-forward. `NoLostWork`: whenever the remote's ref
moves off a value by a client's update, the client was shown that value
(advertised, or expected by its lease), and was licensed by force, lease or
ancestry to replace it. The one update it exempts by name is `DeletesNothing`, the
deletion by its full name of a ref that the remote did not advertise, which removes
the ref someone has created since (see the next section). `TrueVerdict`: what the caller is told of each ref is
what happened. Other clients are the steps of others: a client sees another one
only through the remote's refs, and two of these are enough to move a ref away
and back. The constraint `OneAstray` keeps at most one update of a dropped
connection under way.

### Octopus merge

| Run | Checks | Instance |
|---|---|---|
| `octopus` | `FailureChangesNothing`, `Concludable`, `MergeCheckedOut`, `LocalChangesSurvive`, `SparseAgain` | two paths, each in every combination of HEAD's and the merge's content, conflicts included, work tree, flags and sparse rules; one throw; one edit at any moment; HEAD moved, locked, deleted |
| `octopus_heads` | `HeadsReduced`, `MergedSoFar`, `HistoryKept` | all histories of four commits with up to two parents, all lists of up to three heads, HEAD's branch and the heads' moved anywhere, up to three of them, or gone, between the two calls |

Each path goes through the phases on its own; what couples them is whether *some*
path throws, conflicts or is outside, so two suffice. One fault is all a call
can have: it ends the call. What the properties say of the work tree is claimed
where nobody edits it during the merge: an edit does get lost (see the next
section); what they say of the index, HEAD and the merge state is claimed with the
edit too. `FailureChangesNothing` exempts one throw by name, that of
a HEAD that cannot be read at the end (see below). Three heads over four commits
contain every way for one head to be redundant: repeated, reached by another
head, reached by HEAD, or reaching HEAD. Up to three refs move between the calls (`MaxMoved`); five
commits with one ref moving pass as well, in a few minutes, and the theorems are for any
number. `HistoryKept` says of the merge commit that its tree is just what
its parents reach, and claims the rest of the heads that did not move: among those none is
redundant, and a head given is lost only with a ref that moved away from it.

### Rebase

| Run | Checks | Instance |
|---|---|---|
| `rebase` | `EveryOperationApplied`, `WorkKept`, `ReplayedInOrder`, `BranchMovesOnce`, `ElsewhereKept` | two operations, six calls, in two worlds |

In the world `Refusing`, checkouts are refused, identities are missing, calls die, and commits,
picks and resets come in between; in `Staging` the caller stages other things as well, and
nothing is refused or dies. Two operations give a first, a last, and one
followed by another; with six calls each can be paused at, lost by a death, and
continued twice. Staging *with* deaths or refusals is left out on purpose: there the code
drops an operation (see the next section), and `EveryOperationApplied` fails.
`ElsewhereKept` exempts the two aborts, which put the branch back where the
rebase found it.

### Merge and cherry-pick

| Run | Checks | Instance |
|---|---|---|
| `merging` | `NothingReverted`, `MergeRecorded`, `ConcludedOnce`, `TipGrows` | three targets, all fast-forward modes. One process, five calls, in three worlds: every operation, every operation but no deaths, merges alone. Two processes, four calls, no fast-forwards and no `cherryPickAbort` |

The history is fixed up to its first five commits: a base, a branch on it, a
diverged commit, one ahead of the branch and a second diverged one; these are
the relations the analysis of a merge tells apart. What the pair leaves out breaks
`TipGrows`: a fast-forward drops a commit made since its analysis, and
`cherryPickAbort` resets to the commit it read. `MergeRecorded` is said of behaviours of merges
alone, as `commit` and a pick record other parents; `ConcludedOnce` of
behaviours without deaths: one between the creation of the merge commit and the
cleanup makes the next `mergeContinue` record the merge again. Both are said of the
diverged targets: a branch that is ahead can be merged again, as a fast-forward, over its
own merge in progress.

### Staging and the index

| Run | Checks | Instance |
|---|---|---|
| `index_writers` | `NoFailedMark`, `FlagsChangeTheirBit` | two handles, two paths, two contents, one flag, three calls, one step of git or an editor |

`FlagsChangeTheirBit` fails once the index is read before it is locked: a second
writer is enough for that. `NoFailedMark` takes a call that fails and a later one
that writes with the same handle; the flags are independent of each other, so
one will do. What `add` and its like do to each other's staging is not
claimed: they write the cached index over whatever the file holds (see the
hazards).

### Fetch

| Run | Checks | Instance |
|---|---|---|
| `fetch_tags` | `TagsSettled`, `HeadNamesTaken`, `OthersKept` | a branch and two tags, two objects, every set of local tags and of tags the remote has, one change by another process; the fetches of `FetchWorlds`: one refspec or two that cross or share their source, forced and not, `--tags`, exclusion, following, and both of these |
| `fetch_clobber` | `TagsSettled`, refuted | one fetch: `--tags`, an unforced refspec into a tag that is excluded |

`TagsSettled` compares the whole of libgit2's passes, the settling and the
reports with git's rules as one formula (`ByRules`), of fetches nobody
interferes with. `OthersKept` is what holds when somebody does: a tag the fetch
has no business with is left as that process set it. Two tags are needed for a
refspec that takes one tag to the other; two objects for a tag that moved.

### SSH transport, process reaping and include policies

| Run | Checks | Instance |
|---|---|---|
| `ssh_transport` | `ReachesOwnChannel`, `NoChannelLeftOpen`, `SchemesWhole` | two threads, two addresses, four channels, the host's own transports |
| `process_reap` | `NoChildLeft`, `CloseReturns`, `OwnChildStruck` | two threads with two connections each, three process numbers, grace periods of two polls; with and without a host that reaps, with and without interrupts |
| `include_policies` | `OneInside`, `PayloadsKept`, `PolicyInForce` | two threads, two addresses, four payloads, five calls, with `setDefault` and with callbacks that call |

With as many addresses as threads, an address one thread frees is at once free
for the other; three process numbers come round within four connections, so that
a number a connection had is another's later, and, with the numbers other
programs take, within one connection too (`round`). From then on a reap may take
and strike another connection's child: `OwnChildStruck` and `CloseReturns` are
claimed until then, `NoChildLeft` always. The number of polls in a
grace period changes when SIGTERM goes out, not what may be true then: 2 stands
for 50. `OwnChildStruck` is also claimed only where the host leaves the children alone: a
host that waits for any child can free the number between a poll and the signal,
and nothing in the code could notice. Five calls are an open, inside one of
its callbacks the open, the close and once more the open of a repository at the
other address, and a read; or an open, a set inside one of its callbacks, a close
and the open of another repository at the address. Two threads make the race for
the mutex. `PolicyInForce` claims nothing of a repository without a policy of its
own that is opened or read inside the callback of another one's open (`Borrows`):
there the code and its documentation part, see below.

## Where the code and its documents disagree

One disagreement is a run TLC must refute, `fetch_clobber`; the quotation is in
`PROJECT.json`. A fetch with `--tags`, an unforced `main:refs/tags/v` and
`^refs/tags/v`: `settleMappedTags` restores `v` and reports it as not clobbered
(`Repository+FetchTags.swift:242`), then the settling of the excluded tag stores
the branch's tip in it (`:296`). The caller is told that the tag was refused, and
it has moved.

The models contain these as well, but for two that are marked. No run asks for them: where a property above
would fail for one, its statement or the world it is checked in leaves it out.

| Component | Says | Does |
|---|---|---|
| amend (`ReadIndex`) | record the index as it is on disk now, as git does (`Repository+Amend.swift:151`) | `git_index_read` is not forced (`:153`): while the file is the one the handle read last, the edits a failed `add` left in memory are recorded as well; a flags update forces it for that reason (`index_flags.c:38`) |
| commit (`BuildTree`) | commit "exactly what's staged in the index" (`Repository.swift:288`) | `commitDetailed` commits the cached index (`:307`), which another process's staging made stale; `amendDetailed` reads it again for that reason |
| push (`Send`) | a tag can't move without force (`Repository+PushRefspecs.swift:379`) | an up-to-date tag passes the rules (`:396`), its *name* is sent and resolved again; if it moved in between, the remote's tag moves |
| push (`RemoteTakes`) | the remote checks each update against the value the lease was checked against, so a ref that moves meanwhile is refused (`Repository+PushLeases.swift:91`) | a deletion by its full name of a ref that is not there passes the lease (`Repository+PushRefspecs.swift:218`) and is sent with no value to compare: git's receive-pack deletes what has been created meanwhile |
| push (`SetUpstream`) | each pushed branch gets its upstream (`Repository+PushLeases.swift:96`) | without a tracking ref libgit2 refuses; the call throws after the push went through and its result is lost |
| push (`Unreported`) | an update never reported on failed (`Repository+Push.swift:355`) | a source that moved back to the advertised value counts as up to date, and as pushed |
| octopus (`RefMoves`) | the heads of the merge commit are those `mergeHeads` leaves, no duplicates and none reachable from another (`Repository+OctopusMerge.swift:6`, `:72`) | names are handed over and resolved again (`:90`): a branch moved in between is merged where it is by then, twice or redundantly if so |
| octopus (`Edit`) | a failure puts the work tree back as it was found (`Repository+OctopusMergeCheckout.swift:573`) | a file saved between preflight and snapshot is overwritten by the rollback of the checkout that refused to overwrite it (`:534`) |
| octopus (`MoveHeadThrows`) | the index and the work tree change only once the merge succeeds (`Repository+OctopusMerge.swift:75`) | `check(headRC)` throws past the catch, with the merge checked out |
| rebase (`NextRefused`) | completed: every operation was applied (`Repository+Rebase.swift:9`) | a refused checkout has been counted (`:121`); the next continue commits what happens to be staged in its place |
| rebase (`CherryPick`, `Reset`) | the caller can resume (`Repository+Rebase.swift:14`) | a concluded cherry-pick, or a reset, removes the rebase's state |
| rebase (`CommitCurrent`) | the count of commits replayed (`Repository+Rebase.swift:10`) | counts those of the last call only |
| rebase (`CommitAlreadyApplied`) | skip when the index is empty (`Repository+Rebase.swift:108`) | `rebaseContinue` throws, each time; and `rebase` stops with an error at a commit upstream already has |
| rebase (`NothingToReplay`) | up to date: the branch has every commit of upstream (`Repository+Rebase.swift:6`) | also said of a branch that is only behind |
| merge (`Commits` between two reads of HEAD) | a real three-way merge (`Repository+Merge.swift:13`) | a commit made between `git_merge` and the second read of HEAD (`:324`) is reverted by the merge commit |
| merge (`Commits`) | resolve and commit (`Repository+Merge.swift:17`) | `commit` records one parent: the merge is dropped from history |
| pick (`ApplyRefused`) | a paused pick can be continued or aborted (`Repository+CherryPick.swift:13`) | another pick, refused, removes its CHERRY_PICK_HEAD |
| merge (`SetTarget`) | HEAD was advanced (`Repository+Merge.swift:9`) | a commit made between analysis and fast-forward is dropped |
| pick (`cherryPickAbort`) | undoes the pick in progress (`Repository+CherryPick.swift:121`) | resets to the HEAD it read: a commit another process makes in between is dropped |
| include policies (paths, not in the model) | `includedFrom` is the config file whose directive named the include (`ConfigIncludePolicy.swift:9`), and callbacks may open repositories (`Repository.swift:72`) | a config read inside a callback overwrites the thread's `gitkit_include_paths` (`config_file_patched.c:223`), from which the outer read's next `includedFrom` is taken (`:227`) |
| include policies (`PolicyFor`) | an open with `nil` keeps the default (`Repository.swift:66`), and a repository without its own policy falls back to it (`ConfigIncludePolicy.swift:29`) | inside a callback of another repository's open either is asked of that open's policy, which is the thread's (`config_file_patched.c:110`, `:124`) |
| stash (not modelled) | walks newest first (`Repository+Stash.swift:128`) | `stashClear` drops from the oldest (`:132`) |
| fetch (`Followed`) | drops the tags libgit2 followed that git wouldn't have (`Repository+FetchTags.swift:404`) | a tag that a refspec takes to another name (`v:refs/tags/w`) is also followed while libgit2 matches another refspec (`remote_patched.c:116`), and counts as asked for (`:422`): it stays under its own name, whether anything reaches it or not; so does one asked for under its own name that a negative refspec excludes, `v:refs/tags/v` with `^refs/tags/v` beside `main:…`, for the probe gives way only to a refspec that maps the tag and `specs` leaves the negative ones out (`:415`) |
| fetch (`Fail`) | tags are settled by git's rules | a fetch that fails on the way throws before the settling: tags it moved stay moved |
| staging (`MakeEdit`) | – | what a failed `add` staged in memory is written by the handle's next write |

## Fairness

Only `ProcessReap` assumes any. `gitkit_process_reap` is the one loop that waits
for another party with a promise that it ends: "the close is bounded"
(`gitkit_process_reap.h:4`). Its fairness is that a thread inside the reap runs
on (it only sleeps and calls the kernel) and that SIGKILL ends a process. Not
assumed: that a child ends by itself, or at SIGTERM, or that anybody closes a
connection. Without the SIGKILL, or with an `ECHILD` that is not taken for an
answer, `CloseReturns` fails.

Everywhere else none is assumed and no liveness is claimed. Calls run on the caller's thread,
the code has no loop that waits for another party without a bound (a lock file
that is held is an error, not a wait), and whether a remote answers is not in
its hands. `CHECK_DEADLOCK FALSE` stands in the runs whose behaviours end: one
octopus merge or fetch, or a bounded number of calls, channels, connections or
payloads. `AmendCommit` and `Push` can always take another step.

## What is proved

### Amend and commit

`AmendCommitProofs`, for *any* sets of processes, branches and trees and any
bounds (`ConstantsAssumption`: the branches are not empty, and the model values
used as markers are not among the processes or trees):

| Theorem | States |
|---|---|
| `TypeCorrect` | `Spec => []TypeOK` |
| `LocksDisciplined` | `Spec => []LockDiscipline` |
| `Refinement` | `Spec => ImplementsAtomicCommits` |
| `StampsAreOurs` | `Spec => []StampedByMover` |
| `LogsGrow` | `Spec => ReflogOnlyGrows` |

`LockDiscipline` is not inductive alone, and the refinement needs to know what
a call's locals mean. `IInv` (in `AmendCommit`) adds `RefsHold`, that every ref
holds an existing commit or none, and `Known(p)`, what process `p` knows at
each program counter: while it holds `index.lock`, its cached index is one *of the
index file there is* (nobody else may write it, by `LockDiscipline`), with or
without edits of its own; from `kind` on, the
commit it created has the parent of the one it replaces and the tree of its
cached index. `IInv` itself is preserved: `TypeStep`, `LockStep`, `RefsStep`
and `KnownStep`, each with one step per action, over frame lemmas that say
what an action of another process leaves alone (`OthersFrame`, `KnownFrame`).
`StepImplements` then maps each action to an abstract step: `CreateCommit` and git's commits to
`Extend`, `MoveHead` to `Replace` (`Known` at `move` gives the tree and
the parent, the compare-and-swap the ref), git's checkouts to `Switch`, its staging to
`Stage`, a handle's reads and unwritten edits to `Draft`, the creation of a commit
object to `WriteObject`, everything else to a stutter.

The two about the reflogs rest on a second invariant, `LogInv` (`LogInvariant`), on top of
`IInv`. That an entry *looks like* the process's own, an amend to the commit it
made, must mean that it *is*: `Owned(p)` says that the commit a call has made is
no other call's, and that every entry with it is this call's. That no entry is lost needs
the log that is rewritten to be the one that was read: `Settled(p)` says which
locks a call has from `LockRef` to `RewriteLog`, that HEAD still names the ref it
moved, and that the log at `rewrite` is the one `seen`, which nobody else may
touch while its lock file is held. Its middle part is about a detached HEAD that
another process attaches to a branch in between: either the branch is not at the
amended commit or HEAD's log has another entry on top, so the call leaves the log
alone. `StampedByMover` alone is not inductive because `RestampLog` looks only at
the newest entry's content; `LogsHold` (entries name existing commits) makes a
new commit's number new to every log.

### Push

`PushProofs`, for *any* clients, commits, ancestry, branches and tags, any
requests, and any number of steps of others, with a remote that reports or one
that does not (`PushAssumption`: no name is both a branch and a tag, only branches have
tracking refs, the first commit is a commit, and the markers are not):

| Theorem | States |
|---|---|
| `Invariant` | `Spec => []PInv` |
| `TypeCorrect` | `Spec => []TypeOK` |
| `VerdictsTrue` | `Spec => []TrueVerdict` |
| `WorkKept` | `Spec => NoLostWork` |
| `UpstreamsEarned` | `Spec => UpstreamWentThrough` |

`NoLostWork` speaks of the moment the remote takes an update, which may be long
after the call that sent it has ended. So the licence has to be with the update:
`Flying(u)` says of every update in flight that it is licensed by what it
carries, and, of a live one, that its client waits for it and that it is just
what the client's locals would send (`Update`). A licence is earned in two steps
that must agree: `Settling(c)` says that what `SettleLeases` and `ApplyRules`
left open is either covered by a lease that expects the advertised value, or
asked for plainly or by force. `Reported(c)` ties reports to updates: while a
client waits each accepted ref is still under way or has its report, a report
"ok" is a ref the remote took, and `TrueVerdict` follows where `Settle` reads
the reports off. None of these is inductive without the others.

### Octopus merge

`OctopusProofs`, for *any* paths, any pairs of HEAD's tree and a merge's
result, any sparse rules, and any number of throws and edits
(`OctopusAssumption`: the result gives each path content, nothing or a conflict):

| Theorem | States |
|---|---|
| `Invariant` | `Spec => []IInv` |
| `FailuresTakenBack` | `Spec => []FailureChangesNothing` |
| `MergesConcludable` | `Spec => []Concludable` |
| `MergesCheckedOut` | `Spec => []MergeCheckedOut` |
| `ChangesSurvive` | `Spec => []LocalChangesSurvive` |
| `SparseWhole` | `Spec => []SparseAgain` |

The five properties are about the end of the call and say nothing before it.
`IInv` (in `OctopusCheckout`) says what each phase may count on:

* `Preflight`: the index was HEAD's, and no path the merge changes held anything
  but HEAD's content or nothing;
* `Progress`, of every path: `Plan(p)`, that a changed path is left to exactly
  one of the four phases (outside, safe, forced, entry only); `IndexOf(p)`, that
  its entry is the merge's once its phase is over (`Entered`) and HEAD's before, with the
  skip-worktree bits that go with it; `DiskOf(p)`, the same of the work tree
  while nobody edits; `Moved(p)`, that what the sparse rules wrote or removed is
  nothing the merge changes;
* `Recorded`: the merge state is whole after the conflicts are in the index and
  absent before, and the outcome is set where HEAD would not move.

There is a lemma for each phase (`RemoveOutsidePath` … `HidePath`) that it keeps
the four parts for one path. The rollback is then a matter of two lemmas.
`BackRestores`: in a changed path what was there was HEAD's content, which the
snapshot's index still has, or nothing, so writing the one and removing the
other restores it, and the rest was not touched. `UndoneRestores`: a path the
sparse rules wrote held nothing and one they removed held HEAD's content, so
the undo restores those; it needs `Moved`, as otherwise it would act on the
paths the rollback has just put back. `Ends` puts together, for every step that
ends the call, which of the three ways it ends in: `TakenBack`,
`LeftToConclude` or `AllThere`.

About `OctopusHeads`, for *any* history, heads and parents (`HeadsAssumption`):

| Theorem | States |
|---|---|
| `HeadsInvariant` | `HeadsSpec => []HeadsInv` |
| `HeadsEnough` | `HeadsSpec => []HeadsReduced` |
| `MergedThroughout` | `HeadsSpec => []MergedSoFar` |
| `ParentsRight` | `HeadsSpec => []HistoryKept` |

`HeadsInv` (in `OctopusHeads`) adds to the three properties the types, `Ancestry` (what a commit
reaches, those it reaches reach no more, and none of it is later) and
`NoneTaken`, how the loop begins. That dropping every head another one reaches loses nothing
(`RemainingSuffice`) needs an argument: of the heads given that reach a commit
take the latest, and its first mention; no other head reaches that one, and if HEAD does,
HEAD reaches the commit. That octopusMerge finds its next head in the order given
(`NextHeadFound`) rests on `Least`, from the well-foundedness of the library's subset
order. `ConcludeStep` is where minimality of
the parents comes from: among the heads that did not move from `HeadsReduced`, between
them and HEAD from the descendant test `conclude` makes.

### Rebase

`RebaseProofs`, for *any* number of commits on the branch, any part of them that
upstream has already, and any number of calls, in any worlds (`RebaseAssumption`):

| Theorem | States |
|---|---|
| `Invariant` | `Spec => []IInv` |
| `InOrderThroughout` | `Spec => []ReplayedInOrder` |
| `MovesOnce` | `Spec => BranchMovesOnce` |
| `OthersKept` | `Spec => ElsewhereKept` |
| `WorkStays` | `Spec => [](Tidy(world) => WorkKept)` |
| `AllApplied` | `Spec => [](Tidy(world) => EveryOperationApplied)` |

The first four hold whatever happens. `Tidy` excludes the worlds in which the caller
stages other changes *and* an operation is refused or a process dies: there
`rebaseContinue` commits what is staged in the operation's place (see
[above](#where-the-code-and-its-documents-disagree)), and the last two properties
are false. The run's worlds are all tidy. The parts of `IInv` (in `Rebase`; TLC
agrees with it on the run's instance), beside `TypeOK`:

* `Staged`: the index has HEAD's changes, and beyond them only the caller's and
  those of the operation paused at; none when the next one is applied;
* `Replaying`: while the rebase goes on HEAD is detached and upstream is behind
  it; what HEAD was at first (`orig`) is in upstream or in the operations; the branch is
  where it was, but for what came from elsewhere;
* `InOrder`: HEAD and the branch are in the branch's order, and no commit
  HEAD has is later than an operation still to be applied (`NotLater`). Order alone is not
  inductive: it is this bound that the next commit keeps. It includes the operation paused at, whose commit
  may be there already if the process died before the next `git_rebase_next`;
* `StaysGone`: a change the branch has not, or one from elsewhere, is in no
  other history, so a return to `orig` does not bring back or repeat one;
* in tidy worlds, `WorkKept` itself and `Applied`: the operations up to the one paused
  at are in HEAD or were given up. `Behind` says whether the one paused at is
  among them, which depends on how far the call has come;
* `Paused`: the operation paused at is in conflict, is in the index, or, where a
  refusal or a death came before its changes were merged, the index is HEAD's. It is
  what `rebaseContinue` relies on when it commits the index as that
  operation, and what other staged changes break; `Tidied`: the index is HEAD's
  wherever an operation is applied.

Each part has a lemma for each action, or for each group of actions that change the
same variables. `AllApplied` then follows from `Applied` where the call ends, `WorkStays` and
`InOrderThroughout` are conjuncts, and the two action properties follow from `Replaying`,
which says where `Finish` and the aborts put the branch.

### Merge and cherry-pick

`MergingProofs`, for *any* processes, targets, fast-forward modes and worlds, any
number of calls and commits, beside the five that found the history
(`MergingAssumption`: the processes are finitely many and named apart from the
changes, the targets are commits 3 to 5; a world names processes, operations,
targets and modes there are):

| Theorem | States |
|---|---|
| `Invariant` | `Spec => []IInv` |
| `TypeCorrect` | `Spec => []TypeOK` |
| `NothingTakenBack` | `Spec => []NothingReverted` |
| `MergesRecorded` | `Spec => []MergeRecorded` |
| `MergesConcludedOnce` | `Spec => []ConcludedOnce` |
| `BranchGrows` | `Steady => (Spec => TipGrows)` |

`Steady` is a condition on the worlds: each has one process, or asks for no
fast-forward and no `cherryPickAbort`. It is what the run's worlds are, and all
that can be said: with two processes either call drops a commit (see [above](#merge-and-cherry-pick)). The parts of `IInv` (in `Merging`; TLC agrees with it on the run's
instance), beside `TypeOK`, `ConcludedOnce` and the founding commits:

* `History`: a commit's past and parents are commits before it;
* `Working(p)`: what a call names is a target, and a `parent` it read is a commit
  there is; `OnlyRecords`: in the worlds without those two calls no process is about
  to move HEAD other than by a new commit;
* `Held`, for one process: the index has all of HEAD's changes, and with its
  conflicts and what resolutions left out all of MERGE_HEAD's; HEAD has all of its
  past's. A commit of the index then takes nothing back, whichever call
  makes it, after whatever pauses and deaths (`HeldByCommit`);
* `Staged(p)`: the tree and the parent a call has read are still those of the
  index and HEAD, and the second parent is still MERGE_HEAD. With several processes this
  is what fails, and commits are taken back;
* `Merged(p)`: a change of a diverged branch that is in the index is HEAD's or
  the merge's in progress: `Fits`, the check git_merge makes of the index, is
  what this rests on;
* `Pending(p)`: MERGE_HEAD is not behind HEAD, but for the moment before the
  cleanup. It is what a death at that moment breaks, and `ConcludedOnce` with it.

`ForwardsTo4` says that the one target a process alone can fast-forward to is
ahead of HEAD and has its changes; a new commit is ahead of all of them.

### Staging and the index

The first part of `IndexAndTagsProofs`, for *any* handles, paths, contents and flags and any
number of calls (`IndexAssumption`: the markers are not among the handles or
contents):

| Theorem | States |
|---|---|
| `Invariance` | `Spec => []IInv` |
| `FailedMarksDropped` | `Spec => []NoFailedMark` |
| `FlagsUpdatesExact` | `Spec => FlagsChangeTheirBit` |

Neither property is inductive. What a flags update commits is right because of
what it read, and what it read is still on disk because of the lock; so `IInv`
(in `IndexWriters`, TLC agrees with it on the run's instance) has, beside
`TypeOK`:

* `LockHeld`: a call that is where the lock is held has it (`OwnLock`: its own
  steps; `LockMoves` and `HandleFrame`: everybody else's);
* `ReadsDisk`: after its read, a flags update's memory is `disk`, and after its
  mark, `disk` with the one bit changed. `DiskMoves` says the index file changes
  only in a step of the handle with the lock, so nobody else's step breaks it;
* `MarksAsked`: the cached index of a handle has only bits that were asked for,
  except between the mark and the end of the failing call. This is what `Write`
  needs, which writes any cached index over the file, and the reason the
  failing call has to read the index again before it ends (`index_flags.c:62`).

`FlagsUpdatesExact` is then `ReadsDisk` at the commit, `NoFailedMark` a conjunct.

### Fetch

The second part of `IndexAndTagsProofs`, for *any* tags, objects, refspecs and
order of the remote's refs, and any number of changes by other processes
(`FetchAssumption`: the branch is no tag and the marker no object, the remote
advertises each ref once, and a fetch that follows tags is not one of all tags
and has a refspec that stores something, as `Repository+Clone.swift:308` asks):

| Theorem | States |
|---|---|
| `FetchInvariant` | `FetchSpec => []FetchInv` |
| `RulySettled` | `FetchSpec => [](Ruly(world) => TagsSettled)` |
| `HeadTaken` | `FetchSpec => []HeadNamesTaken` |
| `OthersUntouched` | `FetchSpec => OthersKept` |

`TagsSettled` is not true of every fetch. `Ruly` leaves out three kinds, and the
run's fetches are of none of them: the one that `fetch_clobber` refutes; a fetch that
follows tags and, beside other refs, takes one of them to another name only; and
one that follows tags and, beside other refs, asks for one that a negative refspec
excludes, under its own name too (both in the table of disagreements). `FetchInv` (in `FetchTags`; TLC agrees with it on the run's instance) says, of a
fetch nobody interferes with, how far each tag has come:

* `Coming`, while libgit2 goes through refspecs and refs: a tag is as it was or
  as the one ref taken to it, a followed one is absent or the remote's; and what
  had its turn (`Passed`) has come, by force or because the tag was not there.
  What libgit2 may do to a tag it should not move stays open: that is for
  settling. `OneSource` is what makes the turns independent of their order;
* `Fetched`, once they are through: a tag is right (`ByRules`), unless it is
  excluded under `--tags` (`Overrun`), was there and no forced refspec moves it
  (`Stays`), or is still to be dropped. `DroppedNew`: what is dropped was not there;
* `Settling`: a tag is right, or the turn of the ref it waits for is to come, and
  `refused` has the clobbered ones whose turn is over. That `before` still holds what
  the tags were is `Begun`.

`ComingTip` and `AllComes` are libgit2's two passes, `AllCame` their end,
`DropStep`, `ExcludedRight`, `KeptOnes` and `SettlingTurn` what GitKit does after them.
`KeptOnes` is where the code's condition (a tag some mapping of the ref stores
into unforced, and none by force) meets the rules': it puts back the tags
that stay and take this ref, and no others.

`Listed` and `FollowedOnly` hold whatever other processes do; `HeadTaken`
and `OthersUntouched` rest on them. That each tag is listed once comes from `OnlyThose`: a
filtered sequence has the members asked for, each once if the sequence did.

### SSH transport

The second part of `ProcessReapProofs`, for *any* finite sets of threads and addresses and any
number of connections (`SSHAssumption`: finiteness is for TLC alone; the marker
is no thread or address):

| Theorem | States |
|---|---|
| `SSHInvariance` | `SSHSpec => []SSHInv` |
| `OwnChannelReached` | `SSHSpec => []ReachesOwnChannel` |
| `ChannelsClosed` | `SSHSpec => []NoChannelLeftOpen` |
| `SchemesAllOrNone` | `SSHSpec => []SchemesWhole` |

A stream finds its channel by an address, so that it is its own depends on who
has the address. `SSHInv` (in `SSHTransport`; TLC agrees with it) has, beside `SSHTypeOK`:

* `AddressesOwned`: an address belongs to one thread from its allocation to the
  end of its free. This is where the order of the two halves of a free enters:
  the context is removed while the address is still the thread's;
* `ContextsOwned`: what is registered under a thread's address is that thread's,
  with a channel exactly where the program counter says there is one;
* `ChannelsHeld`: a channel that is open is the one in the context of the
  thread it was opened for. Another thread's reset closes only its own, and a
  second listing, which would lose one, is reached only through a reset;
* `SchemesTaken`: between operations the schemes are all GitKit's or none, and
  during a registration those before the next one.

The lemmas split along the same line: what a step does to its own thread's part,
what it leaves of the others', and that registration and operations do not
disturb each other (`ServeKeeps` among them: a service, once found, changes
nothing that the invariant names).

### Process reaping

`ProcessReapProofs`, for *any* threads, connections, process numbers, grace
periods and worlds (`ReapAssumption`: `Nobody` is not a thread, and the threads
are finitely many, which only `SignalsOwn` needs):

| Theorem | States |
|---|---|
| `Invariance` | `Spec => []OwnInvariant` |
| `ChildrenGone` | `Spec => []NoChildLeft` |
| `StrikesHeld` | `Spec => [](OwnInvariant /\ StrikeInvariant)` |
| `SignalsOwn` | `Spec => OwnChildStruck` |

`OwnInvariant` says that a thread has at most the child its `git_process` names,
and none at the end of a reap: the reap is left only with an answer of the
kernel that the child is gone. A start comes only where there is none
(`OwnKeeps`), and no step of another thread, of a child or of the host makes one
(`OthersKeep`, `KernelKeeps`), though it may take one away.

That a signal does not reach a stranger is not the kernel's doing: the reap
strikes a number, and a number whose child was reaped may be handed out again
while the `git_process` still has it (`process_patched.c` keeps it for the
second reap). What protects it is that numbers are handed out in turn.
`StrikeInvariant` counts: the numbers from a thread's own on to the last handed
out, with those that other threads' children have (`Taken(t)`), are at most those
handed out since the connection was started (`passed[t]`) and one for each other
thread, whose child may have been there before. At the start only these have one
(`OwnStart`); a hand-out skips a number only because it is taken, and adds one to
each side (`OthersStart`). So until as many have been handed out in the time of
one connection as there are numbers, less one for each thread, its own is not
next (`NotYetItsTurn`). The bound is on each connection by itself: a program that
fetches for ever stays within it while each of its connections does. Past it
(`round`) the theorem says nothing, and nothing of the kind holds, as the limits
tell. And where only the reap waits for children, a child that has been polled as
there is still there, dead or alive, when it is struck (`StillThere`).

### Include policies

`IncludePoliciesProofs`, for *any* threads, addresses, payloads, depths of
callbacks within callbacks and worlds (`IncludeAssumption`: the marker of the
default's slot is no address and that of the missing mutex no thread):

| Theorem | States |
|---|---|
| `Invariant` | `Spec => []IInv` |
| `OneThreadInside` | `Spec => []OneInside` |
| `PayloadsAlive` | `Spec => []PayloadsKept` |
| `PolicyOfOwner` | `Spec => PolicyInForce` |

`PolicyOfOwner` speaks of opens, reads, sets and closes at any depth of
callbacks, but for the reads that borrow an open's policy (`Borrows`).
`FoundRightful` says what these get: the policy of the innermost open around
them that has one. `FoundOwed` then has the repository's own open be that one,
since nothing but its read stands on it (`OneUser`).

The parts of `IInv` (in `IncludePolicies`), beside `TypeOK` and `OneInside`
itself:

* `Nested`: which calls may stand on which on a thread's stack, and what each
  has found out;
* `OneMutex`: whoever waits for the mutex or is inside has the one that was
  published. A thread that made one and lost the race has thrown it away by
  then, which is why two threads are never inside two mutexes;
* `OneUser`: an address is in the hands of one thread, from its open to the
  step of the close that frees it, and of nothing below or beside the open or
  the close that has it; `OneEntry`: the table has one entry of each;
* `AsGiven`: the slot of a live repository holds what it was last given, and
  that of an address that is free holds nothing. Here the order in `deinit`
  enters: the policy goes before the address does;
* `Stacked`: a thread's policy is that of its innermost open that has one, and
  each open keeps the one to restore;
* `Counted`: the references to a payload are as many as the slots that hold it
  and the calls that do (`Held`: a call that set it, an open, a read while its
  callback runs). Each action moves a reference from one set to another or
  adds one to a set and to the count.

`PayloadsAlive` needs all of `Stacked` and `Counted`: a thread's policy is not counted on
its own, it lives because the open it belongs to holds it.

### Only model-checked

Liveness (`CloseReturns`) is out of the prover's reach. Every other property of a
run is a theorem, `TagsSettled` of the fetches that are `Ruly`.

## Limits

* All: an operation of libgit2 on one file under its lock file is one step, as
  libgit2 does it; objects are never missing; disk errors appear as throws only
  where a module says so.
* `AmendCommit`: messages, signatures and dates are not in a commit; a commit
  is its parent, what it amends and its tree. A staging is one step between the
  calls, written or failed; its own steps are `IndexWriters`'.
* `Push`: the remote is git's receive-pack: it compares the old value it is sent,
  and deletes unseen what it is told was not there; the transport to a local path,
  which compares nothing, is not modelled. Refspecs are given expanded, one per
  destination, and a short name is short for one ref (one that is short for
  several is refused).
* `OctopusCheckout`: no other process writes the *index* during the merge
  (listed as a hazard); modes, links, submodules, files in the way of
  directories and ignored files are left out; rolling back does not itself fail;
  a file the sparse rules would remove and cannot is not modelled, nor are
  assume-unchanged entries, which the checkout treats as the skip-worktree ones.
* `OctopusHeads`: refs move between `mergeHeads` and `octopusMerge`, each of which
  reads a ref once; what HEAD does later is `OctopusCheckout`'s, and so are conflicts;
  merging two trees is the union of their changes.
* `Rebase`: `onto` is the upstream; a conflict is resolved with the change kept,
  dropped, or left; libgit2's init, finish and abort are single steps; nobody
  else moves the branch while HEAD names it; the pick between calls applies
  cleanly; only `reset` hard to HEAD.
* `Merging`: `git_merge` and `git_cherrypick` are single steps (they hold
  `index.lock`), so are `add` and `commitDetailed`; MERGE_MSG and authors are
  left out; one head is merged at a time.
* `IndexWriters`: an entry is content and flags; modes, stages, ignore rules and
  time stamps are left out, and so is what `git_index_write` does to entries as
  old as the index.
* `FetchTags`: symbolic tags, object IDs as sources, pruning and refs outside
  `refs/tags/` are left out; no two refs go to one tag, as git asks.
* `SSHTransport`: URLs are not parsed; reads and writes only look their channel
  up; a listing that throws changes nothing and is left out. `register` and
  `unregister` are called while no connection is under way, as their contract
  asks.
* `ProcessReap`: `OwnChildStruck` and `CloseReturns` say nothing of what comes
  after the numbers have come round in the time of one connection, from the start
  of its `ssh` to its free: a long connection on a busy machine, not the close
  alone. The model goes on from there, and in it the second reap takes the child
  of another connection for its own and strikes it, and the last wait is for a
  child that another connection keeps open.
* `IncludePolicies`: the paths a callback is told, and failures to allocate, are
  left out; a handle is used by one thread at a time, as its documentation asks,
  and is not released while a call on the same thread has it in hand.

## Not modelled

* The headers of libgit2 under `CGitKit/include`, the largest part of the C files
  by far, are prototypes, options and comments: no statement of theirs runs, and
  what the functions do is libgit2's. Where GitKit relies on it, it is modelled
  from the use and marked external.
* `Stash` and `Checkout`: one libgit2 call each, but for `stashClear` (a hazard)
  and the HEAD a checkout sets last.
* `Worktrees`, the expansion of push refspecs and the three-way merge of trees
  in `OctopusMergeTrees`: left for later, see the plan.
* Reading, rendering, text conversion, patterns, signatures, config and
  submodule calls: sequential functions of their input or single libgit2 calls;
  nothing happens in an order that could go wrong, and the tests reach them.

## Plan

In order of what is at stake. One run for what a module promises; runs of one
module are joined.

1. `PushRefspecs` (patterns, short names, duplicate destinations) composed with
   `Push`; `TrivialMerge`, `OctopusMergeTrees` against git's read-tree table.
2. `Worktrees`: names and branches looked up before they are taken; the path
   forms of `reset` and `checkout` in `IndexWriters`.

## Running it

```
tlc -workers 2 -config MCPush.cfg MCPush.tla
tlapm AmendCommitProofs.tla
tlapm IncludePoliciesProofs.tla
tlapm IndexAndTagsProofs.tla
tlapm MergingProofs.tla
tlapm OctopusProofs.tla
tlapm ProcessReapProofs.tla
tlapm PushProofs.tla
tlapm RebaseProofs.tla
```

The longest runs, with two workers, are `push` and `amend_pair`, at
two and a half minutes each, then `process_reap` and `merging`, at one and a half to
two; the others take seconds to a minute. `tlapm` takes five to six minutes
for `IncludePoliciesProofs`, three for `AmendCommitProofs` and `IndexAndTagsProofs`,
one to one and a half for each of the others.
