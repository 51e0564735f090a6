----------------------------- MODULE FetchTags -----------------------------
(***************************************************************************)
(* The tags of a fetch: which ones libgit2 moves, by the refspecs as       *)
(* remote_patched.c has it match them, and how Repository.fetch settles    *)
(* them by git's rules afterwards, FETCH_HEAD included                     *)
(* (Repository+Clone.swift, Repository+FetchTags.swift).                   *)
(*                                                                         *)
(* The remote advertises a branch and tags.  A refspec takes one of them   *)
(* to a local tag; negative ones exclude some; `--tags` adds a refspec for *)
(* all of them, and otherwise tags may be followed.  As git asks, no two   *)
(* refs go to one tag.  Another process changes tags meanwhile.  Symbolic  *)
(* tags, object IDs as sources and the refs outside refs/tags/ are left    *)
(* out.                                                                    *)
(***************************************************************************)
EXTENDS Naturals, Sequences, Functions

CONSTANTS
    Tags,       \* the names of tags, model values
    Main,       \* the branch the remote has, a model value
    Advertised, \* Main and Tags in the remote's order
    Objects,    \* what a ref can point at, model values
    NoObject,   \* a ref that is not there, a model value
    Worlds,     \* the fetches: see World
    MaxChanges  \* bound: what another process does

Refs == Tags \cup {Main}
Refspec == [from : Refs, to : Tags, forced : BOOLEAN]

\* specs: the refspecs, each [from, to, forced]; excluded: the tags negative
\* ones exclude; all, follows: the tag option; reached: the tags that point
\* into what the repository has once the fetch is in.
World(specs, excluded, all, follows, reached) ==
    [specs |-> specs, excluded |-> excluded, all |-> all,
     follows |-> follows, reached |-> reached]

ASSUME FetchAssumption ==
    /\ Main \notin Tags /\ NoObject \notin Objects
    /\ Advertised \in Seq(Refs) /\ Range(Advertised) = Refs /\ IsInjective(Advertised)
    /\ \A w \in Worlds :
        /\ w.specs \in Seq(Refspec) /\ w.excluded \subseteq Tags /\ w.reached \subseteq Tags
        /\ w.all \in BOOLEAN /\ w.follows \in BOOLEAN
        /\ w.follows => ~w.all /\ w.specs # << >>
    /\ MaxChanges \in Nat

VARIABLES
    world,    \* the fetch, chosen once
    remote,   \* what the remote advertises, and nothing of what it has not
    first,    \* the tags as they were when the fetch began
    tags,     \* the tags as they are
    at,       \* where the fetch is
    spec, ref, \* the refspec and the advertised ref it is at
    before,   \* tagsBefore: the tags as the fetch read them
    created,  \* the remote refs whose lines say [new tag]
    refused,  \* the tags reported as not clobbered
    out,      \* the tags whose lines go from FETCH_HEAD
    head,     \* FETCH_HEAD: the refs its lines name
    changes   \* how often another process changed a tag

fetchVars == <<world, remote, first, tags, at, spec, ref, before, created,
               refused, out, head, changes>>
fetch == <<world, remote, first>>

\* The members of a sequence that are in S, in their order.
Only(s, S) ==
    LET kept[n \in 0..Len(s)] ==
            IF n = 0 THEN << >>
            ELSE IF s[n] \in S THEN Append(kept[n - 1], s[n]) ELSE kept[n - 1]
    IN  kept[Len(s)]

Specs == Range(world.specs)
Excluded(r) == r \in world.excluded

\* Where the refspecs and `--tags` take a ref, exclusion apart.
Sources(t) ==
    {s.from : s \in {s \in Specs : s.to = t /\ remote[s.from] # NoObject}}
        \cup {r \in {t} : world.all /\ ~Excluded(t) /\ remote[t] # NoObject}

FetchInit ==
    /\ world \in Worlds
    /\ remote \in [Refs -> Objects \cup {NoObject}]
    /\ remote[Main] # NoObject
    /\ \A t \in Tags :
        \A q, r \in Sources(t) \cup {u \in {t} : world.follows /\ remote[t] # NoObject} : q = r
    /\ first \in [Tags -> Objects \cup {NoObject}]
    /\ tags = first
    /\ at = "read" /\ spec = 1 /\ ref = 1
    /\ before = first
    /\ created = {} /\ refused = {} /\ out = {}
    /\ head = << >>
    /\ changes = 0

(***************************************************************************)
(* git_remote_fetch (external), with remote_patched.c's matching           *)
(***************************************************************************)
\* watchesTags: only a fetch that cannot force every tag reads them.
Watches == world.all \/ \E s \in Specs : ~s.forced

ReadTags ==
    /\ at = "read"
    /\ before' = IF Watches THEN tags ELSE [t \in Tags |-> NoObject]
    /\ at' = "fetch"
    /\ UNCHANGED <<fetch, tags, spec, ref, created, refused, out, head,
                   changes>>

\* gitkit_refspec_src_matches of one of the fetch's own refspecs.
SrcMatches(s, r) == s.from = r /\ ~Excluded(r)

\* Mutant: the probe claims every tag before the refspec gets a look.
ProbeClaims(s, r) == r \in Tags

\* ... of the tag auto-following probe: it gives way to the refspec being
\* applied when that one maps the tag itself.
ProbeMatches(s, r) == r \in Tags /\ s.from # r

\* update_one_tip: an unforced refspec moves some tags and leaves others.
MayMove(t, forced, o) ==
    \/ tags' = [tags EXCEPT ![t] = o]
    \/ tags[t] # NoObject /\ ~forced /\ UNCHANGED tags

UpdateTip ==
    /\ at = "fetch"
    /\ spec <= Len(world.specs)
    /\ LET s == world.specs[spec]
           r == Advertised[ref]
           followed == world.follows /\ ProbeMatches(s, r)
       IN  /\ IF remote[r] = NoObject THEN UNCHANGED tags
              ELSE IF followed
              THEN IF tags[r] = NoObject
                   THEN tags' = [tags EXCEPT ![r] = remote[r]]
                   ELSE UNCHANGED tags
              ELSE IF SrcMatches(s, r) THEN MayMove(s.to, s.forced, remote[r])
              ELSE UNCHANGED tags
           /\ created' = created \cup
                {c \in {r} : \E t \in Tags :
                    tags[t] = NoObject /\ tags'[t] # NoObject}
    /\ IF ref < Len(Advertised) THEN ref' = ref + 1 /\ UNCHANGED spec
       ELSE ref' = 1 /\ spec' = spec + 1
    /\ UNCHANGED <<fetch, at, before, refused, out, head, changes>>

\* FETCH_HEAD as libgit2 writes it: the tags first, and again for the
\* refspecs that take them.
FetchedHead ==
    LET listed == {t \in Tags : remote[t] # NoObject
                                /\ (world.all \/ (world.follows /\ t \in created))}
        applied == {s \in Specs : remote[s.from] # NoObject /\ ~Excluded(s.from)}
        taken == Only(world.specs, applied)
    IN  Only(Advertised, listed) \o [i \in DOMAIN taken |-> taken[i].from]

\* The pass over all tags, which negative refspecs do not stop.
UpdateAllTags ==
    /\ at = "fetch"
    /\ spec = Len(world.specs) + 1
    /\ LET r == Advertised[ref]
       IN  IF world.all /\ r \in Tags /\ remote[r] # NoObject
           THEN MayMove(r, FALSE, remote[r]) ELSE UNCHANGED tags
    /\ IF ref < Len(Advertised)
       THEN ref' = ref + 1 /\ UNCHANGED <<at, head>>
       ELSE /\ ref' = 1
            /\ at' = IF world.follows THEN "drop" ELSE "settle"
            /\ head' = FetchedHead
    /\ UNCHANGED <<fetch, spec, before, created, refused, out, changes>>

\* An error of the fetch is thrown at once: what it moved stays moved.
Fail ==
    /\ at = "fetch"
    /\ at' = "failed"
    /\ UNCHANGED <<fetch, tags, spec, ref, before, created, refused, out,
                   head, changes>>

(***************************************************************************)
(* dropUnfollowableTags                                                    *)
(***************************************************************************)
\* A new tag no refspec asked for.
Followed == {t \in created \cap Tags : \A s \in Specs : s.from # t}

Unfollowable == Followed \ world.reached

DropTag(t) ==
    /\ at = "drop" /\ t \in Unfollowable \ out
    /\ tags' = [tags EXCEPT ![t] = NoObject]
    /\ out' = out \cup {t}
    /\ UNCHANGED <<fetch, at, spec, ref, before, created, refused, head,
                   changes>>

\* removeFetchHeadTags
DropEnds ==
    /\ at = "drop" /\ Unfollowable \subseteq out
    /\ at' = "settle" /\ out' = {}
    /\ head' = Only(head, Refs \ Unfollowable)
    /\ UNCHANGED <<fetch, tags, spec, ref, before, created, refused, changes>>

(***************************************************************************)
(* settleFetchedTags                                                       *)
(***************************************************************************)
\* TagMapping.tags(for: r): where the refspecs take r, and whether by force.
Mapped(r) ==
    IF Excluded(r) THEN {}
    ELSE {[tag |-> s.to, forced |-> s.forced] :
              s \in {s \in Specs : s.from = r}}
         \cup {[tag |-> t, forced |-> FALSE] :
              t \in {t \in {r} \cap Tags : world.all}}

\* The refs an explicit refspec stores into t from.
ExplicitSources(t) ==
    {s.from : s \in {s \in Specs : s.to = t /\ remote[s.from] # NoObject
                                   /\ ~Excluded(s.from)}}

\* Mutant: whatever was read before the fetch is put back.
WatchedTags(r) == {t \in Tags : <<t, TRUE>> \notin
                       {<<m.tag, m.forced>> : m \in Mapped(r)}}

\* The tags r goes to that no forced refspec lets it move.
Unforced(r) ==
    {m.tag : m \in {m \in Mapped(r) :
                       \A n \in Mapped(r) : n.tag = m.tag => ~n.forced}}

\* restoreTag, for each tag of T: back as it was, or gone if it was not.
Restored(T) == [t \in Tags |-> IF t \in T THEN before[t] ELSE tags[t]]

SettleExcluded(r) ==
    /\ tags' = IF ExplicitSources(r) = {} THEN Restored({r})
               ELSE [tags EXCEPT ![r] =
                        remote[CHOOSE f \in ExplicitSources(r) : TRUE]]
    /\ out' = out \cup {r}
    /\ UNCHANGED refused

SettleMapped(r) ==
    LET kept == {t \in Unforced(r) : before[t] # NoObject} \ refused
    IN  /\ tags' = Restored(kept)
        /\ refused' = refused \cup {t \in kept : before[t] # remote[r]}
        /\ UNCHANGED out

Settle ==
    /\ at = "settle"
    /\ LET r == Advertised[ref]
       IN  IF remote[r] = NoObject THEN UNCHANGED <<tags, refused, out>>
           ELSE IF world.all /\ r \in Tags /\ Excluded(r)
           THEN SettleExcluded(r)
           ELSE SettleMapped(r)
    /\ IF ref < Len(Advertised) THEN ref' = ref + 1 /\ UNCHANGED at
       ELSE ref' = 1 /\ at' = IF world.all THEN "reorder" ELSE "done"
    /\ UNCHANGED <<fetch, spec, before, created, head, changes>>

\* Mutant: the excluded tags' lines stay.
AllListed == Only(Advertised, Tags \cap Range(head))

\* reorderFetchHeadForAllTags: each tag once, in the remote's order.
ListedTags == Only(Advertised, (Tags \cap Range(head)) \ out)

ReorderHead ==
    /\ at = "reorder"
    /\ head' = Only(head, Refs \ Tags) \o ListedTags
    /\ at' = "done"
    /\ UNCHANGED <<fetch, tags, spec, ref, before, created, refused, out,
                   changes>>

\* Another process creates, moves or deletes a tag.
Change(t, o) ==
    /\ at \notin {"done", "failed"} /\ changes < MaxChanges
    /\ o # tags[t]
    /\ tags' = [tags EXCEPT ![t] = o]
    /\ changes' = changes + 1
    /\ UNCHANGED <<fetch, at, spec, ref, before, created, refused, out, head>>

Fetch ==
    \/ ReadTags \/ UpdateTip \/ UpdateAllTags \/ Fail
    \/ \E t \in Tags : DropTag(t)
    \/ DropEnds \/ Settle \/ ReorderHead

FetchNext == Fetch \/ \E t \in Tags, o \in Objects \cup {NoObject} : Change(t, o)

FetchSpec == FetchInit /\ [][FetchNext]_fetchVars

----------------------------------------------------------------------------
\* git's rules for what a fetch does to tag t (settleFetchedTags' comment):
\* a tag that is there moves only when a forced refspec takes a ref to it,
\* and a followed one, which no refspec asks for, comes only if what it
\* points at is here.
Taken(t) == {r \in Sources(t) : ~Excluded(r)}
Forced(t) == \E s \in Specs : s.to = t /\ s.forced /\ s.from \in Taken(t)
Clobbered(t) ==
    /\ ~Forced(t) /\ first[t] # NoObject
    /\ \E r \in Taken(t) : remote[r] # first[t]
ByRules(t) ==
    IF Clobbered(t) THEN first[t]
    ELSE IF Taken(t) # {} THEN remote[CHOOSE r \in Taken(t) : TRUE]
    ELSE IF /\ world.follows /\ first[t] = NoObject /\ t \in world.reached
            /\ \A s \in Specs : s.from # t
    THEN remote[t] ELSE first[t]

Undisturbed == at = "done" /\ changes = 0

\* Whatever libgit2 moved and left, a fetch no other process interferes with
\* leaves every tag as git's rules have it, and reports as refused exactly
\* the ones the remote would have clobbered.
TagsSettled ==
    Undisturbed =>
        /\ \A t \in Tags : tags[t] = ByRules(t)
        /\ refused = {t \in Tags : Clobbered(t)}

\* Whatever other processes do, FETCH_HEAD names no tag that was dropped and
\* no ref that is excluded, but for tags that came by following all the
\* same, and of `--tags` each tag once, after the others.
HeadNamesTaken ==
    at = "done" =>
        /\ \A r \in Range(head) : /\ Excluded(r) => world.follows /\ r \in created
                                 /\ r \notin Unfollowable
        /\ world.all =>
              /\ \A t \in Tags : remote[t] # NoObject /\ ~Excluded(t) =>
                    \E i \in DOMAIN head : \A j \in DOMAIN head : head[j] = t <=> j = i
              /\ \A i, j \in DOMAIN head :
                    head[i] \in Tags /\ head[j] \notin Tags => j < i

Concerned(t) ==
    \/ \E s \in Specs : s.to = t
    \/ remote[t] # NoObject /\ (world.all \/ world.follows)

\* A tag no refspec takes a ref to, and that is neither followed nor
\* excluded, is left as another process last set it.
OthersKept ==
    [][Fetch => \A t \in Tags : ~Concerned(t) => tags'[t] = tags[t]]_fetchVars

----------------------------------------------------------------------------
(* The invariant the proofs rest on.                                        *)

FetchTypeOK ==
    /\ world \in Worlds
    /\ remote \in [Refs -> Objects \cup {NoObject}]
    /\ first \in [Tags -> Objects \cup {NoObject}]
    /\ tags \in [Tags -> Objects \cup {NoObject}]
    /\ before \in [Tags -> Objects \cup {NoObject}]
    /\ at \in {"read", "fetch", "drop", "settle", "reorder", "done", "failed"}
    /\ spec \in 1..(Len(world.specs) + 1) /\ ref \in DOMAIN Advertised
    /\ created \subseteq Refs /\ refused \subseteq Tags /\ out \subseteq Tags
    /\ head \in Seq(Refs) /\ changes \in 0..MaxChanges

\* No two refs go to one tag.
OneSource ==
    \A t \in Tags :
        \A q, r \in Sources(t) \cup {u \in {t} : world.follows /\ remote[t] # NoObject} : q = r

\* The fetches whose tags are settled.  Three kinds are not: an unforced refspec
\* takes a ref to a tag that `--tags` excludes; and, where tags are followed, a
\* tag that a refspec asks for beside other refs is asked for under another name
\* only, or is excluded by a negative refspec.  The latter two come by following
\* when another refspec is matched, and are not dropped, having been asked for.
Ruly(w) ==
    /\ w.all => \A s \in Range(w.specs) : s.to \in w.excluded => s.forced
    /\ w.follows => \A s, q \in Range(w.specs) :
           s.from \in Tags /\ q.from # s.from =>
               /\ s.from \notin w.excluded
               /\ \E p \in Range(w.specs) : p.from = s.from /\ p.to = s.from

\* Nothing has happened when the tags are read, and they are read as they were.
Begun ==
    /\ at = "read" => /\ spec = 1 /\ ref = 1 /\ created = {} /\ refused = {} /\ out = {}
                      /\ changes = 0 => tags = first
    /\ at = "fetch" => refused = {} /\ out = {}
    /\ at = "drop" => ref = 1 /\ refused = {} /\ world.follows
    /\ at # "read" /\ changes = 0 =>
            before = IF Watches THEN first ELSE [t \in Tags |-> NoObject]

\* A tag that came by following is the remote's, under its own name.
FollowedOnly ==
    \A t \in Followed : world.follows /\ remote[t] # NoObject

\* A tag that may come by following, and one a refspec may take nothing to.
Follows(t) ==
    /\ world.follows /\ remote[t] # NoObject /\ first[t] = NoObject
    /\ \A s \in Specs : s.from # t

\* An excluded tag that libgit2 moves all the same, and one there was that
\* no forced refspec moves: settling puts them right whatever they are.
Overrun(t) == world.all /\ Excluded(t) /\ remote[t] # NoObject
Stays(t) == ~Forced(t) /\ first[t] # NoObject /\ Taken(t) # {}

\* The i-th refspec has been matched with the k-th ref.
Passed(i, k) == i < spec \/ (i = spec /\ k < ref)

\* While libgit2 fetches: each tag is as it was or as the ref taken to it,
\* and the latter once that was its turn and it may move.
Coming ==
    /\ \A t \in Tags : ~Overrun(t) =>
        IF Follows(t) THEN tags[t] = IF t \in created THEN remote[t] ELSE NoObject
        ELSE tags[t] = first[t] \/ \E r \in Taken(t) : tags[t] = remote[r]
    /\ \A i \in DOMAIN world.specs, k \in DOMAIN Advertised : Passed(i, k) =>
        LET s == world.specs[i]
            r == Advertised[k]
        IN  /\ s.from = r /\ r \in Taken(s.to) /\ (s.forced \/ first[s.to] = NoObject)
                    /\ ~Overrun(s.to) => tags[s.to] = remote[r]
            /\ r \in Tags /\ Follows(r) => r \in created
    /\ \A k \in DOMAIN Advertised : Passed(Len(world.specs) + 1, k) =>
        LET t == Advertised[k]
        IN  world.all /\ t \in Tags /\ t \in Taken(t) /\ first[t] = NoObject =>
                tags[t] = remote[t]

\* Before the tags are settled: all but those it is for are as they should be.
Fetched ==
    \A t \in Tags :
        \/ Overrun(t) \/ Stays(t) \/ tags[t] = ByRules(t)
        \/ t \in Unfollowable \ out

\* What is dropped was not there.
DroppedNew == \A t \in Followed : first[t] = NoObject

SettledRefs ==
    IF at = "settle" THEN {Advertised[k] : k \in 1..(ref - 1)}
    ELSE IF at \in {"reorder", "done"} THEN Refs ELSE {}

\* While they are settled: a tag is right, or its turn is to come.
Settling ==
    /\ \A t \in Tags :
        \/ tags[t] = ByRules(t)
        \/ Overrun(t) /\ t \notin SettledRefs
        \/ Stays(t) /\ ~Overrun(t) /\ Taken(t) \cap SettledRefs = {}
    /\ refused = {t \in Tags : Clobbered(t) /\ Taken(t) \subseteq SettledRefs}

\* FETCH_HEAD has the tags of `--tags`, and of the others none it should not.
Listed ==
    /\ at \in {"drop", "settle", "reorder"} =>
        /\ \A r \in Range(head) : Excluded(r) =>
               (world.follows /\ r \in created) \/ (r \in Tags /\ Overrun(r))
        /\ world.all => \A t \in Tags : remote[t] # NoObject => t \in Range(head)
    /\ at \in {"settle", "reorder", "done"} =>
        /\ \A r \in Range(head) : r \notin Unfollowable
        /\ out = {t \in Tags : Overrun(t) /\ t \in SettledRefs}
    /\ at = "reorder" => world.all

FetchInv ==
    /\ FetchTypeOK /\ OneSource /\ Begun /\ FollowedOnly
    /\ Listed /\ HeadNamesTaken
    /\ Ruly(world) /\ changes = 0 =>
        /\ at = "fetch" => Coming
        /\ at = "drop" => Fetched
        /\ at \in {"fetch", "drop"} => DroppedNew
        /\ at \in {"settle", "reorder", "done"} => Settling
=============================================================================
