----------------------------- MODULE AtomicCommits -----------------------------
(***************************************************************************)
(* What amendDetailed promises whoever shares the repository: a branch (or *)
(* a detached HEAD) moves in one step, from the commit it holds to one     *)
(* that follows or replaces exactly that commit; and a replacement records *)
(* the index file as it is at that moment, or what a handle made of that   *)
(* file and has not written.  No commit is overwritten unseen, no stale    *)
(* index is amended in.                                                    *)
(***************************************************************************)
EXTENDS Naturals, Sequences

CONSTANTS Branches, Trees, Handles

VARIABLES objects, ref, head, index,
          draft  \* what each handle holds, and the index file it has it from

avars == <<objects, ref, head, index, draft>>

Indexes == Trees \cup {"unmerged"}
Nothing == [file |-> "notread", holds |-> "notread"]
Copy(i) == [file |-> i, holds |-> i]

AInit ==
    /\ \E t \in Trees :
        /\ objects = << [parent |-> 0, amends |-> 0, tree |-> t] >>
        /\ index = t
    /\ head \in Branches
    /\ ref = [r \in Branches \cup {"HEAD"} |-> IF r = head THEN 1 ELSE 0]
    /\ draft = [h \in Handles |-> Nothing]

\* Commits are only added; one that no ref holds yet is nobody's concern.
Add == \/ objects' = objects
       \/ /\ Len(objects') = Len(objects) + 1
          /\ objects' = Append(objects, objects'[Len(objects')])

WriteObject == Add /\ UNCHANGED <<ref, head, index, draft>>

\* A new commit on top of r's.
Extend(r) ==
    /\ Add
    /\ \E c \in 1..Len(objects') :
        /\ objects'[c].parent = ref[r]
        /\ objects'[c].amends = 0
        /\ ref' = [ref EXCEPT ![r] = c]
    /\ UNCHANGED <<head, index, draft>>

\* r's commit replaced by one with the same parent and the tree of a draft of
\* the index file there is.
Replace(r, h) ==
    /\ ref[r] # 0
    /\ draft[h].file = index
    /\ \E c \in 1..Len(objects) :
        /\ objects[c].amends = ref[r]
        /\ objects[c].parent = objects[ref[r]].parent
        /\ objects[c].tree = draft[h].holds
        /\ ref' = [ref EXCEPT ![r] = c]
    /\ UNCHANGED <<objects, head, index, draft>>

\* HEAD names another branch, new or not, or is detached at its commit.
Switch ==
    /\ head' \in (Branches \cup {"HEAD"}) \ {head}
    /\ \/ UNCHANGED ref
       \/ /\ head' = "HEAD" \/ ref[head'] = 0
          /\ ref' = [ref EXCEPT ![head'] = ref[head]]
    /\ UNCHANGED <<objects, index, draft>>

\* The index file is written, by a handle or by others.
Stage ==
    /\ index' \in Indexes
    /\ \/ UNCHANGED draft
       \/ \E h \in Handles : draft' = [draft EXCEPT ![h] = Copy(index')]
    /\ UNCHANGED <<objects, ref, head>>

\* A handle reads the file, edits what it has, or is closed.
Draft(h) ==
    /\ \E f \in {index, draft[h].file}, i \in Trees \cup {index} :
        draft' \in {[draft EXCEPT ![h] = [file |-> f, holds |-> i]],
                   [draft EXCEPT ![h] = Nothing]}
    /\ UNCHANGED <<objects, ref, head, index>>

ANext ==
    \/ WriteObject
    \/ \E r \in Branches \cup {"HEAD"} :
        Extend(r) \/ \E h \in Handles : Replace(r, h)
    \/ Switch
    \/ Stage
    \/ \E h \in Handles : Draft(h)

ASpec == AInit /\ [][ANext]_avars

=============================================================================
