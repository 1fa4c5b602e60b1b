------------------------------- MODULE SkillSync -------------------------------
(***************************************************************************)
(* The mirror of the on-demand skills in .claude/skills                    *)
(* (SyncOnDemandSkills in internal/claudesdk/skillsync.go): each sync      *)
(* links the skills of the day, removes the links of retired ones that its *)
(* manifest names, and writes the manifest anew.  Between syncs the skill  *)
(* tree changes and people put things of their own into the slots;         *)
(* a sync may end at any step, with an error or a crash.                   *)
(***************************************************************************)
EXTENDS FiniteSets

CONSTANT Skills     \* skill names
ASSUME SkillAssumption == IsFiniteSet(Skills) /\ Skills # {}

Sources == {"here", "moved"}    \* where a skill's directory is

VARIABLES
    slots,      \* .claude/skills/<name>: absent, a directory, or a link to a source of
                \* the skill or to elsewhere
    manifest,   \* the links named in the manifest
    sources,    \* the tree: on-demand skills, and where each of them is
    sync,       \* the running sync: step, skills to link, names to keep, names linked and
                \* names to prune
    broken      \* whether a sync has ended before its manifest was written, could not
                \* read the last one, or has failed to prune

skillVars == <<slots, manifest, sources, sync, broken>>

NoSync == [pc |-> "idle", todo |-> {}, keep |-> {}, linked |-> {}, prune |-> {}]

SkillInit ==
    /\ slots = [k \in Skills |-> "absent"]
    /\ manifest = {}
    /\ sources \in [Skills -> Sources \union {"none"}]
    /\ sync = NoSync
    /\ broken = FALSE

--------------------------------------------------------------------------------
\* The skill tree changes: a skill is added, moved, or retired (no longer there,
\* no longer on demand, or not to be resolved).
TreeChanges(k) ==
    /\ sync.pc = "idle"
    /\ \E to \in Sources \union {"none"} : to # sources[k] /\ sources' = [sources EXCEPT ![k] = to]
    /\ UNCHANGED <<slots, manifest, sync, broken>>

\* Somebody changes a slot by hand: a directory, a link of their own, or nothing.
HandMade(k) ==
    /\ sync.pc = "idle"
    /\ \E what \in {"absent", "dir", "elsewhere"} \ {slots[k]} :
          slots' = [slots EXCEPT ![k] = what]
    /\ UNCHANGED <<manifest, sources, sync, broken>>

\* The skills of the tree, whose names are reserved.
StartSync ==
    /\ sync.pc = "idle"
    /\ LET found == {k \in Skills : sources[k] # "none"}
       IN  sync' = [pc |-> "link", todo |-> found, keep |-> found, linked |-> {}, prune |-> {}]
    /\ UNCHANGED <<slots, manifest, sources, broken>>

\* A bug: whatever fills the slot is replaced.
Occupied_replaced(k) == FALSE

\* A slot that is no link is left alone.
Occupied(k) == slots[k] = "dir"

\* A slot that is right or occupied is passed over; an empty one is linked.
LinkSkill(k) ==
    /\ sync.pc = "link"
    /\ k \in sync.todo
    /\ slots[k] \in {"absent", sources[k]} \/ Occupied(k)
    /\ slots' = IF Occupied(k) THEN slots ELSE [slots EXCEPT ![k] = sources[k]]
    /\ sync' = [sync EXCEPT !.todo = @ \ {k},
                            !.linked = IF slots[k] = "absent" THEN @ \union {k} ELSE @]
    /\ UNCHANGED <<manifest, sources, broken>>

\* A link to elsewhere is removed first.
UnlinkSkill(k) ==
    /\ sync.pc = "link"
    /\ k \in sync.todo
    /\ slots[k] \notin {"absent", sources[k]} /\ ~Occupied(k)
    /\ slots' = [slots EXCEPT ![k] = "absent"]
    /\ UNCHANGED <<manifest, sources, sync, broken>>

\* A manifest that cannot be read or parsed counts as empty: its links are forgotten.
ReadManifest ==
    /\ sync.pc = "link"
    /\ sync.todo = {}
    /\ \E read \in {manifest, {}} :
          /\ sync' = [sync EXCEPT !.pc = "prune", !.prune = read \ sync.keep]
          /\ broken' = (broken \/ read # manifest)
    /\ UNCHANGED <<slots, manifest, sources>>

\* A retired skill's slot is emptied when it is a link.
Prune(k) ==
    /\ sync.pc = "prune"
    /\ k \in sync.prune
    /\ slots' = IF slots[k] # "dir" THEN [slots EXCEPT ![k] = "absent"] ELSE slots
    /\ sync' = [sync EXCEPT !.prune = @ \ {k}]
    /\ UNCHANGED <<manifest, sources, broken>>

\* One that cannot be removed is only warned of, and then forgotten.
PruneFails(k) ==
    /\ sync.pc = "prune"
    /\ k \in sync.prune /\ slots[k] \notin {"absent", "dir"}
    /\ sync' = [sync EXCEPT !.prune = @ \ {k}]
    /\ broken' = TRUE
    /\ UNCHANGED <<slots, manifest, sources>>

\* The manifest is truncated, then written; a truncated one reads as empty.
Truncate ==
    /\ sync.pc = "prune"
    /\ sync.prune = {}
    /\ manifest' = {}
    /\ sync' = [sync EXCEPT !.pc = "write"]
    /\ UNCHANGED <<slots, sources, broken>>

\* A bug: the manifest names the links of this sync only.
Managed_linked == sync.linked

\* All names kept, whoever linked them and when.
Managed == sync.keep

WriteManifest ==
    /\ sync.pc = "write"
    /\ manifest' = Managed
    /\ sync' = NoSync
    /\ UNCHANGED <<slots, sources, broken>>

\* A step fails, or the bridge is killed: what was done stays.
SyncBreaks ==
    /\ sync.pc # "idle"
    /\ sync' = NoSync
    /\ broken' = TRUE
    /\ UNCHANGED <<slots, manifest, sources>>

SkillNext ==
    \/ \E k \in Skills :
          \/ TreeChanges(k) \/ HandMade(k)
          \/ LinkSkill(k) \/ UnlinkSkill(k) \/ Prune(k) \/ PruneFails(k)
    \/ StartSync \/ ReadManifest \/ Truncate \/ WriteManifest \/ SyncBreaks

SkillSpec == SkillInit /\ [][SkillNext]_skillVars

--------------------------------------------------------------------------------
\* A sync never removes or replaces a directory that somebody made by hand, also
\* where a skill wants its slot or a retired one's name is in the manifest.
HandMadeKept == [][\A k \in Skills : sync.pc # "idle" /\ slots[k] = "dir" => slots'[k] = "dir"]_skillVars

\* A sync that has come to its manifest has every on-demand skill linked to where
\* it is now, save for slots occupied by hand; and unless a sync was ever broken
\* off, or could not read its manifest or prune, no link to a retired skill is left,
\* so that the SDK finds no skill that the agent no longer has.
Mirrors ==
    sync.pc = "write" =>
        \A k \in Skills :
            IF k \in sync.keep THEN slots[k] \in {sources[k], "dir"}
            ELSE broken \/ slots[k] \notin Sources
================================================================================
