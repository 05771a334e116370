--------------------------- MODULE ProfileDeployment ---------------------------
(***************************************************************************)
(* How the mods a profile enables reach the game: the symlink farm         *)
(* (modde-core/src/vfs/mod.rs), the commands that build and project it     *)
(* (deploy.rs, the GUI's deploy), hot deploy and rollback.                 *)
(*                                                                         *)
(* The game's mod directory holds links into the profile's staging tree,   *)
(* whose files are links into the store.  A deploy rebuilds the tree in    *)
(* place and then links its entries; it never removes an entry.  So what   *)
(* the game sees is decided by two levels that are changed one path at a   *)
(* time, by commands that may die between any two paths and that hold no   *)
(* journal.  One command runs at a time: each holds the mutation lease.    *)
(***************************************************************************)
EXTENDS Integers, FiniteSets, FiniteSetsExt

CONSTANTS
    Profile,        \* the profiles of the game
    NMod,           \* the mods are numbered by their place in the load order
    File,           \* the relative paths mods provide
    FolderOf,       \* the first component of a path; a top-level file's is itself
    Provides,       \* [Mod -> SUBSET File], a mod's directory in the store
    Cosmetic,       \* the mods hot deploy accepts: every file is cosmetic
    Edited,         \* bound: the profiles the user changes and keeps a copy of
    MaxFaults,      \* bound: how often a command fails or is killed
    NoProfile, NoTree, Gone

Mod == 1..NMod

ASSUME ConstantsAssumption ==
    /\ NMod \in Nat \ {0} /\ MaxFaults \in Nat
    /\ IsFiniteSet(File) /\ Cosmetic \subseteq Mod /\ Edited \subseteq Profile
    /\ Provides \in [Mod -> SUBSET File]
    /\ \A f \in File : FolderOf[f] \in File => FolderOf[f] = f
    /\ NoProfile \notin Profile /\ Gone \notin Profile
    /\ NoTree \notin [File -> 0..NMod]

VARIABLES
    plugin,     \* how the game's plugin projects: "files" or "roots"
    enabled,    \* [Profile -> SUBSET Mod], the profiles in the database
    staging,    \* profiles/<p>/staging: a tree, or NoTree when there is none
    bak,        \* profiles/<p>/staging.bak
    aside,      \* profiles/<p>/staging.old
    link,       \* what is at an entry of the game's mod directory
    job,        \* the command that holds the lease
    faults,
    shown,      \* ghost: the profile the last complete projection was of
    fresh,      \* ghost: the profiles whose tree was built from what they enable
    point       \* ghost: the tree a user kept as restore point

vars == <<plugin, enabled, staging, bak, aside, link, job, faults, shown, fresh, point>>
disk == <<staging, bak, aside, link>>

(***************************************************************************)
(* The farm: for each path the enabled mod that comes last in the load     *)
(* order and provides it, 0 when there is none.  A tree maps each path to  *)
(* the mod its link leads to.                                              *)
(***************************************************************************)
Farm(on) ==
    [f \in File |-> LET S == {m \in on : f \in Provides[m]}
                    IN  IF S = {} THEN 0 ELSE Max(S)]

Tree == [File -> 0..NMod]
Empty == [f \in File |-> 0]
Present(t) == {f \in File : t[f] # 0}

\* Most plugins link file by file (fs::deploy_symlinks); Cyberpunk 2077 links
\* the first components of the tree, and is the one with hot deploy here.
EntryOf(f) == IF plugin = "files" THEN f ELSE FolderOf[f]
Entries(F) == {EntryOf(f) : f \in F}

\* What the game finds at a path.
Seen(f) ==
    LET p == link[EntryOf(f)]
    IN  IF p = Gone THEN 0 ELSE IF staging[p] = NoTree THEN 0 ELSE staging[p][f]

\* plan_patch: the paths at which two farms differ.
Changes(before, after) == {f \in File : Farm(before)[f] # Farm(after)[f]}

Idle == [kind |-> "none", p |-> NoProfile, on |-> {}, step |-> "idle", todo |-> {}]
Job(kind, p, on, step, todo) ==
    [kind |-> kind, p |-> p, on |-> on, step |-> step, todo |-> todo]
At(step) == job.step = step
To(step, todo) == job' = [job EXCEPT !.step = step, !.todo = todo]
Without(x) == To(job.step, job.todo \ {x})

\* The tree of the command's profile gets another link at path f.
SetStaged(f, m) == staging' = [staging EXCEPT ![job.p][f] = m]

\* A restored restore point is the profile's tree again, to be changed freely.
Spent == point' = IF bak[job.p] = NoTree THEN [point EXCEPT ![job.p] = NoTree] ELSE point

Init ==
    /\ plugin \in {"files", "roots"}
    /\ enabled \in [Profile -> SUBSET Mod]
    /\ staging = [p \in Profile |-> NoTree]
    /\ bak = staging /\ aside = staging /\ point = staging
    /\ link = [e \in Entries(File) |-> Gone]
    /\ job = Idle /\ faults = 0
    /\ shown = NoProfile /\ fresh = {}

-----------------------------------------------------------------------------
(***************************************************************************)
(* modde deploy: clear the tree, link every path into the store, then let  *)
(* the plugin link the tree's entries into the game.  Directory entries    *)
(* and the farm's map come in no particular order.                         *)
(***************************************************************************)
Deploy(p) ==
    /\ job = Idle
    /\ job' = Job("deploy", p, enabled[p], "clear", {})
    /\ UNCHANGED <<plugin, enabled, disk, faults, shown, fresh, point>>

\* Variant: the tree of the last deploy is built over.
ClearNothing ==
    /\ At("clear") /\ staging[job.p] # NoTree
    /\ To("build", Present(Farm(job.on)))
    /\ Spent
    /\ fresh' = fresh \ {job.p}
    /\ UNCHANGED <<plugin, enabled, disk, faults, shown>>

\* remove_dir_all unlinks path by path, and the directory last.
Clear ==
    /\ At("clear") /\ staging[job.p] # NoTree
    /\ \/ \E f \in Present(staging[job.p]) : SetStaged(f, 0)
       \/ /\ Present(staging[job.p]) = {}
          /\ staging' = [staging EXCEPT ![job.p] = NoTree]
    /\ Spent
    /\ fresh' = fresh \ {job.p}
    /\ UNCHANGED <<plugin, enabled, bak, aside, link, job, faults, shown>>

Create ==
    /\ At("clear") /\ staging[job.p] = NoTree
    /\ staging' = [staging EXCEPT ![job.p] = Empty]
    /\ To("build", Present(Farm(job.on)))
    /\ UNCHANGED <<plugin, enabled, bak, aside, link, faults, shown, fresh, point>>

\* symlink fails where something is already: the command ends with its error.
Build(f) ==
    /\ At("build") /\ f \in job.todo
    /\ IF staging[job.p][f] = 0
         THEN SetStaged(f, Farm(job.on)[f]) /\ Without(f)
         ELSE job' = Idle /\ UNCHANGED staging
    /\ UNCHANGED <<plugin, enabled, bak, aside, link, faults, shown, fresh, point>>

\* Variant: every plugin links file by file.
MaterializedFiles ==
    /\ At("build") /\ job.todo = {}
    /\ fresh' = fresh \union {job.p}
    /\ shown' = IF shown = job.p THEN NoProfile ELSE shown
    /\ To("project", Present(staging[job.p]))
    /\ UNCHANGED <<plugin, enabled, disk, faults, point>>

Materialized ==
    /\ At("build") /\ job.todo = {}
    /\ fresh' = fresh \union {job.p}
    /\ shown' = IF shown = job.p THEN NoProfile ELSE shown
    /\ To("project", Entries(Present(staging[job.p])))
    /\ UNCHANGED <<plugin, enabled, disk, faults, point>>

\* The GUI's deploy projects the tree it finds and builds none.
GuiDeploy(p) ==
    /\ job = Idle /\ staging[p] # NoTree
    /\ job' = Job("gui", p, enabled[p], "project", Entries(Present(staging[p])))
    /\ UNCHANGED <<plugin, enabled, disk, faults, shown, fresh, point>>

\* What is at the entry is removed, whatever it is, then the link is made.
Place(e, to) ==
    IF link[e] # Gone
      THEN link' = [link EXCEPT ![e] = Gone] /\ UNCHANGED job
      ELSE link' = [link EXCEPT ![e] = to] /\ Without(e)

Project(e) ==
    /\ At("project") /\ e \in job.todo
    /\ Place(e, job.p)
    /\ shown' = NoProfile
    /\ UNCHANGED <<plugin, enabled, staging, bak, aside, faults, fresh, point>>

Projected ==
    /\ At("project") /\ job.todo = {}
    /\ shown' = job.p
    /\ To("done", {})
    /\ UNCHANGED <<plugin, enabled, disk, faults, fresh, point>>

(***************************************************************************)
(* Hot deploy of one cosmetic mod: the difference between the farms of the *)
(* profile without and with the change is applied to the existing tree, the*)
(* entries it touches are linked again, and only then the profile is saved.*)
(* As the mod's files are all cosmetic, so is every path of the patch.     *)
(***************************************************************************)
Target(p, m, on) == IF on THEN enabled[p] \union {m} ELSE enabled[p] \ {m}

HotDeploy(p, m, on) ==
    LET after == Target(p, m, on)
        patch == Changes(enabled[p], after)
    IN  /\ job = Idle /\ plugin = "roots" /\ m \in Cosmetic
        /\ patch # {} /\ staging[p] # NoTree
        /\ job' = Job("hot", p, after, "patch", patch)
        /\ UNCHANGED <<plugin, enabled, disk, faults, shown, fresh, point>>

\* Nothing of the farm changes: only the profile does.
HotDeployRecords(p, m, on) ==
    /\ job = Idle /\ plugin = "roots" /\ m \in Cosmetic
    /\ Target(p, m, on) # enabled[p]
    /\ Changes(enabled[p], Target(p, m, on)) = {}
    /\ enabled' = [enabled EXCEPT ![p] = Target(p, m, on)]
    /\ UNCHANGED <<plugin, disk, job, faults, shown, fresh, point>>

\* The tree's link is removed, then the new one is made.
Patch(f) ==
    /\ At("patch") /\ f \in job.todo
    /\ IF staging[job.p][f] # 0
         THEN SetStaged(f, 0) /\ UNCHANGED job
         ELSE SetStaged(f, Farm(job.on)[f]) /\ Without(f)
    /\ Spent
    /\ UNCHANGED <<plugin, enabled, bak, aside, link, faults, shown, fresh>>

Patched ==
    /\ At("patch") /\ job.todo = {}
    /\ To("refresh", Entries(Changes(enabled[job.p], job.on)))
    /\ UNCHANGED <<plugin, enabled, disk, faults, shown, fresh, point>>

\* Variant: an entry the game has no link for is not linked.
RefreshLinked(e) ==
    /\ At("refresh") /\ e \in job.todo
    /\ Without(e)
    /\ link' = [link EXCEPT ![e] = IF @ = Gone THEN Gone ELSE job.p]
    /\ shown' = IF shown = job.p THEN shown ELSE NoProfile
    /\ UNCHANGED <<plugin, enabled, staging, bak, aside, faults, fresh, point>>

\* A top-level path the patch removed from the tree is not linked again; a
\* folder stays in the tree when its last file goes.
Refresh(e) ==
    /\ At("refresh") /\ e \in job.todo
    /\ Place(e, IF e \in File /\ staging[job.p][e] = 0 THEN Gone ELSE job.p)
    /\ shown' = IF shown = job.p THEN shown ELSE NoProfile
    /\ UNCHANGED <<plugin, enabled, staging, bak, aside, faults, fresh, point>>

Persist ==
    /\ At("refresh") /\ job.todo = {}
    /\ enabled' = [enabled EXCEPT ![job.p] = job.on]
    /\ To("done", {})
    /\ UNCHANGED <<plugin, disk, faults, shown, fresh, point>>

(***************************************************************************)
(* modde rollback: the present tree is moved aside, the restore point takes*)
(* its place, and what was moved aside is removed.  rename does not replace*)
(* a directory that is not empty.                                          *)
(***************************************************************************)
Rollback(p) ==
    /\ job = Idle /\ bak[p] # NoTree
    /\ job' = Job("rollback", p, enabled[p],
                  IF staging[p] = NoTree THEN "replace" ELSE "aside", {})
    /\ fresh' = fresh \ {p}
    /\ UNCHANGED <<plugin, enabled, disk, faults, shown, point>>

Blocked == aside[job.p] # NoTree /\ aside[job.p] # Empty

SetAside ==
    /\ At("aside") /\ ~Blocked
    /\ aside' = [aside EXCEPT ![job.p] = staging[job.p]]
    /\ staging' = [staging EXCEPT ![job.p] = NoTree]
    /\ To("restore", {})
    /\ UNCHANGED <<plugin, enabled, bak, link, faults, shown, fresh, point>>

RollbackBlocked ==
    /\ At("aside") /\ Blocked
    /\ job' = Idle
    /\ UNCHANGED <<plugin, enabled, disk, faults, shown, fresh, point>>

\* Variant: the two trees are exchanged instead.
RestoreAside ==
    /\ At("restore") \/ At("replace")
    /\ staging' = [staging EXCEPT ![job.p] = aside[job.p]]
    /\ aside' = [aside EXCEPT ![job.p] = bak[job.p]]
    /\ bak' = [bak EXCEPT ![job.p] = NoTree]
    /\ To("done", {})
    /\ UNCHANGED <<plugin, enabled, link, faults, shown, fresh, point>>

\* Only a rollback that moved a tree aside removes it.
Restore ==
    /\ At("restore") \/ At("replace")
    /\ staging' = [staging EXCEPT ![job.p] = bak[job.p]]
    /\ bak' = [bak EXCEPT ![job.p] = NoTree]
    /\ To(IF At("restore") THEN "discard" ELSE "done", {})
    /\ UNCHANGED <<plugin, enabled, aside, link, faults, shown, fresh, point>>

Discard ==
    /\ At("discard")
    /\ LET left == Present(aside[job.p])
       IN  \/ \E f \in left : aside' = [aside EXCEPT ![job.p][f] = 0] /\ UNCHANGED job
           \/ /\ left = {}
              /\ aside' = [aside EXCEPT ![job.p] = NoTree]
              /\ To("done", {})
    /\ UNCHANGED <<plugin, enabled, staging, bak, link, faults, shown, fresh, point>>

-----------------------------------------------------------------------------
(***************************************************************************)
(* A command ends, fails or is killed.  A failure is handled by nobody and *)
(* leaves the disk as a kill does.                                         *)
(***************************************************************************)
Return ==
    /\ At("done")
    /\ job' = Idle
    /\ UNCHANGED <<plugin, enabled, disk, faults, shown, fresh, point>>

Fail ==
    /\ job # Idle /\ ~At("done") /\ faults < MaxFaults
    /\ faults' = faults + 1
    /\ job' = Idle
    /\ fresh' = IF At("project") THEN fresh ELSE fresh \ {job.p}
    /\ UNCHANGED <<plugin, enabled, disk, shown, point>>

\* A mod is enabled or disabled in the GUI; nothing is deployed.
Toggle(p, m) ==
    /\ job = Idle /\ p \in Edited
    /\ enabled' = [enabled EXCEPT ![p] = (@ \ {m}) \union ({m} \ @)]
    /\ fresh' = fresh \ {p}
    /\ UNCHANGED <<plugin, disk, job, faults, shown, point>>

\* The user copies the tree: no part of modde makes a staging.bak.
Preserve(p) ==
    /\ job = Idle /\ p \in Edited /\ staging[p] # NoTree /\ bak[p] = NoTree
    /\ bak' = [bak EXCEPT ![p] = staging[p]]
    /\ point' = [point EXCEPT ![p] = staging[p]]
    /\ UNCHANGED <<plugin, enabled, staging, aside, link, job, faults, shown, fresh>>

Command ==
    \/ \E p \in Profile : Deploy(p) \/ GuiDeploy(p) \/ Rollback(p)
    \/ \E p \in Edited, m \in Mod, on \in BOOLEAN :
          HotDeploy(p, m, on) \/ HotDeployRecords(p, m, on)

Proceed ==
    \/ Clear \/ Create \/ Materialized \/ Projected
    \/ \E f \in File : Build(f) \/ Patch(f)
    \/ \E e \in Entries(File) : Project(e) \/ Refresh(e)
    \/ Patched \/ Persist
    \/ SetAside \/ RollbackBlocked \/ Restore \/ Discard
    \/ Return

User == \E p \in Profile : Preserve(p) \/ \E m \in Mod : Toggle(p, m)

Next == Command \/ Proceed \/ User \/ Fail

Spec == Init /\ [][Next]_vars

\* A running command takes its next step; that one is started, nobody promises.
FairSpec == Spec /\ WF_vars(Proceed)

-----------------------------------------------------------------------------
Trees == Tree \union {NoTree}
Steps == {"idle", "clear", "build", "project", "patch", "refresh", "aside",
          "restore", "replace", "discard", "done"}

TypeOK ==
    /\ plugin \in {"files", "roots"}
    /\ enabled \in [Profile -> SUBSET Mod]
    /\ staging \in [Profile -> Trees] /\ bak \in [Profile -> Trees]
    /\ aside \in [Profile -> Trees] /\ point \in [Profile -> Trees]
    /\ link \in [Entries(File) -> Profile \union {Gone}]
    /\ job.kind \in {"none", "deploy", "gui", "hot", "rollback"}
    /\ job.step \in Steps /\ job.p \in Profile \union {NoProfile}
    /\ job.on \in SUBSET Mod
    /\ job.todo \subseteq IF job.step \in {"project", "refresh"} THEN Entries(File) ELSE File
    /\ faults \in 0..MaxFaults
    /\ shown \in Profile \union {NoProfile} /\ fresh \subseteq Profile

\* The game sees what the profile enables: every path from the mod that wins it,
\* and nothing else through the profile's tree.
Shows(p) ==
    LET farm == Farm(enabled[p])
    IN  \A f \in File : farm[f] # 0 \/ link[EntryOf(f)] = p => Seen(f) = farm[f]

\* After a deploy the game sees what the profile enables although no entry is ever
\* removed (a path no mod provides any more dangles), and hot deploys keep it so:
\* vfs/mod.rs:97, commands/deploy.rs:253, core hot_deploy.rs:143.
GameShowsProfile ==
    job = Idle \/ At("done") => \A p \in fresh : shown = p => Shows(p)

\* The tree kept as restore point is never lost to a rollback, wherever it stops:
\* it is in staging.bak, or back as the profile's tree: vfs/mod.rs:178.
PointKept ==
    \A p \in Profile :
        /\ point[p] # NoTree => point[p] \in {bak[p], staging[p]}
        /\ bak[p] # NoTree => bak[p] = point[p]
        /\ job.kind = "rollback" /\ job.p = p /\ At("done") => staging[p] = point[p]

\* The recovery a failed hot deploy prints, and the way out of any half-done
\* command, is a deploy: one that is not itself interrupted ends with the game
\* showing the profile, whatever earlier commands left behind: commands/hot_deploy.rs:180.
DeployRecovers ==
    (job.kind = "deploy" /\ faults = MaxFaults)
        ~> (job.kind = "deploy" /\ At("done") /\ Shows(job.p))

\* docs/src/getting-started/gui.md:37: "Deploy writes the active profile into the
\* game directory".  The GUI's deploy builds no tree: update.rs:545-576.
GuiDeployShows == job.kind = "gui" /\ At("done") => Shows(job.p)
=============================================================================
