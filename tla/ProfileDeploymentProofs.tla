---------------------- MODULE ProfileDeploymentProofs ----------------------
(***************************************************************************)
(* Proofs about ProfileDeployment, for every set of profiles, mods, paths  *)
(* and folders, and any number of faults.                                  *)
(***************************************************************************)
EXTENDS ProfileDeployment, TLAPS, WellFoundedInduction

---------------------------------------------------------------------------
(* The farm *)

\* A set of mods that is not empty has a last one.
LEMMA MaxIsMember ==
  ASSUME NEW S \in SUBSET Mod, S # {}
  PROVE  Max(S) \in S
<1>1. NMod \in Nat
  BY ConstantsAssumption
<1>2. DEFINE T == {n \in Nat : \E m \in S : n = NMod - m}
<1>3. T \subseteq Nat /\ T # {}
  <2>1. PICK m \in S : TRUE
    OBVIOUS
  <2>2. NMod - m \in Nat
    BY <1>1, <2>1 DEF Mod
  <2>3. QED
    BY <2>1, <2>2
<1>4. PICK x \in T : \A y \in T : ~ (<<y, x>> \in OpToRel(<, Nat))
  BY <1>3, NatLessThanWellFounded, WFMin
<1>5. \A y \in T : ~ (y < x)
  BY <1>3, <1>4 DEF OpToRel
<1>6. PICK m \in S : x = NMod - m
  OBVIOUS
<1>7. \A j \in S : m >= j
  <2>1. SUFFICES ASSUME NEW j \in S PROVE m >= j
    OBVIOUS
  <2>2. NMod - j \in T /\ j \in Nat /\ m \in Nat
    BY <1>1 DEF Mod
  <2>3. QED
    BY <1>1, <1>5, <1>6, <2>2
<1>8. QED
  BY <1>7 DEF Max

\* So the farm of a set of mods is a tree.
LEMMA FarmType ==
  ASSUME NEW on \in SUBSET Mod
  PROVE  Farm(on) \in Tree
<1>1. SUFFICES ASSUME NEW f \in File PROVE Farm(on)[f] \in 0..NMod
  BY DEF Farm, Tree
<1>2. DEFINE S == {m \in on : f \in Provides[m]}
<1>3. S \in SUBSET Mod
  OBVIOUS
<1>4. Farm(on)[f] = IF S = {} THEN 0 ELSE Max(S)
  BY DEF Farm
<1>5. HIDE DEF S
<1>6. S # {} => Max(S) \in Mod
  BY <1>3, MaxIsMember
<1>7. QED
  BY <1>4, <1>6, ConstantsAssumption DEF Mod

---------------------------------------------------------------------------
(* The parts of the inductive invariant *)

Kinds == {"none", "deploy", "gui", "hot", "rollback"}
JobPath == File \union {FolderOf[f] : f \in File}
JobType == [kind : Kinds, p : Profile \union {NoProfile}, on : SUBSET Mod, step : Steps,
            todo : SUBSET JobPath]

\* Which command is at which step, and what it was given
JobOK == /\ job \in JobType
         /\ job.step \in {"clear", "build"} => job.kind = "deploy"
         /\ job.step = "project" => job.kind \in {"deploy", "gui"}
         /\ job.step \in {"patch", "refresh"} => job.kind = "hot"
         /\ job.step \in {"aside", "restore", "replace", "discard"} => job.kind = "rollback"
         /\ job.kind = "none" <=> job.step = "idle"
         /\ job.kind = "none" <=> job = Idle
         /\ job.kind # "none" => job.p \in Profile
         /\ job.kind \in {"deploy", "gui", "rollback"} => job.on = enabled[job.p]

\* Where the command's tree is while it works on it
TreeThere == /\ job.step \in {"build", "project", "patch", "refresh", "aside"} =>
                   staging[job.p] # NoTree
             /\ job.step \in {"restore", "discard"} => aside[job.p] # NoTree

\* A hot deploy of p is half done
Patching(p) == job.kind = "hot" /\ job.p = p /\ job.step \in {"patch", "refresh"}

\* A tree that is fresh is the farm of its profile; one being built or patched is the
\* farm of what the command was given, but for the paths it has still to visit
Built == job.step \in {"build", "patch"} /\ (job.p \in fresh \/ job.step = "build") =>
            \A f \in File \ job.todo : staging[job.p][f] = Farm(job.on)[f]
FreshOK ==
    /\ \A p \in fresh : ~Patching(p) => staging[p] = Farm(enabled[p])
    /\ job.p \in fresh => /\ job.step # "build" /\ job.kind # "rollback"
                          /\ job.step = "refresh" => staging[job.p] = Farm(job.on)

\* The entries of a tree that is projected are linked, but for those still to visit
Linked(p, t, todo) == \A f \in Present(t) : EntryOf(f) \in todo \/ link[EntryOf(f)] = p
LinksOK ==
    /\ At("project") => Linked(job.p, staging[job.p], job.todo)
    /\ shown \in fresh =>
          IF Patching(shown) /\ At("refresh") THEN Linked(shown, Farm(job.on), job.todo)
                                              ELSE Linked(shown, Farm(enabled[shown]), {})

\* The restore point, and the way of a rollback with it
PointOK ==
    /\ PointKept
    /\ job.step \in {"aside", "restore", "replace"} => bak[job.p] # NoTree
    /\ job.step = "discard" => staging[job.p] = point[job.p]
    /\ job.step = "build" /\ bak[job.p] = NoTree => point[job.p] = NoTree

IInv == TypeOK /\ JobOK /\ TreeThere /\ Built /\ FreshOK /\ LinksOK /\ PointOK

---------------------------------------------------------------------------
(* The command that runs: what the operators that change it do *)

\* The entries of a set of paths
LEMMA EntriesAre ==
  /\ \A f \in File : EntryOf(f) \in Entries(File)
  /\ \A F : \A e : e \in Entries(F) <=> \E f \in F : e = EntryOf(f)
BY DEF Entries

\* What a command can have to visit: paths or entries
LEMMA PathsAre ==
  /\ Entries(File) \in SUBSET JobPath /\ File \in SUBSET JobPath
  /\ \A t : Entries(Present(t)) \in SUBSET Entries(File)
  /\ \A t : Entries(Present(t)) \in SUBSET JobPath
  /\ \A on1, on2 : Entries(Changes(on1, on2)) \in SUBSET JobPath
  /\ \A on1, on2 : Entries(Changes(on1, on2)) \in SUBSET Entries(File)
  /\ \A t : Present(t) \in SUBSET File /\ Present(t) \in SUBSET JobPath
  /\ \A on1, on2 : Changes(on1, on2) \in SUBSET File /\ Changes(on1, on2) \in SUBSET JobPath
<1>1. \A f \in File : EntryOf(f) \in JobPath
  BY DEF EntryOf, JobPath
<1>2. \A F \in SUBSET File : Entries(F) \in SUBSET Entries(File) /\ Entries(F) \in SUBSET JobPath
  BY <1>1 DEF Entries
<1>3. File \in SUBSET JobPath
  BY DEF JobPath
<1>4. \A t : Present(t) \in SUBSET File
  BY DEF Present
<1>5. \A on1, on2 : Changes(on1, on2) \in SUBSET File
  BY DEF Changes
<1>6. QED
  BY <1>2, <1>3, <1>4, <1>5

\* No command runs
LEMMA IdleIs ==
  /\ Idle \in JobType /\ Idle.kind = "none" /\ Idle.p = NoProfile /\ Idle.on = {}
  /\ Idle.step = "idle" /\ Idle.todo = {}
BY DEF Idle, JobType, Kinds, Steps

\* The record a command starts with
LEMMA JobIs ==
  ASSUME NEW k \in Kinds, NEW p \in Profile, NEW on \in SUBSET Mod, NEW s \in Steps,
         NEW t \in SUBSET JobPath
  PROVE  /\ Job(k, p, on, s, t) \in JobType /\ Job(k, p, on, s, t).kind = k
         /\ Job(k, p, on, s, t).p = p /\ Job(k, p, on, s, t).on = on
         /\ Job(k, p, on, s, t).step = s /\ Job(k, p, on, s, t).todo = t
BY DEF Job, JobType

\* A step goes on to another, with something to visit
LEMMA ToIs ==
  ASSUME job \in JobType, NEW s \in Steps, NEW t \in SUBSET JobPath, To(s, t)
  PROVE  /\ job' \in JobType /\ job'.kind = job.kind /\ job'.p = job.p /\ job'.on = job.on
         /\ job'.step = s /\ job'.todo = t
BY DEF To, JobType

\* One of the things to visit is visited
LEMMA WithoutIs ==
  ASSUME job \in JobType, NEW x, Without(x)
  PROVE  /\ job' \in JobType /\ job'.kind = job.kind /\ job'.p = job.p /\ job'.on = job.on
         /\ job'.step = job.step /\ job'.todo = job.todo \ {x}
<1>1. job.step \in Steps /\ job.todo \ {x} \in SUBSET JobPath
  BY DEF JobType
<1>2. QED
  BY <1>1, ToIs DEF Without

\* What the job is
Now(j, k, p, on, s, t) == /\ j \in JobType /\ j.kind = k /\ j.p = p /\ j.on = on
                          /\ j.step = s /\ j.todo = t
Moves(s, t) == Now(job', job.kind, job.p, job.on, s, t)

\* The job a command starts with
LEMMA CommandsAre ==
  ASSUME TypeOK, NEW p \in Profile
  PROVE  /\ Deploy(p) => Now(job', "deploy", p, enabled[p], "clear", {})
         /\ GuiDeploy(p) =>
               Now(job', "gui", p, enabled[p], "project", Entries(Present(staging[p])))
         /\ Rollback(p) => Now(job', "rollback", p, enabled[p],
                               IF staging[p] = NoTree THEN "replace" ELSE "aside", {})
         /\ \A m \in Mod, on \in BOOLEAN :
               HotDeploy(p, m, on) => Now(job', "hot", p, Target(p, m, on), "patch",
                                          Changes(enabled[p], Target(p, m, on)))
<1>1. enabled[p] \in SUBSET Mod /\ {} \in SUBSET JobPath
  BY DEF TypeOK
<1>2. Deploy(p) => Now(job', "deploy", p, enabled[p], "clear", {})
  <2>1. "deploy" \in Kinds /\ "clear" \in Steps
    BY DEF Kinds, Steps
  <2>2. QED
    BY <1>1, <2>1, JobIs DEF Deploy, Now
<1>3. GuiDeploy(p) =>
        Now(job', "gui", p, enabled[p], "project", Entries(Present(staging[p])))
  <2>1. "gui" \in Kinds /\ "project" \in Steps
    BY DEF Kinds, Steps
  <2>2. QED
    BY <1>1, <2>1, JobIs, PathsAre DEF GuiDeploy, Now
<1>4. Rollback(p) => Now(job', "rollback", p, enabled[p],
                         IF staging[p] = NoTree THEN "replace" ELSE "aside", {})
  <2>1. /\ "rollback" \in Kinds
        /\ (IF staging[p] = NoTree THEN "replace" ELSE "aside") \in Steps
    BY DEF Kinds, Steps
  <2>2. QED
    BY <1>1, <2>1, JobIs DEF Rollback, Now
<1>5. ASSUME NEW m \in Mod, NEW on \in BOOLEAN, HotDeploy(p, m, on)
      PROVE  Now(job', "hot", p, Target(p, m, on), "patch",
                 Changes(enabled[p], Target(p, m, on)))
  <2>1. "hot" \in Kinds /\ "patch" \in Steps /\ Target(p, m, on) \in SUBSET Mod
    BY <1>1 DEF Kinds, Steps, Target
  <2>2. job' = Job("hot", p, Target(p, m, on), "patch", Changes(enabled[p], Target(p, m, on)))
    BY <1>5 DEF HotDeploy
  <2>3. QED
    BY <2>1, <2>2, JobIs, PathsAre DEF Now
<1>6. QED
  BY <1>2, <1>3, <1>4, <1>5

\* What its steps make of it
LEMMA ProceedsAre ==
  ASSUME job \in JobType
  PROVE  /\ Create => Moves("build", Present(Farm(job.on)))
         /\ Materialized => Moves("project", Entries(Present(staging[job.p])))
         /\ Projected => Moves("done", {})
         /\ Patched => Moves("refresh", Entries(Changes(enabled[job.p], job.on)))
         /\ Persist => Moves("done", {})
         /\ SetAside => Moves("restore", {})
         /\ Restore => Moves(IF At("restore") THEN "discard" ELSE "done", {})
         /\ Discard => UNCHANGED job \/ Moves("done", {})
         /\ \A f \in File : Build(f) \/ Patch(f) =>
               UNCHANGED job \/ job' = Idle \/ Moves(job.step, job.todo \ {f})
         /\ \A e \in Entries(File) : Project(e) \/ Refresh(e) =>
               UNCHANGED job \/ Moves(job.step, job.todo \ {e})
<1> USE DEF Moves, Now
<1>1. \A s \in Steps, t \in SUBSET JobPath : To(s, t) => Moves(s, t)
  BY ToIs
<1>2. \A x : Without(x) => Moves(job.step, job.todo \ {x})
  BY WithoutIs
<1>3. /\ {"build", "project", "done", "refresh", "restore", "discard"} \subseteq Steps
      /\ {} \in SUBSET JobPath
  BY DEF Steps
<1> HIDE DEF Moves
<1>4. Create => Moves("build", Present(Farm(job.on)))
  BY <1>1, <1>3, PathsAre DEF Create
<1>5. Materialized => Moves("project", Entries(Present(staging[job.p])))
  BY <1>1, <1>3, PathsAre DEF Materialized
<1>6. Projected => Moves("done", {})
  BY <1>1, <1>3 DEF Projected
<1>7. Patched => Moves("refresh", Entries(Changes(enabled[job.p], job.on)))
  BY <1>1, <1>3, PathsAre DEF Patched
<1>8. Persist => Moves("done", {})
  BY <1>1, <1>3 DEF Persist
<1>9. SetAside => Moves("restore", {})
  BY <1>1, <1>3 DEF SetAside
<1>10. Restore => Moves(IF At("restore") THEN "discard" ELSE "done", {})
  BY <1>1, <1>3 DEF Restore
<1>11. Discard => UNCHANGED job \/ Moves("done", {})
  BY <1>1, <1>3 DEF Discard
<1>12. \A f \in File : Build(f) \/ Patch(f) =>
          UNCHANGED job \/ job' = Idle \/ Moves(job.step, job.todo \ {f})
  BY <1>2 DEF Build, Patch
<1>13. \A e \in Entries(File) : Project(e) \/ Refresh(e) =>
          UNCHANGED job \/ Moves(job.step, job.todo \ {e})
  BY <1>2 DEF Project, Refresh, Place
<1>14. QED
  BY <1>4, <1>5, <1>6, <1>7, <1>8, <1>9, <1>10, <1>11, <1>12, <1>13

\* Every command stays one of those it can be
LEMMA JobStep == IInv /\ Next => JobOK'
<1>0. SUFFICES ASSUME IInv, Next PROVE JobOK'
  OBVIOUS
<1> USE DEF JobOK, At, disk
<1>a. TypeOK /\ JobOK /\ job \in JobType
  BY <1>0 DEF IInv
<1>b. /\ Idle.kind = "none" /\ Idle.step = "idle" /\ Idle \in JobType
      /\ NoProfile \notin Profile /\ Edited \subseteq Profile
  BY IdleIs, ConstantsAssumption
<1>1. CASE \E p \in Profile : Deploy(p)
  BY <1>a, CommandsAre, <1>1 DEF Deploy, Now
<1>2. CASE \E p \in Profile : GuiDeploy(p)
  BY <1>a, CommandsAre, <1>2 DEF GuiDeploy, Now
<1>3. CASE \E p \in Profile : Rollback(p)
  BY <1>a, CommandsAre, <1>3 DEF Rollback, Now
<1>4. CASE \E p \in Edited, m \in Mod, on \in BOOLEAN : HotDeploy(p, m, on)
  <2>1. PICK p \in Edited, m \in Mod, on \in BOOLEAN : HotDeploy(p, m, on)
    BY <1>4
  <2>2. p \in Profile
    BY <1>b
  <2>3. job' \in JobType /\ job'.kind = "hot" /\ job'.p = p /\ job'.step = "patch"
    BY <1>a, <2>1, <2>2, CommandsAre DEF Now
  <2>4. QED
    BY <1>b, <2>2, <2>3
<1>5. CASE \E p \in Edited, m \in Mod, on \in BOOLEAN : HotDeployRecords(p, m, on)
  BY <1>b, <1>5 DEF HotDeployRecords
<1>6. CASE Clear
  BY <1>a, <1>6 DEF Clear
<1>7. CASE Create
  BY <1>a, <1>b, ProceedsAre, <1>7 DEF Create, Moves, Now
<1>8. CASE Materialized
  BY <1>a, <1>b, ProceedsAre, <1>8 DEF Materialized, Moves, Now
<1>9. CASE Projected
  BY <1>a, <1>b, ProceedsAre, <1>9 DEF Projected, Moves, Now
<1>10. CASE \E f \in File : Build(f)
  BY <1>a, <1>b, ProceedsAre, <1>10 DEF Build, Moves, Now
<1>11. CASE \E f \in File : Patch(f)
  BY <1>a, <1>b, ProceedsAre, <1>11 DEF Patch, Moves, Now
<1>12. CASE \E e \in Entries(File) : Project(e)
  BY <1>a, <1>b, ProceedsAre, <1>12 DEF Project, Moves, Now
<1>13. CASE \E e \in Entries(File) : Refresh(e)
  BY <1>a, <1>b, ProceedsAre, <1>13 DEF Refresh, Moves, Now
<1>14. CASE Patched
  BY <1>a, <1>b, ProceedsAre, <1>14 DEF Patched, Moves, Now
<1>15. CASE Persist
  BY <1>a, <1>b, ProceedsAre, <1>15 DEF Persist, Moves, Now
<1>16. CASE SetAside
  BY <1>a, <1>b, ProceedsAre, <1>16 DEF SetAside, Moves, Now
<1>17. CASE RollbackBlocked
  BY <1>b, <1>17 DEF RollbackBlocked
<1>18. CASE Restore
  BY <1>a, <1>b, ProceedsAre, <1>18 DEF Restore, Moves, Now
<1>19. CASE Discard
  BY <1>a, <1>b, ProceedsAre, <1>19 DEF Discard, Moves, Now
<1>20. CASE Return
  BY <1>b, <1>20 DEF Return
<1>21. CASE Fail
  BY <1>b, <1>21 DEF Fail
<1>22. CASE \E p \in Profile : Preserve(p)
  BY <1>b, <1>22 DEF Preserve
<1>23. CASE \E p \in Profile, m \in Mod : Toggle(p, m)
  BY <1>b, <1>23 DEF Toggle
<1>q. QED
  BY <1>0, <1>1, <1>2, <1>3, <1>4, <1>5, <1>6, <1>7, <1>8, <1>9, <1>10, <1>11, <1>12, <1>13,
     <1>14, <1>15, <1>16, <1>17, <1>18, <1>19, <1>20, <1>21, <1>22, <1>23 DEF Next, Command,
     Proceed, User

---------------------------------------------------------------------------
(* Types *)

\* A tree stays one when a link is set or removed; no tree is "none"
LEMMA TreesAre ==
  /\ NoTree \notin Tree /\ Empty \in Tree
  /\ \A t \in Tree, f \in File, m \in 0..NMod :
        /\ [t EXCEPT ![f] = m] \in Tree /\ [t EXCEPT ![f] = m] # NoTree
        /\ [t EXCEPT ![f] = m][f] = m
        /\ \A g \in File : g # f => [t EXCEPT ![f] = m][g] = t[g]
<1>1. NMod \in Nat
  BY ConstantsAssumption
<1>2. QED
  BY <1>1, ConstantsAssumption DEF Tree, Empty

\* The tree of the command's profile, and only that, gets another link
LEMMA StagedIs ==
  ASSUME TypeOK, job.p \in Profile, staging[job.p] # NoTree,
         NEW f \in File, NEW m \in 0..NMod, SetStaged(f, m)
  PROVE  /\ staging' \in [Profile -> Trees] /\ staging[job.p] \in Tree
         /\ staging'[job.p] \in Tree /\ staging'[job.p] # NoTree
         /\ staging'[job.p][f] = m
         /\ \A g \in File : g # f => staging'[job.p][g] = staging[job.p][g]
         /\ \A p \in Profile : p # job.p => staging'[p] = staging[p]
<1>1. staging[job.p] \in Tree /\ staging \in [Profile -> Trees]
  BY DEF TypeOK, Trees
<1>2. DEFINE t == [staging[job.p] EXCEPT ![f] = m]
<1>3. /\ t \in Tree /\ t # NoTree /\ t[f] = m
      /\ \A g \in File : g # f => t[g] = staging[job.p][g]
  BY <1>1, TreesAre
<1>4. staging' = [staging EXCEPT ![job.p] = t]
  BY DEF SetStaged
<1>5. HIDE DEF t
<1>6. QED
  BY <1>1, <1>3, <1>4 DEF Trees

\* What is left for the command to do
TodoOK == job.todo \subseteq IF job.step \in {"project", "refresh"} THEN Entries(File) ELSE File

\* How the plugin projects never changes
LEMMA EntriesStay == Next => plugin' = plugin /\ Entries(File)' = Entries(File)
<1>1. Next => plugin' = plugin
  BY DEF Next, Command, Proceed, User, Deploy, GuiDeploy, Rollback, HotDeploy, HotDeployRecords,
     Clear, Create, Materialized, Projected, Build, Patch, Project, Refresh, Patched, Persist,
     SetAside, RollbackBlocked, Restore, Discard, Return, Fail, Preserve, Toggle
<1>2. plugin' = plugin => Entries(File)' = Entries(File)
  BY DEF Entries, EntryOf
<1>3. QED
  BY <1>1, <1>2

\* A command visits paths of the tree, or entries of the game's directory
LEMMA TodoStep == IInv /\ Next => TodoOK'
<1>0. SUFFICES ASSUME IInv, Next PROVE TodoOK'
  OBVIOUS
<1>a. TypeOK /\ JobOK /\ job \in JobType /\ TodoOK
  BY <1>0 DEF IInv, JobOK, TypeOK, TodoOK
<1>b. /\ Idle.todo = {} /\ Entries(File)' = Entries(File) /\ Edited \subseteq Profile
      /\ TodoOK' = (job'.todo \subseteq
                       IF job'.step \in {"project", "refresh"} THEN Entries(File) ELSE File)
  BY <1>0, EntriesStay, IdleIs, ConstantsAssumption DEF TodoOK
<1>1. CASE \E p \in Profile : Deploy(p)
  BY <1>a, CommandsAre, <1>1 DEF Now, TodoOK
<1>2. CASE \E p \in Profile : GuiDeploy(p)
  BY <1>a, <1>b, PathsAre, CommandsAre, <1>2 DEF Now
<1>3. CASE \E p \in Profile : Rollback(p)
  BY <1>a, CommandsAre, <1>3 DEF Now, TodoOK
<1>4. CASE \E p \in Edited, m \in Mod, on \in BOOLEAN : HotDeploy(p, m, on)
  <2>1. PICK p \in Edited, m \in Mod, on \in BOOLEAN : HotDeploy(p, m, on)
    BY <1>4
  <2>2. job'.step = "patch" /\ job'.todo = Changes(enabled[p], Target(p, m, on))
    BY <1>a, <1>b, <2>1, CommandsAre DEF Now
  <2>3. Changes(enabled[p], Target(p, m, on)) \in SUBSET File
    BY PathsAre
  <2>4. job'.todo \subseteq File
    BY <2>2, <2>3
  <2>5. QED
    BY <1>b, <2>2, <2>4
<1>5. CASE \E p \in Edited, m \in Mod, on \in BOOLEAN : HotDeployRecords(p, m, on)
  BY <1>b, <1>5 DEF HotDeployRecords
<1>6. CASE Clear
  BY <1>a, <1>b, <1>6 DEF Clear, TodoOK
<1>7. CASE Create
  BY <1>a, PathsAre, ProceedsAre, <1>7 DEF Moves, Now, TodoOK
<1>8. CASE Materialized
  BY <1>a, <1>b, PathsAre, ProceedsAre, <1>8 DEF Moves, Now, TodoOK
<1>9. CASE Projected
  BY <1>a, ProceedsAre, <1>9 DEF Moves, Now, TodoOK
<1>10. CASE \E f \in File : Build(f)
  BY <1>a, <1>b, ProceedsAre, <1>10 DEF Moves, Now, TodoOK
<1>11. CASE \E f \in File : Patch(f)
  BY <1>a, <1>b, ProceedsAre, <1>11 DEF Moves, Now, TodoOK
<1>12. CASE \E e \in Entries(File) : Project(e)
  BY <1>a, <1>b, ProceedsAre, <1>12 DEF Moves, Now, TodoOK
<1>13. CASE \E e \in Entries(File) : Refresh(e)
  BY <1>a, <1>b, ProceedsAre, <1>13 DEF Moves, Now, TodoOK
<1>14. CASE Patched
  BY <1>a, <1>b, PathsAre, ProceedsAre, <1>14 DEF Moves, Now, TodoOK
<1>15. CASE Persist
  BY <1>a, ProceedsAre, <1>15 DEF Moves, Now, TodoOK
<1>16. CASE SetAside
  BY <1>a, ProceedsAre, <1>16 DEF Moves, Now, TodoOK
<1>17. CASE RollbackBlocked
  BY <1>b, <1>17 DEF RollbackBlocked
<1>18. CASE Restore
  BY <1>a, ProceedsAre, <1>18 DEF Moves, Now, TodoOK
<1>19. CASE Discard
  BY <1>a, <1>b, ProceedsAre, <1>19 DEF Moves, Now, TodoOK
<1>20. CASE Return
  BY <1>b, <1>20 DEF Return
<1>21. CASE Fail
  BY <1>b, <1>21 DEF Fail
<1>22. CASE \E p \in Profile : Preserve(p)
  BY <1>b, <1>22 DEF Preserve
<1>23. CASE \E p \in Profile, m \in Mod : Toggle(p, m)
  BY <1>b, <1>23 DEF Toggle
<1>q. QED
  BY <1>0, <1>1, <1>2, <1>3, <1>4, <1>5, <1>6, <1>7, <1>8, <1>9, <1>10, <1>11, <1>12, <1>13,
     <1>14, <1>15, <1>16, <1>17, <1>18, <1>19, <1>20, <1>21, <1>22, <1>23 DEF Next, Command,
     Proceed, User

\* Every step keeps the types
LEMMA TypeStep == IInv /\ Next => TypeOK'
<1>0. SUFFICES ASSUME IInv, Next PROVE TypeOK'
  OBVIOUS
<1>a. TypeOK /\ JobOK /\ TreeThere
  BY <1>0 DEF IInv
<1>b. /\ JobOK' /\ TodoOK' /\ plugin' = plugin /\ Entries(File)' = Entries(File)
  BY <1>0, EntriesStay, JobStep, TodoStep
<1> DEFINE V == /\ enabled' \in [Profile -> SUBSET Mod]
                /\ staging' \in [Profile -> Trees] /\ bak' \in [Profile -> Trees]
                /\ aside' \in [Profile -> Trees] /\ point' \in [Profile -> Trees]
                /\ link' \in [Entries(File) -> Profile \union {Gone}]
                /\ faults' \in 0..MaxFaults
                /\ shown' \in Profile \union {NoProfile} /\ fresh' \subseteq Profile
<1>s. SUFFICES V
  BY <1>a, <1>b DEF TypeOK, JobOK, JobType, Kinds, TodoOK
<1> USE DEF TypeOK, disk
<1>c. /\ job.p \in Profile \union {NoProfile} /\ job.on \in SUBSET Mod
      /\ NoProfile \notin Profile /\ NoTree \in Trees /\ Empty \in Trees /\ Tree \subseteq Trees
      /\ \A on \in SUBSET Mod : Farm(on) \in Tree
      /\ Edited \subseteq Profile
  BY <1>a, TreesAre, FarmType, ConstantsAssumption DEF Trees
<1>d. 0 \in 0..NMod /\ MaxFaults \in Nat
  BY ConstantsAssumption
<1>e. \A s : At(s) /\ s # "idle" => job.p \in Profile
  BY <1>a DEF JobOK, At
<1>f. Spent /\ job.p \in Profile => point' \in [Profile -> Trees]
  BY <1>a, <1>c DEF Spent
<1>1. CASE \E p \in Profile : Deploy(p)
  BY <1>a, <1>1 DEF Deploy
<1>2. CASE \E p \in Profile : GuiDeploy(p)
  BY <1>a, <1>2 DEF GuiDeploy
<1>3. CASE \E p \in Profile : Rollback(p)
  BY <1>a, <1>3 DEF Rollback
<1>4. CASE \E p \in Edited, m \in Mod, on \in BOOLEAN : HotDeploy(p, m, on)
  BY <1>a, <1>4 DEF HotDeploy
<1>5. CASE \E p \in Edited, m \in Mod, on \in BOOLEAN : HotDeployRecords(p, m, on)
  <2>1. PICK p \in Profile, m \in Mod, on \in BOOLEAN : HotDeployRecords(p, m, on)
    BY <1>c, <1>5
  <2>2. Target(p, m, on) \in SUBSET Mod
    BY <1>a DEF Target
  <2>3. QED
    BY <1>a, <2>1, <2>2 DEF HotDeployRecords
<1>6. CASE Clear
  <2>1. CASE \E f \in Present(staging[job.p]) : SetStaged(f, 0)
    <3>1. PICK f \in File : SetStaged(f, 0)
      BY <2>1 DEF Present
    <3>2. staging[job.p] # NoTree /\ job.p \in Profile
      BY <1>6, <1>e DEF Clear
    <3>3. staging' \in [Profile -> Trees]
      BY <1>a, <1>d, <3>1, <3>2, StagedIs
    <3>4. QED
      BY <1>a, <1>6, <1>f, <3>2, <3>3 DEF Clear
  <2>2. CASE staging' = [staging EXCEPT ![job.p] = NoTree]
    BY <1>a, <1>6, <1>c, <1>e, <1>f, <2>2 DEF Clear
  <2>3. QED
    BY <1>6, <2>1, <2>2 DEF Clear
<1>7. CASE Create
  BY <1>a, <1>c, <1>7 DEF Create
<1>8. CASE Materialized
  BY <1>a, <1>e, <1>8 DEF Materialized
<1>9. CASE Projected
  BY <1>a, <1>9 DEF Projected
<1>10. CASE \E f \in File : Build(f)
  <2>1. PICK f \in File : Build(f)
    BY <1>10
  <2>2. Farm(job.on)[f] \in 0..NMod /\ staging[job.p] # NoTree /\ job.p \in Profile
    BY <1>a, <1>c, <1>e, <2>1 DEF Build, TreeThere, Tree, At
  <2>3. staging' \in [Profile -> Trees]
    BY <1>a, <2>1, <2>2, StagedIs DEF Build
  <2>4. QED
    BY <1>a, <2>1, <2>3 DEF Build
<1>11. CASE \E f \in File : Patch(f)
  <2>1. PICK f \in File : Patch(f)
    BY <1>11
  <2>2. Farm(job.on)[f] \in 0..NMod /\ staging[job.p] # NoTree /\ job.p \in Profile
    BY <1>a, <1>c, <1>e, <2>1 DEF Patch, TreeThere, Tree, At
  <2>3. staging' \in [Profile -> Trees]
    BY <1>a, <1>d, <2>1, <2>2, StagedIs DEF Patch
  <2>4. QED
    BY <1>a, <1>f, <2>1, <2>2, <2>3 DEF Patch
<1>12. CASE \E e \in Entries(File) : Project(e)
  BY <1>a, <1>e, <1>12 DEF Project, Place
<1>13. CASE \E e \in Entries(File) : Refresh(e)
  BY <1>a, <1>e, <1>13 DEF Refresh, Place
<1>14. CASE Patched
  BY <1>a, <1>14 DEF Patched
<1>15. CASE Persist
  BY <1>a, <1>15 DEF Persist
<1>16. CASE SetAside
  BY <1>a, <1>c, <1>16 DEF SetAside
<1>17. CASE RollbackBlocked
  BY <1>a, <1>17 DEF RollbackBlocked
<1>18. CASE Restore
  BY <1>a, <1>c, <1>18 DEF Restore
<1>19. CASE Discard
  <2>1. CASE \E f \in Present(aside[job.p]) : aside' = [aside EXCEPT ![job.p][f] = 0]
    <3>1. PICK f \in File : aside' = [aside EXCEPT ![job.p][f] = 0]
      BY <2>1 DEF Present
    <3>2. aside[job.p] \in Tree
      BY <1>a, <1>19, <1>e DEF Discard, TreeThere, Trees, At
    <3>3. [aside[job.p] EXCEPT ![f] = 0] \in Trees
      BY <1>c, <1>d, <3>2, TreesAre
    <3>4. QED
      BY <1>a, <1>19, <3>1, <3>3 DEF Discard
  <2>2. CASE aside' = [aside EXCEPT ![job.p] = NoTree]
    BY <1>a, <1>19, <1>c, <2>2 DEF Discard
  <2>3. QED
    BY <1>19, <2>1, <2>2 DEF Discard
<1>20. CASE Return
  BY <1>a, <1>20 DEF Return
<1>21. CASE Fail
  BY <1>a, <1>d, <1>21 DEF Fail
<1>22. CASE \E p \in Profile : Preserve(p)
  BY <1>a, <1>22 DEF Preserve
<1>23. CASE \E p \in Profile, m \in Mod : Toggle(p, m)
  BY <1>a, <1>23 DEF Toggle
<1>q. QED
  BY <1>0, <1>1, <1>2, <1>3, <1>4, <1>5, <1>6, <1>7, <1>8, <1>9, <1>10, <1>11, <1>12, <1>13,
     <1>14, <1>15, <1>16, <1>17, <1>18, <1>19, <1>20, <1>21, <1>22, <1>23 DEF Next, Command,
     Proceed, User

---------------------------------------------------------------------------
(* The trees *)

\* The command finds the trees it works on
LEMMA TreeThereStep == IInv /\ Next => TreeThere'
<1>0. SUFFICES ASSUME IInv, Next PROVE TreeThere'
  OBVIOUS
<1>a. TypeOK /\ JobOK /\ TreeThere /\ job \in JobType
  BY <1>0 DEF IInv, JobOK
<1>b. /\ Idle.step = "idle" /\ NoTree \notin Tree /\ Empty \in Tree
      /\ Edited \subseteq Profile
  BY TreesAre, IdleIs, ConstantsAssumption
<1>c. \A s : At(s) /\ s # "idle" => job.p \in Profile
  BY <1>a DEF JobOK, At
<1>d. /\ staging \in [Profile -> Trees] /\ aside \in [Profile -> Trees]
  BY <1>a DEF TypeOK
<1> USE DEF TreeThere, disk
<1>1. CASE \E p \in Profile : Deploy(p)
  BY <1>a, CommandsAre, <1>1 DEF Now
<1>2. CASE \E p \in Profile : GuiDeploy(p)
  BY <1>a, CommandsAre, <1>2 DEF GuiDeploy, Now
<1>3. CASE \E p \in Profile : Rollback(p)
  BY <1>a, CommandsAre, <1>3 DEF Rollback, Now
<1>4. CASE \E p \in Edited, m \in Mod, on \in BOOLEAN : HotDeploy(p, m, on)
  <2>1. PICK p \in Profile, m \in Mod, on \in BOOLEAN : HotDeploy(p, m, on)
    BY <1>b, <1>4
  <2>2. job'.step = "patch" /\ job'.p = p
    BY <1>a, <2>1, CommandsAre DEF Now
  <2>3. QED
    BY <1>a, <2>1, <2>2 DEF HotDeploy
<1>5. CASE \E p \in Edited, m \in Mod, on \in BOOLEAN : HotDeployRecords(p, m, on)
  BY <1>b, <1>5 DEF HotDeployRecords
<1>6. CASE Clear
  <2>1. job' = job /\ job.step = "clear"
    BY <1>6 DEF Clear, At
  <2>2. QED
    BY <2>1
<1>7. CASE Create
  BY <1>a, <1>b, <1>c, <1>d, ProceedsAre, <1>7 DEF Create, Moves, Now
<1>8. CASE Materialized
  BY <1>a, ProceedsAre, <1>8 DEF Materialized, Moves, Now, At
<1>9. CASE Projected
  BY <1>a, ProceedsAre, <1>9 DEF Moves, Now
<1>10. CASE \E f \in File : Build(f)
  <2>1. PICK f \in File : Build(f)
    BY <1>10
  <2>2. /\ Farm(job.on)[f] \in 0..NMod /\ 0 \in 0..NMod /\ staging[job.p] # NoTree
        /\ job.p \in Profile
    BY <1>a, <1>c, <2>1, FarmType, ConstantsAssumption DEF Build, Tree, At, JobType
  <2>3. CASE \E m \in 0..NMod : SetStaged(f, m)
    <3>1. staging'[job.p] # NoTree
      BY <1>a, <2>2, <2>3, StagedIs
    <3>2. (job'.p = job.p /\ job'.step = job.step) \/ job' = Idle
      BY <1>a, <2>1, ProceedsAre DEF Moves, Now
    <3>3. QED
      BY <1>b, <2>1, <3>1, <3>2 DEF Build, At
  <2>4. CASE UNCHANGED staging
    BY <1>a, <1>b, <2>1, <2>4, ProceedsAre DEF Moves, Now, Build
  <2>5. QED
    BY <2>1, <2>2, <2>3, <2>4 DEF Build
<1>11. CASE \E f \in File : Patch(f)
  <2>1. PICK f \in File : Patch(f)
    BY <1>11
  <2>2. /\ Farm(job.on)[f] \in 0..NMod /\ 0 \in 0..NMod /\ staging[job.p] # NoTree
        /\ job.p \in Profile
    BY <1>a, <1>c, <2>1, FarmType, ConstantsAssumption DEF Patch, Tree, At, JobType
  <2>3. CASE \E m \in 0..NMod : SetStaged(f, m)
    <3>1. staging'[job.p] # NoTree
      BY <1>a, <2>2, <2>3, StagedIs
    <3>2. (job'.p = job.p /\ job'.step = job.step) \/ job' = Idle
      BY <1>a, <2>1, ProceedsAre DEF Moves, Now
    <3>3. QED
      BY <1>b, <2>1, <3>1, <3>2 DEF Patch, At
  <2>4. CASE UNCHANGED staging
    BY <1>a, <1>b, <2>1, <2>4, ProceedsAre DEF Moves, Now, Patch
  <2>5. QED
    BY <2>1, <2>2, <2>3, <2>4 DEF Patch
<1>12. CASE \E e \in Entries(File) : Project(e)
  BY <1>a, ProceedsAre, <1>12 DEF Project, Moves, Now
<1>13. CASE \E e \in Entries(File) : Refresh(e)
  BY <1>a, ProceedsAre, <1>13 DEF Refresh, Moves, Now
<1>14. CASE Patched
  BY <1>a, ProceedsAre, <1>14 DEF Patched, Moves, Now, At
<1>15. CASE Persist
  BY <1>a, ProceedsAre, <1>15 DEF Moves, Now
<1>16. CASE SetAside
  BY <1>a, <1>c, <1>d, ProceedsAre, <1>16 DEF SetAside, Moves, Now, At
<1>17. CASE RollbackBlocked
  BY <1>b, <1>17 DEF RollbackBlocked
<1>18. CASE Restore
  BY <1>a, ProceedsAre, <1>18 DEF Restore, Moves, Now, At
<1>19. CASE Discard
  <2>1. CASE \E f \in Present(aside[job.p]) : aside' = [aside EXCEPT ![job.p][f] = 0]
                 /\ UNCHANGED job
    <3>1. PICK f \in File : aside' = [aside EXCEPT ![job.p][f] = 0] /\ UNCHANGED job
      BY <2>1 DEF Present
    <3>2. aside[job.p] \in Tree /\ job.p \in Profile /\ 0 \in 0..NMod
      BY <1>a, <1>19, <1>c, <1>d, ConstantsAssumption DEF Discard, Trees, At
    <3>3. [aside[job.p] EXCEPT ![f] = 0] # NoTree
      BY <1>b, <3>2, TreesAre
    <3>4. QED
      BY <1>19, <1>d, <3>1, <3>2, <3>3 DEF Discard, At
  <2>2. CASE Moves("done", {})
    BY <2>2 DEF Moves, Now
  <2>3. QED
    BY <1>a, <1>19, <2>1 DEF Discard, To, JobType
<1>20. CASE Return
  BY <1>b, <1>20 DEF Return
<1>21. CASE Fail
  BY <1>b, <1>21 DEF Fail
<1>22. CASE \E p \in Profile : Preserve(p)
  BY <1>b, <1>22 DEF Preserve
<1>23. CASE \E p \in Profile, m \in Mod : Toggle(p, m)
  BY <1>b, <1>23 DEF Toggle
<1>q. QED
  BY <1>0, <1>1, <1>2, <1>3, <1>4, <1>5, <1>6, <1>7, <1>8, <1>9, <1>10, <1>11, <1>12, <1>13,
     <1>14, <1>15, <1>16, <1>17, <1>18, <1>19, <1>20, <1>21, <1>22, <1>23 DEF Next, Command,
     Proceed, User

\* Two trees with the same links are the same
LEMMA TreesEqual ==
  ASSUME NEW t \in Tree, NEW u \in Tree, \A f \in File : t[f] = u[f]
  PROVE  t = u
BY DEF Tree

\* Farms agree outside their difference (plan_patch)
LEMMA SameFarm ==
  ASSUME NEW a \in SUBSET Mod, NEW b \in SUBSET Mod
  PROVE  /\ \A f \in File \ Changes(a, b) : Farm(a)[f] = Farm(b)[f]
         /\ Changes(a, b) = {} => Farm(a) = Farm(b)
<1>1. \A f \in File \ Changes(a, b) : Farm(a)[f] = Farm(b)[f]
  BY DEF Changes
<1>2. QED
  BY <1>1, FarmType, TreesEqual

\* A fresh tree stays the farm of its profile, one being built or patched comes closer to it
LEMMA FreshStep == IInv /\ Next => Built' /\ FreshOK'
<1>0. SUFFICES ASSUME IInv, Next PROVE Built' /\ FreshOK'
  OBVIOUS
<1>a. TypeOK /\ JobOK /\ TreeThere /\ Built /\ FreshOK /\ job \in JobType
  BY <1>0 DEF IInv, JobOK
<1>b. /\ Idle.step = "idle" /\ Idle.kind = "none" /\ Idle.p = NoProfile
      /\ NoProfile \notin Profile /\ NoTree \notin Tree /\ Empty \in Tree
      /\ Edited \subseteq Profile /\ 0 \in 0..NMod
  BY TreesAre, IdleIs, ConstantsAssumption
<1>c. \A s : At(s) /\ s # "idle" => job.p \in Profile
  BY <1>a DEF JobOK, At
<1>d. /\ staging \in [Profile -> Trees] /\ fresh \subseteq Profile
      /\ enabled \in [Profile -> SUBSET Mod]
      /\ job.p \in Profile \union {NoProfile} /\ job.on \in SUBSET Mod
      /\ \A on \in SUBSET Mod : Farm(on) \in Tree
  BY <1>a, FarmType DEF TypeOK
<1> USE DEF Built, FreshOK, Patching, disk
<1>1. CASE \E p \in Profile : Deploy(p)
  <2>1. PICK p \in Profile : Deploy(p)
    BY <1>1
  <2>2. job.kind = "none" /\ UNCHANGED <<staging, enabled>> /\ fresh' = fresh
    BY <1>b, <2>1 DEF Deploy
  <2>3. QED
    BY <1>a, <2>1, <2>2, CommandsAre DEF Now
<1>2. CASE \E p \in Profile : GuiDeploy(p)
  <2>1. PICK p \in Profile : GuiDeploy(p)
    BY <1>2
  <2>2. job.kind = "none" /\ UNCHANGED <<staging, enabled>> /\ fresh' = fresh
    BY <1>b, <2>1 DEF GuiDeploy
  <2>3. QED
    BY <1>a, <2>1, <2>2, CommandsAre DEF Now
<1>3. CASE \E p \in Profile : Rollback(p)
  <2>1. PICK p \in Profile : Rollback(p)
    BY <1>3
  <2>2. job.kind = "none" /\ UNCHANGED <<staging, enabled>> /\ fresh' = fresh \ {p}
    BY <1>b, <2>1 DEF Rollback
  <2>3. QED
    BY <1>a, <2>1, <2>2, CommandsAre DEF Now
<1>4. CASE \E p \in Edited, m \in Mod, on \in BOOLEAN : HotDeploy(p, m, on)
  <2>1. PICK p \in Profile, m \in Mod, on \in BOOLEAN : HotDeploy(p, m, on)
    BY <1>b, <1>4
  <2>2. DEFINE after == Target(p, m, on)
  <2>3. after \in SUBSET Mod
    BY <1>d DEF Target
  <2>4. /\ Now(job', "hot", p, after, "patch", Changes(enabled[p], after))
        /\ UNCHANGED <<staging, fresh, enabled>> /\ job.kind = "none"
    BY <1>a, <1>b, <2>1, CommandsAre DEF HotDeploy
  <2>5. \A f \in File \ Changes(enabled[p], after) : Farm(enabled[p])[f] = Farm(after)[f]
    BY <1>d, <2>3, SameFarm
  <2>6. HIDE DEF after
  <2>7. QED
    BY <1>a, <2>4, <2>5 DEF Now
<1>5. CASE \E p \in Edited, m \in Mod, on \in BOOLEAN : HotDeployRecords(p, m, on)
  <2>1. PICK p \in Profile, m \in Mod, on \in BOOLEAN : HotDeployRecords(p, m, on)
    BY <1>b, <1>5
  <2>2. DEFINE after == Target(p, m, on)
  <2>3. after \in SUBSET Mod
    BY <1>d DEF Target
  <2>4. /\ UNCHANGED <<staging, fresh, job>> /\ job = Idle
        /\ enabled' = [enabled EXCEPT ![p] = after] /\ Changes(enabled[p], after) = {}
    BY <2>1 DEF HotDeployRecords
  <2>5. Farm(enabled[p]) = Farm(after)
    BY <1>d, <2>3, <2>4, SameFarm
  <2>6. HIDE DEF after
  <2>7. \A q \in Profile : Farm(enabled'[q]) = Farm(enabled[q])
    BY <1>d, <2>3, <2>4, <2>5
  <2>8. QED
    BY <1>a, <1>b, <1>d, <2>4, <2>7
<1>6. CASE Clear
  <2>1. /\ job.step = "clear" /\ UNCHANGED <<job, enabled>> /\ fresh' = fresh \ {job.p}
        /\ staging[job.p] # NoTree /\ job.p \in Profile
    BY <1>c, <1>6 DEF Clear, At
  <2>2. \A p \in Profile : p # job.p => staging'[p] = staging[p]
    <3>1. CASE \E f \in File : SetStaged(f, 0)
      BY <1>a, <1>b, <2>1, <3>1, StagedIs
    <3>2. CASE staging' = [staging EXCEPT ![job.p] = NoTree]
      BY <1>d, <3>2
    <3>3. QED
      BY <1>6, <3>1, <3>2 DEF Clear, Present
  <2>3. QED
    BY <1>a, <1>d, <2>1, <2>2
<1>7. CASE Create
  <2>1. /\ job.step = "clear" /\ staging[job.p] = NoTree /\ UNCHANGED <<enabled, fresh>>
        /\ staging' = [staging EXCEPT ![job.p] = Empty] /\ job.p \in Profile
        /\ Moves("build", Present(Farm(job.on)))
    BY <1>a, <1>c, <1>7, ProceedsAre DEF Create, At
  <2>2. job.p \notin fresh
    BY <1>a, <1>b, <1>d, <2>1
  <2>3. \A f \in File \ Present(Farm(job.on)) : Empty[f] = Farm(job.on)[f]
    BY DEF Present, Empty
  <2>4. staging'[job.p] = Empty /\ \A p \in Profile : p # job.p => staging'[p] = staging[p]
    BY <1>d, <2>1
  <2>5. QED
    BY <1>a, <2>1, <2>2, <2>3, <2>4 DEF Moves, Now
<1>8. CASE Materialized
  <2>1. /\ job.step = "build" /\ job.todo = {} /\ job.p \in Profile
        /\ UNCHANGED <<enabled, staging>>
        /\ fresh' = fresh \union {job.p} /\ job.kind = "deploy"
        /\ Moves("project", Entries(Present(staging[job.p])))
    BY <1>a, <1>8, ProceedsAre DEF Materialized, At, JobOK
  <2>2. staging[job.p] = Farm(enabled[job.p])
    <3>1. staging[job.p] \in Tree /\ Farm(job.on) \in Tree /\ job.on = enabled[job.p]
      BY <1>a, <1>d, <2>1 DEF JobOK, TreeThere, Trees
    <3>2. \A f \in File : staging[job.p][f] = Farm(job.on)[f]
      BY <1>a, <2>1
    <3>3. QED
      BY <3>1, <3>2, TreesEqual
  <2>3. QED
    BY <1>a, <2>1, <2>2 DEF Moves, Now
<1>9. CASE Projected
  BY <1>a, ProceedsAre, <1>9 DEF Projected, Moves, Now, At
<1>10. CASE \E f \in File : Build(f)
  <2>1. PICK f \in File : Build(f)
    BY <1>10
  <2>2. /\ job.step = "build" /\ job.p \in Profile /\ job.p \notin fresh
        /\ UNCHANGED <<enabled, fresh>>
    BY <1>a, <1>c, <2>1 DEF Build, At
  <2>3. CASE job' = Idle /\ UNCHANGED staging
    BY <1>a, <1>b, <1>d, <2>2, <2>3
  <2>4. CASE SetStaged(f, Farm(job.on)[f]) /\ Without(f)
    <3>1. Moves(job.step, job.todo \ {f})
      BY <1>a, <2>4, WithoutIs DEF Moves, Now
    <3>2. Farm(job.on)[f] \in 0..NMod /\ staging[job.p] # NoTree
      BY <1>a, <1>d, <2>2 DEF Tree, TreeThere
    <3>3. /\ staging'[job.p][f] = Farm(job.on)[f]
          /\ \A g \in File : g # f => staging'[job.p][g] = staging[job.p][g]
          /\ \A p \in Profile : p # job.p => staging'[p] = staging[p]
      BY <1>a, <2>2, <2>4, <3>2, StagedIs
    <3>4. QED
      BY <1>a, <1>d, <2>2, <3>1, <3>3 DEF Moves, Now
  <2>5. QED
    BY <2>1, <2>3, <2>4 DEF Build
<1>11. CASE \E f \in File : Patch(f)
  <2>1. PICK f \in File : Patch(f)
    BY <1>11
  <2>2. /\ job.step = "patch" /\ job.kind = "hot" /\ job.p \in Profile
        /\ UNCHANGED <<enabled, fresh>>
        /\ f \in job.todo
    BY <1>a, <2>1 DEF Patch, At, JobOK
  <2>3. Farm(job.on)[f] \in 0..NMod /\ staging[job.p] # NoTree
    BY <1>a, <1>d, <2>2 DEF Tree, TreeThere
  <2>4. CASE SetStaged(f, 0) /\ UNCHANGED job
    <3>1. /\ \A g \in File : g # f => staging'[job.p][g] = staging[job.p][g]
          /\ \A p \in Profile : p # job.p => staging'[p] = staging[p]
      BY <1>a, <1>b, <2>2, <2>3, <2>4, StagedIs
    <3>2. QED
      BY <1>a, <1>d, <2>2, <2>4, <3>1
  <2>5. CASE SetStaged(f, Farm(job.on)[f]) /\ Without(f)
    <3>1. Moves(job.step, job.todo \ {f})
      BY <1>a, <2>5, WithoutIs DEF Moves, Now
    <3>2. /\ staging'[job.p][f] = Farm(job.on)[f]
          /\ \A g \in File : g # f => staging'[job.p][g] = staging[job.p][g]
          /\ \A p \in Profile : p # job.p => staging'[p] = staging[p]
      BY <1>a, <2>2, <2>3, <2>5, StagedIs
    <3>3. QED
      BY <1>a, <1>d, <2>2, <3>1, <3>2 DEF Moves, Now
  <2>6. QED
    BY <2>1, <2>4, <2>5 DEF Patch
<1>12. CASE \E e \in Entries(File) : Project(e)
  BY <1>a, ProceedsAre, <1>12 DEF Project, Moves, Now, At
<1>13. CASE \E e \in Entries(File) : Refresh(e)
  BY <1>a, ProceedsAre, <1>13 DEF Refresh, Moves, Now, At
<1>14. CASE Patched
  <2>1. /\ job.step = "patch" /\ job.kind = "hot" /\ job.todo = {} /\ job.p \in Profile
        /\ UNCHANGED <<enabled, staging, fresh>>
        /\ Moves("refresh", Entries(Changes(enabled[job.p], job.on)))
    BY <1>a, <1>14, ProceedsAre DEF Patched, At, JobOK
  <2>2. job.p \in fresh => staging[job.p] = Farm(job.on)
    <3>1. staging[job.p] \in Tree /\ Farm(job.on) \in Tree
      BY <1>a, <1>d, <2>1 DEF TreeThere, Trees
    <3>2. job.p \in fresh => \A f \in File : staging[job.p][f] = Farm(job.on)[f]
      BY <1>a, <2>1
    <3>3. QED
      BY <3>1, <3>2, TreesEqual
  <2>3. QED
    BY <1>a, <2>1, <2>2 DEF Moves, Now
<1>15. CASE Persist
  <2>1. /\ job.step = "refresh" /\ job.kind = "hot" /\ job.p \in Profile
        /\ UNCHANGED <<staging, fresh>> /\ enabled' = [enabled EXCEPT ![job.p] = job.on]
        /\ Moves("done", {})
    BY <1>a, <1>15, ProceedsAre DEF Persist, At, JobOK
  <2>2. enabled'[job.p] = job.on /\ \A p \in Profile : p # job.p => enabled'[p] = enabled[p]
    BY <1>d, <2>1
  <2>3. QED
    BY <1>a, <2>1, <2>2 DEF Moves, Now
<1>16. CASE SetAside
  <2>1. /\ job.step = "aside" /\ job.kind = "rollback" /\ job.p \in Profile
        /\ UNCHANGED <<enabled, fresh>> /\ job.p \notin fresh
        /\ Moves("restore", {})
    BY <1>a, <1>16, ProceedsAre DEF SetAside, At, JobOK
  <2>2. \A p \in Profile : p # job.p => staging'[p] = staging[p]
    BY <1>d, <1>16 DEF SetAside
  <2>3. QED
    BY <1>a, <1>d, <2>1, <2>2 DEF Moves, Now
<1>17. CASE RollbackBlocked
  BY <1>a, <1>b, <1>17 DEF RollbackBlocked, At
<1>18. CASE Restore
  <2>1. /\ job.step \in {"restore", "replace"} /\ job.kind = "rollback" /\ job.p \in Profile
        /\ UNCHANGED <<enabled, fresh>> /\ job.p \notin fresh
        /\ Moves(IF At("restore") THEN "discard" ELSE "done", {})
    BY <1>a, <1>18, ProceedsAre DEF Restore, At, JobOK
  <2>2. \A p \in Profile : p # job.p => staging'[p] = staging[p]
    BY <1>d, <1>18 DEF Restore
  <2>3. QED
    BY <1>a, <1>d, <2>1, <2>2 DEF Moves, Now
<1>19. CASE Discard
  BY <1>a, ProceedsAre, <1>19 DEF Discard, Moves, Now, At
<1>20. CASE Return
  BY <1>a, <1>b, <1>20 DEF Return, At
<1>21. CASE Fail
  BY <1>a, <1>b, <1>21 DEF Fail, At
<1>22. CASE \E p \in Profile : Preserve(p)
  BY <1>a, <1>22 DEF Preserve
<1>23. CASE \E p \in Profile, m \in Mod : Toggle(p, m)
  <2>1. PICK p \in Profile, m \in Mod : Toggle(p, m)
    BY <1>23
  <2>2. /\ job = Idle /\ UNCHANGED <<staging, job>> /\ fresh' = fresh \ {p}
        /\ \A q \in Profile : q # p => enabled'[q] = enabled[q]
    BY <1>d, <2>1 DEF Toggle
  <2>3. QED
    BY <1>a, <1>b, <1>d, <2>2
<1>q. QED
  BY <1>0, <1>1, <1>2, <1>3, <1>4, <1>5, <1>6, <1>7, <1>8, <1>9, <1>10, <1>11, <1>12, <1>13,
     <1>14, <1>15, <1>16, <1>17, <1>18, <1>19, <1>20, <1>21, <1>22, <1>23 DEF Next, Command,
     Proceed, User

---------------------------------------------------------------------------
(* The links *)

\* Placing an entry touches no other
LEMMA PlaceIs ==
  ASSUME TypeOK, job \in JobType, NEW e \in Entries(File), NEW to, Place(e, to)
  PROVE  /\ \A x \in Entries(File) : x # e => link'[x] = link[x]
         /\ UNCHANGED job \/ (Moves(job.step, job.todo \ {e}) /\ link'[e] = to)
<1>1. link \in [Entries(File) -> Profile \union {Gone}]
  BY DEF TypeOK
<1>2. CASE link' = [link EXCEPT ![e] = Gone] /\ UNCHANGED job
  BY <1>1, <1>2
<1>3. CASE link' = [link EXCEPT ![e] = to] /\ Without(e)
  BY <1>1, <1>3, WithoutIs DEF Moves, Now
<1>4. QED
  BY <1>2, <1>3 DEF Place

\* An entry that is a path is that path's
LEMMA EntryIs == \A f \in File : /\ EntryOf(f) \in Entries(File)
                                 /\ EntryOf(f) \in File => EntryOf(f) = f
BY EntriesAre, ConstantsAssumption DEF EntryOf

\* No step takes an entry of the shown profile away for good
LEMMA LinksStep == IInv /\ Next => LinksOK'
<1>0. SUFFICES ASSUME IInv, Next PROVE LinksOK'
  OBVIOUS
<1>a. TypeOK /\ JobOK /\ TreeThere /\ FreshOK /\ LinksOK /\ job \in JobType
  BY <1>0 DEF IInv, JobOK
<1>b. /\ Idle.step = "idle" /\ Idle.kind = "none" /\ Idle.p = NoProfile
      /\ NoProfile \notin Profile /\ Edited \subseteq Profile
  BY IdleIs, ConstantsAssumption
<1>c. \A s : At(s) /\ s # "idle" => job.p \in Profile
  BY <1>a DEF JobOK, At
<1>d. /\ staging \in [Profile -> Trees] /\ fresh \subseteq Profile
      /\ enabled \in [Profile -> SUBSET Mod] /\ shown \in Profile \union {NoProfile}
      /\ job.p \in Profile \union {NoProfile} /\ job.on \in SUBSET Mod
  BY <1>a DEF TypeOK
<1>e. /\ \A f \in File : EntryOf(f)' = EntryOf(f)
      /\ \A t : Present(t) \in SUBSET File
  BY <1>0, EntriesStay, PathsAre DEF EntryOf
<1>f. \A f \in File : EntryOf(f) \in Entries(File)
  BY EntriesAre
<1> USE DEF LinksOK, Linked, Patching, disk, At
<1>1. CASE \E p \in Profile : Deploy(p)
  <2>1. PICK p \in Profile : Deploy(p)
    BY <1>1
  <2>2. /\ job.kind = "none" /\ UNCHANGED <<link, shown, enabled>> /\ fresh' \subseteq fresh
    BY <1>b, <2>1 DEF Deploy
  <2>3. job'.kind \in {"deploy", "rollback"} /\ job'.step # "project"
    BY <1>a, <2>1, CommandsAre DEF Now
  <2>4. QED
    BY <1>a, <1>e, <2>2, <2>3
<1>2. CASE \E p \in Profile : GuiDeploy(p)
  <2>1. PICK p \in Profile : GuiDeploy(p)
    BY <1>2
  <2>2. /\ job.kind = "none" /\ UNCHANGED <<staging, enabled, fresh, link, shown>>
        /\ Now(job', "gui", p, enabled[p], "project", Entries(Present(staging[p])))
    BY <1>a, <1>b, <2>1, CommandsAre DEF GuiDeploy
  <2>3. \A f \in Present(staging[p]) : EntryOf(f) \in Entries(Present(staging[p]))
    BY EntriesAre
  <2>4. QED
    BY <1>a, <1>e, <2>2, <2>3 DEF Now
<1>3. CASE \E p \in Profile : Rollback(p)
  <2>1. PICK p \in Profile : Rollback(p)
    BY <1>3
  <2>2. /\ job.kind = "none" /\ UNCHANGED <<link, shown, enabled>> /\ fresh' \subseteq fresh
    BY <1>b, <2>1 DEF Rollback
  <2>3. job'.kind \in {"deploy", "rollback"} /\ job'.step # "project"
    BY <1>a, <2>1, CommandsAre DEF Now
  <2>4. QED
    BY <1>a, <1>e, <2>2, <2>3
<1>4. CASE \E p \in Edited, m \in Mod, on \in BOOLEAN : HotDeploy(p, m, on)
  <2>1. PICK p \in Profile, m \in Mod, on \in BOOLEAN : HotDeploy(p, m, on)
    BY <1>b, <1>4
  <2>2. job'.step = "patch" /\ job = Idle /\ UNCHANGED <<link, shown, fresh, enabled>>
    BY <1>a, <2>1, CommandsAre DEF Now, HotDeploy
  <2>3. QED
    BY <1>a, <1>b, <1>e, <2>2
<1>5. CASE \E p \in Edited, m \in Mod, on \in BOOLEAN : HotDeployRecords(p, m, on)
  <2>1. PICK p \in Profile, m \in Mod, on \in BOOLEAN : HotDeployRecords(p, m, on)
    BY <1>b, <1>5
  <2>2. DEFINE after == Target(p, m, on)
  <2>3. after \in SUBSET Mod
    BY <1>d DEF Target
  <2>4. /\ UNCHANGED <<link, shown, fresh, job>> /\ job = Idle
        /\ enabled' = [enabled EXCEPT ![p] = after] /\ Changes(enabled[p], after) = {}
    BY <2>1 DEF HotDeployRecords
  <2>5. Farm(enabled[p]) = Farm(after)
    BY <1>d, <2>3, <2>4, SameFarm
  <2>6. HIDE DEF after
  <2>7. \A q \in Profile : Farm(enabled'[q]) = Farm(enabled[q])
    BY <1>d, <2>3, <2>4, <2>5
  <2>8. QED
    BY <1>a, <1>b, <1>e, <2>4, <2>7
<1>6. CASE Clear
  BY <1>a, <1>e, <1>6 DEF Clear
<1>7. CASE Create
  BY <1>a, <1>e, ProceedsAre, <1>7 DEF Create, Moves, Now
<1>8. CASE Materialized
  <2>1. /\ job.kind = "deploy" /\ UNCHANGED <<link, enabled, staging>>
        /\ fresh' = fresh \union {job.p} /\ job.p \in Profile
        /\ shown' = IF shown = job.p THEN NoProfile ELSE shown
        /\ Moves("project", Entries(Present(staging[job.p])))
    BY <1>a, <1>8, ProceedsAre DEF Materialized, JobOK
  <2>2. \A f \in Present(staging[job.p]) : EntryOf(f) \in Entries(Present(staging[job.p]))
    BY EntriesAre
  <2>3. QED
    BY <1>a, <1>b, <1>d, <1>e, <2>1, <2>2 DEF Moves, Now
<1>9. CASE Projected
  <2>1. /\ job.step = "project" /\ job.todo = {} /\ job.kind \in {"deploy", "gui"}
        /\ UNCHANGED <<link, enabled, fresh>> /\ shown' = job.p /\ Moves("done", {})
    BY <1>a, <1>9, ProceedsAre DEF Projected, JobOK
  <2>2. job.p \in fresh => staging[job.p] = Farm(enabled[job.p])
    BY <1>a, <2>1 DEF FreshOK
  <2>3. QED
    BY <1>a, <1>e, <2>1, <2>2 DEF Moves, Now
<1>10. CASE \E f \in File : Build(f)
  BY <1>a, <1>b, <1>e, ProceedsAre, <1>10 DEF Build, Moves, Now
<1>11. CASE \E f \in File : Patch(f)
  BY <1>a, <1>b, <1>e, ProceedsAre, <1>11 DEF Patch, Moves, Now
<1>12. CASE \E e \in Entries(File) : Project(e)
  <2>1. PICK e \in Entries(File) : Project(e)
    BY <1>12
  <2>2. /\ job.step = "project" /\ Place(e, job.p) /\ shown' = NoProfile /\ e \in job.todo
        /\ UNCHANGED <<staging, fresh>>
    BY <2>1 DEF Project
  <2>3. /\ \A x \in Entries(File) : x # e => link'[x] = link[x]
        /\ UNCHANGED job \/ (Moves(job.step, job.todo \ {e}) /\ link'[e] = job.p)
    BY <1>a, <2>2, PlaceIs
  <2>4. shown' \notin fresh'
    BY <1>b, <1>d, <2>2
  <2>5. CASE UNCHANGED job
    BY <1>a, <1>e, <1>f, <2>2, <2>3, <2>4, <2>5
  <2>6. CASE Moves(job.step, job.todo \ {e}) /\ link'[e] = job.p
    BY <1>a, <1>e, <1>f, <2>2, <2>3, <2>4 DEF Moves, Now
  <2>7. QED
    BY <2>3, <2>5, <2>6
<1>13. CASE \E e \in Entries(File) : Refresh(e)
  <2>1. PICK e \in Entries(File) : Refresh(e)
    BY <1>13
  <2>2. DEFINE to == IF e \in File /\ staging[job.p][e] = 0 THEN Gone ELSE job.p
  <2>3. /\ job.step = "refresh" /\ job.kind = "hot" /\ Place(e, to) /\ e \in job.todo
        /\ shown' = IF shown = job.p THEN shown ELSE NoProfile
        /\ UNCHANGED <<staging, fresh, enabled>> /\ job.p \in Profile
    BY <1>a, <1>c, <2>1 DEF Refresh, JobOK
  <2>4. /\ \A x \in Entries(File) : x # e => link'[x] = link[x]
        /\ UNCHANGED job \/ (Moves(job.step, job.todo \ {e}) /\ link'[e] = to)
    BY <1>a, <2>3, PlaceIs
  <2>5. CASE shown' \notin fresh'
    BY <2>3, <2>4, <2>5 DEF Moves, Now
  <2>6. CASE shown' \in fresh'
    <3>1. shown = job.p /\ shown' = job.p /\ job.p \in fresh
      BY <1>b, <1>d, <2>3, <2>6
    <3>2. Linked(job.p, Farm(job.on), job.todo) /\ staging[job.p] = Farm(job.on)
      BY <1>a, <2>3, <3>1 DEF FreshOK
    <3>3. ASSUME NEW f \in Present(Farm(job.on)), EntryOf(f) = e
          PROVE  to = job.p
      <4>1. f \in File /\ staging[job.p][f] # 0
        BY <3>2 DEF Present
      <4>2. QED
        BY <3>3, <4>1, EntryIs
    <3>4. HIDE DEF to
    <3>5. CASE UNCHANGED job
      BY <1>e, <1>f, <2>3, <2>4, <3>1, <3>2, <3>5
    <3>6. CASE Moves(job.step, job.todo \ {e}) /\ link'[e] = to
      <4>1. /\ job'.todo = job.todo \ {e} /\ job'.step = "refresh" /\ job'.kind = "hot"
            /\ job'.p = job.p /\ job'.on = job.on
        BY <2>3, <3>6 DEF Moves, Now
      <4>2. \A f \in Present(Farm(job.on)) :
               EntryOf(f) \in job.todo \ {e} \/ link'[EntryOf(f)] = job.p
        BY <1>e, <1>f, <2>4, <3>2, <3>3, <3>6
      <4>3. QED
        BY <1>e, <3>1, <4>1, <4>2
    <3>7. QED
      BY <2>4, <3>5, <3>6
  <2>7. QED
    BY <2>5, <2>6
<1>14. CASE Patched
  <2>1. /\ job.step = "patch" /\ job.kind = "hot" /\ UNCHANGED <<link, enabled, fresh, shown>>
        /\ Moves("refresh", Entries(Changes(enabled[job.p], job.on))) /\ job.p \in Profile
    BY <1>a, <1>14, ProceedsAre DEF Patched, JobOK
  <2>2. DEFINE C == Changes(enabled[job.p], job.on)
  <2>3. /\ \A f \in File \ C : Farm(enabled[job.p])[f] = Farm(job.on)[f]
        /\ \A f \in C : EntryOf(f) \in Entries(C)
    BY <1>d, <2>1, SameFarm, EntriesAre
  <2>4. shown \in fresh => Linked(shown, Farm(enabled[shown]), {})
    BY <1>a, <2>1
  <2>5. HIDE DEF C
  <2>6. shown = job.p /\ shown \in fresh => Linked(shown, Farm(job.on), Entries(C))
    BY <2>3, <2>4 DEF Present
  <2>7. job'.todo = Entries(C) /\ job'.step = "refresh" /\ job'.p = job.p /\ job'.on = job.on
    BY <2>1 DEF C, Moves, Now
  <2>8. QED
    BY <1>e, <2>1, <2>4, <2>6, <2>7
<1>15. CASE Persist
  <2>1. /\ job.step = "refresh" /\ job.kind = "hot" /\ job.p \in Profile /\ job.todo = {}
        /\ UNCHANGED <<link, shown, fresh>> /\ enabled' = [enabled EXCEPT ![job.p] = job.on]
        /\ Moves("done", {})
    BY <1>a, <1>15, ProceedsAre DEF Persist, JobOK
  <2>2. enabled'[job.p] = job.on /\ \A p \in Profile : p # job.p => enabled'[p] = enabled[p]
    BY <1>d, <2>1
  <2>3. CASE shown = job.p
    BY <1>a, <1>e, <2>1, <2>2 DEF Moves, Now
  <2>4. CASE shown # job.p
    BY <1>a, <1>e, <2>1, <2>4 DEF Moves, Now
  <2>5. QED
    BY <2>3, <2>4
<1>16. CASE SetAside
  BY <1>a, <1>e, ProceedsAre, <1>16 DEF SetAside, Moves, Now
<1>17. CASE RollbackBlocked
  BY <1>a, <1>b, <1>e, <1>17 DEF RollbackBlocked
<1>18. CASE Restore
  BY <1>a, <1>e, ProceedsAre, <1>18 DEF Restore, Moves, Now
<1>19. CASE Discard
  BY <1>a, <1>e, ProceedsAre, <1>19 DEF Discard, Moves, Now
<1>20. CASE Return
  BY <1>a, <1>b, <1>e, <1>20 DEF Return
<1>21. CASE Fail
  BY <1>a, <1>b, <1>e, <1>21 DEF Fail
<1>22. CASE \E p \in Profile : Preserve(p)
  BY <1>a, <1>e, <1>22 DEF Preserve
<1>23. CASE \E p \in Profile, m \in Mod : Toggle(p, m)
  <2>1. PICK p \in Profile, m \in Mod : Toggle(p, m)
    BY <1>23
  <2>2. /\ job = Idle /\ UNCHANGED <<link, shown, job>> /\ fresh' = fresh \ {p}
        /\ \A q \in Profile : q # p => enabled'[q] = enabled[q]
    BY <1>d, <2>1 DEF Toggle
  <2>3. QED
    BY <1>a, <1>b, <1>d, <1>e, <2>2
<1>q. QED
  BY <1>0, <1>1, <1>2, <1>3, <1>4, <1>5, <1>6, <1>7, <1>8, <1>9, <1>10, <1>11, <1>12, <1>13,
     <1>14, <1>15, <1>16, <1>17, <1>18, <1>19, <1>20, <1>21, <1>22, <1>23 DEF Next, Command,
     Proceed, User

---------------------------------------------------------------------------
(* The restore point *)

\* A changed tree of the command's profile is no restore point, unless a copy is left
LEMMA SpentIs ==
  ASSUME TypeOK, job.p \in Profile, Spent
  PROVE  /\ \A p \in Profile : p # job.p => point'[p] = point[p]
         /\ bak[job.p] = NoTree => point'[job.p] = NoTree
         /\ bak[job.p] # NoTree => point'[job.p] = point[job.p]
BY DEF Spent, TypeOK

\* Every step keeps the restore point
LEMMA PointStep == IInv /\ Next => PointOK'
<1>0. SUFFICES ASSUME IInv, Next PROVE PointOK'
  OBVIOUS
<1>a. TypeOK /\ JobOK /\ TreeThere /\ PointOK /\ job \in JobType
  BY <1>0 DEF IInv, JobOK
<1>b. /\ Idle.step = "idle" /\ Idle.kind = "none" /\ NoProfile \notin Profile
      /\ Edited \subseteq Profile /\ 0 \in 0..NMod
  BY IdleIs, ConstantsAssumption
<1>c. \A s : At(s) /\ s # "idle" => job.p \in Profile
  BY <1>a DEF JobOK, At
<1>d. /\ staging \in [Profile -> Trees] /\ bak \in [Profile -> Trees]
      /\ point \in [Profile -> Trees]
  BY <1>a DEF TypeOK
<1> USE DEF PointOK, PointKept, disk, At
<1>1. CASE \E p \in Profile : Deploy(p)
  BY <1>a, CommandsAre, <1>1 DEF Deploy, Now
<1>2. CASE \E p \in Profile : GuiDeploy(p)
  BY <1>a, CommandsAre, <1>2 DEF GuiDeploy, Now
<1>3. CASE \E p \in Profile : Rollback(p)
  <2>1. PICK p \in Profile : Rollback(p)
    BY <1>3
  <2>2. bak[p] # NoTree /\ UNCHANGED <<staging, bak, point>> /\ job = Idle
    BY <2>1 DEF Rollback
  <2>3. job'.step \in {"replace", "aside"} /\ job'.p = p
    BY <1>a, <2>1, CommandsAre DEF Now
  <2>4. QED
    BY <1>a, <2>2, <2>3
<1>4. CASE \E p \in Edited, m \in Mod, on \in BOOLEAN : HotDeploy(p, m, on)
  <2>1. PICK p \in Profile, m \in Mod, on \in BOOLEAN : HotDeploy(p, m, on)
    BY <1>b, <1>4
  <2>2. job'.step = "patch" /\ UNCHANGED <<staging, bak, point>>
    BY <1>a, <2>1, CommandsAre DEF Now, HotDeploy
  <2>3. QED
    BY <1>a, <2>2
<1>5. CASE \E p \in Edited, m \in Mod, on \in BOOLEAN : HotDeployRecords(p, m, on)
  BY <1>a, <1>5 DEF HotDeployRecords
<1>6. CASE Clear
  <2>1. /\ job.step = "clear" /\ UNCHANGED <<job, bak>> /\ Spent /\ job.p \in Profile
        /\ staging[job.p] # NoTree /\ job.kind = "deploy"
    BY <1>a, <1>c, <1>6 DEF Clear, JobOK
  <2>2. \A p \in Profile : p # job.p => staging'[p] = staging[p]
    <3>1. CASE \E f \in File : SetStaged(f, 0)
      BY <1>a, <1>b, <2>1, <3>1, StagedIs
    <3>2. CASE staging' = [staging EXCEPT ![job.p] = NoTree]
      BY <1>d, <3>2
    <3>3. QED
      BY <1>6, <3>1, <3>2 DEF Clear, Present
  <2>3. QED
    BY <1>a, <2>1, <2>2, SpentIs
<1>7. CASE Create
  <2>1. /\ job.step = "clear" /\ job.kind = "deploy" /\ staging[job.p] = NoTree
        /\ UNCHANGED <<bak, point>> /\ job.p \in Profile
        /\ Moves("build", Present(Farm(job.on)))
    BY <1>a, <1>7, ProceedsAre DEF Create, JobOK
  <2>2. \A p \in Profile : p # job.p => staging'[p] = staging[p]
    BY <1>d, <1>7 DEF Create
  <2>3. QED
    BY <1>a, <2>1, <2>2 DEF Moves, Now
<1>8. CASE Materialized
  BY <1>a, ProceedsAre, <1>8 DEF Materialized, Moves, Now
<1>9. CASE Projected
  BY <1>a, ProceedsAre, <1>9 DEF Projected, Moves, Now, JobOK
<1>10. CASE \E f \in File : Build(f)
  <2>1. PICK f \in File : Build(f)
    BY <1>10
  <2>2. /\ Farm(job.on)[f] \in 0..NMod /\ staging[job.p] # NoTree /\ job.p \in Profile
        /\ job.step \in {"build", "patch"} /\ job.kind \in {"deploy", "hot"}
    BY <1>a, <2>1, FarmType DEF Build, Tree, JobType, JobOK, TreeThere
  <2>3. \A p \in Profile : p # job.p => staging'[p] = staging[p]
    BY <1>a, <2>1, <2>2, StagedIs DEF Build
  <2>4. UNCHANGED job \/ job' = Idle \/ Moves(job.step, job.todo \ {f})
    BY <1>a, <2>1, ProceedsAre
  <2>5. UNCHANGED <<bak, point>> /\ job.step = "build"
    BY <2>1 DEF Build
  <2>6. QED
    BY <1>a, <1>b, <2>3, <2>4, <2>5 DEF Moves, Now
<1>11. CASE \E f \in File : Patch(f)
  <2>1. PICK f \in File : Patch(f)
    BY <1>11
  <2>2. /\ Farm(job.on)[f] \in 0..NMod /\ staging[job.p] # NoTree /\ job.p \in Profile
        /\ job.step \in {"build", "patch"} /\ job.kind \in {"deploy", "hot"}
    BY <1>a, <2>1, FarmType DEF Patch, Tree, JobType, JobOK, TreeThere
  <2>3. \A p \in Profile : p # job.p => staging'[p] = staging[p]
    BY <1>a, <1>b, <2>1, <2>2, StagedIs DEF Patch
  <2>4. UNCHANGED job \/ job' = Idle \/ Moves(job.step, job.todo \ {f})
    BY <1>a, <2>1, ProceedsAre
  <2>5. UNCHANGED bak /\ job.step = "patch" /\ Spent /\ job' # Idle
    BY <1>a, <1>b, <2>1, WithoutIs DEF Patch
  <2>6. QED
    BY <1>a, <2>2, <2>3, <2>4, <2>5, SpentIs DEF Moves, Now
<1>12. CASE \E e \in Entries(File) : Project(e)
  BY <1>a, ProceedsAre, <1>12 DEF Project, Moves, Now
<1>13. CASE \E e \in Entries(File) : Refresh(e)
  BY <1>a, ProceedsAre, <1>13 DEF Refresh, Moves, Now
<1>14. CASE Patched
  BY <1>a, ProceedsAre, <1>14 DEF Patched, Moves, Now
<1>15. CASE Persist
  BY <1>a, ProceedsAre, <1>15 DEF Persist, Moves, Now, JobOK
<1>16. CASE SetAside
  <2>1. /\ job.step = "aside" /\ UNCHANGED <<bak, point>> /\ job.p \in Profile
        /\ Moves("restore", {})
    BY <1>a, <1>c, <1>16, ProceedsAre DEF SetAside
  <2>2. \A p \in Profile : p # job.p => staging'[p] = staging[p]
    BY <1>d, <1>16 DEF SetAside
  <2>3. QED
    BY <1>a, <2>1, <2>2 DEF Moves, Now
<1>17. CASE RollbackBlocked
  BY <1>a, <1>b, <1>17 DEF RollbackBlocked
<1>18. CASE Restore
  <2>1. /\ job.step \in {"restore", "replace"} /\ UNCHANGED point /\ job.p \in Profile
        /\ bak[job.p] # NoTree /\ bak[job.p] = point[job.p]
        /\ Moves(IF At("restore") THEN "discard" ELSE "done", {})
    BY <1>a, <1>c, <1>18, ProceedsAre DEF Restore
  <2>2. /\ staging'[job.p] = bak[job.p] /\ bak'[job.p] = NoTree
        /\ \A p \in Profile : p # job.p => staging'[p] = staging[p] /\ bak'[p] = bak[p]
    BY <1>d, <1>18, <2>1 DEF Restore
  <2>3. QED
    BY <1>a, <2>1, <2>2 DEF Moves, Now
<1>19. CASE Discard
  <2>1. /\ job.step = "discard" /\ UNCHANGED <<staging, bak, point>>
        /\ UNCHANGED job \/ Moves("done", {})
    BY <1>a, <1>19, ProceedsAre DEF Discard
  <2>2. QED
    BY <1>a, <2>1 DEF Moves, Now
<1>20. CASE Return
  BY <1>a, <1>b, <1>20 DEF Return
<1>21. CASE Fail
  BY <1>a, <1>b, <1>21 DEF Fail
<1>22. CASE \E p \in Profile : Preserve(p)
  <2>1. PICK p \in Profile : Preserve(p)
    BY <1>22
  <2>2. /\ job = Idle /\ UNCHANGED <<staging, job>> /\ staging[p] # NoTree
        /\ bak'[p] = staging[p] /\ point'[p] = staging[p]
        /\ \A q \in Profile : q # p => bak'[q] = bak[q] /\ point'[q] = point[q]
    BY <1>d, <2>1 DEF Preserve
  <2>3. QED
    BY <1>a, <1>b, <2>2
<1>23. CASE \E p \in Profile, m \in Mod : Toggle(p, m)
  BY <1>a, <1>23 DEF Toggle
<1>q. QED
  BY <1>0, <1>1, <1>2, <1>3, <1>4, <1>5, <1>6, <1>7, <1>8, <1>9, <1>10, <1>11, <1>12, <1>13,
     <1>14, <1>15, <1>16, <1>17, <1>18, <1>19, <1>20, <1>21, <1>22, <1>23 DEF Next, Command,
     Proceed, User

---------------------------------------------------------------------------
(* The theorems *)

\* The invariant holds when nothing was deployed yet
LEMMA InitIInv == Init => IInv
<1>0. SUFFICES ASSUME Init PROVE IInv
  OBVIOUS
<1>1. /\ job = Idle /\ Idle \in JobType /\ Idle.kind = "none" /\ Idle.p = NoProfile
      /\ Idle.on = {} /\ Idle.step = "idle" /\ Idle.todo = {} /\ NoProfile \notin Profile
      /\ MaxFaults \in Nat
  BY <1>0, IdleIs, ConstantsAssumption DEF Init
<1>2. TypeOK
  BY <1>0, <1>1 DEF Init, TypeOK, Trees, Steps
<1>3. JobOK
  BY <1>1 DEF JobOK
<1>4. TreeThere /\ Built /\ FreshOK /\ LinksOK
  BY <1>0, <1>1 DEF Init, TreeThere, Built, FreshOK, LinksOK, At
<1>5. PointOK
  BY <1>0, <1>1 DEF Init, PointOK, PointKept
<1>6. QED
  BY <1>2, <1>3, <1>4, <1>5 DEF IInv

\* It holds when nothing happens
LEMMA StutterIInv == IInv /\ UNCHANGED vars => IInv'
<1>0. SUFFICES ASSUME IInv, UNCHANGED vars PROVE IInv'
  OBVIOUS
<1>1. Entries(File)' = Entries(File) /\ \A f \in File : EntryOf(f)' = EntryOf(f)
  BY <1>0 DEF vars, Entries, EntryOf
<1>2. TypeOK' /\ JobOK' /\ TreeThere'
  BY <1>0, <1>1 DEF IInv, vars, TypeOK, JobOK, TreeThere
<1>3. Built' /\ FreshOK' /\ PointOK'
  BY <1>0 DEF IInv, vars, Built, FreshOK, PointOK, PointKept, Patching, At
<1>4. LinksOK'
  BY <1>0, <1>1, PathsAre DEF IInv, vars, LinksOK, Linked, Patching, At
<1>5. QED
  BY <1>2, <1>3, <1>4 DEF IInv

\* Every step keeps it
LEMMA NextIInv == IInv /\ [Next]_vars => IInv'
BY TypeStep, JobStep, TreeThereStep, FreshStep, LinksStep, PointStep, StutterIInv DEF IInv

\* So it always holds
LEMMA AlwaysIInv == Spec => []IInv
BY InitIInv, NextIInv, PTL DEF Spec

\* Every variable keeps its type: in particular the link of an entry always leads to a
\* profile's tree, and a tree's links to a mod or nowhere.
THEOREM DeploymentTypes == Spec => []TypeOK
<1>1. IInv => TypeOK
  BY DEF IInv
<1>2. QED
  BY <1>1, AlwaysIInv, PTL

\* A restore point is never lost to a rollback, wherever it is killed, nor to what comes
\* after: it is in staging.bak, or it is the profile's tree (vfs/mod.rs, rollback).
THEOREM RestorePointKept == Spec => []PointKept
<1>1. IInv => PointKept
  BY DEF IInv, PointOK
<1>2. QED
  BY <1>1, AlwaysIInv, PTL

\* What was projected last and is fresh is what the game sees, although a deploy removes no
\* entry and a hot deploy links only the entries it touches (vfs/mod.rs, hot_deploy.rs).
THEOREM GameShows == Spec => []GameShowsProfile
<1>1. IInv => GameShowsProfile
  <2>1. SUFFICES ASSUME IInv, job = Idle \/ At("done"), NEW p \in fresh, shown = p,
                        NEW f \in File,
                        Farm(enabled[p])[f] # 0 \/ link[EntryOf(f)] = p
                 PROVE  Seen(f) = Farm(enabled[p])[f]
    BY DEF GameShowsProfile, Shows
  <2>2. ~Patching(p) /\ ~(Patching(shown) /\ At("refresh"))
    BY <2>1, IdleIs DEF Patching, At
  <2>3. staging[p] = Farm(enabled[p]) /\ Linked(p, Farm(enabled[p]), {})
    BY <2>1, <2>2 DEF IInv, FreshOK, LinksOK
  <2>4. link[EntryOf(f)] = p
    BY <2>1, <2>3 DEF Linked, Present
  <2>5. p \in Profile /\ p # Gone /\ Farm(enabled[p]) # NoTree
    BY <2>1, FarmType, TreesAre, ConstantsAssumption DEF IInv, TypeOK
  <2>6. QED
    BY <2>3, <2>4, <2>5 DEF Seen
<1>2. QED
  BY <1>1, AlwaysIInv, PTL
=============================================================================
