--------------------------- MODULE Project_proofs ---------------------------
(***************************************************************************)
(* Proofs about what happens to one addon project outside the process that *)
(* runs it: it is built, it is renamed, and it is loaded.  Three           *)
(* specifications, which share no variable, side by side: ProjectBuild     *)
(* (Spec), RenameProject (RenameSpec) and AddonLoading (LoadSpec).         *)
(***************************************************************************)
EXTENDS ProjectBuild, RenameProject, AddonLoading, TLAPS

---------------------------------------------------------------------------
(***************************************************************************)
(* ProjectBuild, for any configurations, any number of edits and commands: *)
(* what a build wrote fits together because all of it comes from the one   *)
(* package.json it read (ReadShape, BuiltShape), and a watcher that is     *)
(* told of a change keeps it until a build reads it (WatchShape,           *)
(* NoChangeIsForgotten).                                                   *)
(***************************************************************************)

\* The steps that work from the package.json the build has read.
Reading == {"spawning", "compiling", "copying", "generating", "entry", "removing", "listing",
            "ending", "collecting"}

\* What the steps of a build know of what it read.
ReadShape ==
    /\ step \in Reading => snapshot \in Packages
    /\ step = "entry" => RunFlavors # {}
    /\ step = "removing" => entry \in RetainedFlavors
    /\ step = "collecting" => command = "package"

\* What a build of a WASI flavor has written once it is past a step.
BuiltShape ==
    command # "artifacts" /\ target \in Flavors =>
      /\ step \in Reading \ {"spawning", "compiling"} => installed[target] = LinkedLimits
      /\ step \in Reading \ {"spawning", "compiling", "copying"} => wasm[target] = LinkedLimits
      /\ step \in {"entry", "removing", "listing", "ending", "collecting"} =>
           loader[target] = resolveWasmConfig(snapshot.config, target)

\* A change that a running watcher has not read yet has not been forgotten: an
\* event, the timer, a queued build or a build that has yet to read stands for it.
NoChangeIsForgotten ==
    command = "watch" /\ dirty /\ ~stopped =>
      notified \/ timer \/ pending \/ step \in {"arming", "validating", "reading"}

\* A queued build has one to wait for, and a stopped watcher has none.
WatchShape ==
    /\ pending => step # "idle"
    /\ stopped => ~pending /\ ~timer /\ ~notified

BuildInv == TypeOK /\ ReadShape /\ BuiltShape /\ WatchShape /\ NoChangeIsForgotten

\* TypeOK in parts.
ProjectTyped ==
    /\ package \in Packages
    /\ loader \in [Flavors -> Limits \cup {None}]
    /\ installed \in [Flavors -> Limits \cup {None}]
    /\ wasm \in [Flavors -> Limits \cup {None}]
    /\ entry \in Flavors \cup {None} /\ npm \subseteq Flavors
RunTyped ==
    /\ command \in {"none", "build", "watch", "artifacts", "package"}
    /\ target \in Flavors \cup {Native} /\ step \in Steps
    /\ (step = "off") = (command = "none")
WatcherTyped ==
    notified \in BOOLEAN /\ timer \in BOOLEAN /\ pending \in BOOLEAN /\ stopped \in BOOLEAN /\ dirty \in BOOLEAN
CountsTyped == edits \in 0..MaxEdits /\ commands \in 0..MaxCommands

LEMMA TypeInParts ==
    TypeOK <=> ProjectTyped /\ snapshot \in Packages \cup {None} /\ RunTyped /\ WatcherTyped /\ CountsTyped
BY DEF TypeOK, ProjectTyped, RunTyped, WatcherTyped, CountsTyped

\* A section of the type resolves to memory limits that are pages.
LEMMA MemoryOf ==
  ASSUME NEW c \in ConfigsType, NEW f \in Flavors
  PROVE  /\ initialMemory(c, f) \in Pages /\ maximumMemory(c) \in Pages
         /\ Image \in Pages
<1>1. Image \in Pages /\ DefaultInitial \in Pages /\ DefaultMaximum \in Pages
  BY DefaultsAssumption DEF Pages
<1>2. /\ c.initialMemory \in Pages \cup {None} /\ c.threadlessInitialMemory \in Pages \cup {None}
      /\ c.maximumMemory \in Pages \cup {None}
  BY DEF ConfigsType
<1> QED
  BY <1>1, <1>2 DEF initialMemory, maximumMemory, Or

\* The module of a build accepts the memory of the loader of the same section.
LEMMA LoaderFits ==
  ASSUME NEW c \in ConfigsType, NEW f \in Flavors
  PROVE  /\ resolveWasmConfig(c, f) \in Limits /\ wasiMemoryBuildArgs(c, f) \in Limits
         /\ Accepts(wasiMemoryBuildArgs(c, f), resolveWasmConfig(c, f))
<1> DEFINE least == IF \/ c.initialMemory # None
                       \/ f = "single" /\ c.threadlessInitialMemory # None
                    THEN initialMemory(c, f) ELSE Image
<1>1. initialMemory(c, f) \in Pages /\ maximumMemory(c) \in Pages /\ Image \in Pages
  BY MemoryOf
<1>2. least \in Pages
  BY <1>1
<1>3. least <= initialMemory(c, f)
  <2>1. CASE \/ c.initialMemory # None
             \/ f = "single" /\ c.threadlessInitialMemory # None
    BY <1>1, <2>1, DefaultsAssumption DEF Pages
  <2>2. CASE ~(\/ c.initialMemory # None
               \/ f = "single" /\ c.threadlessInitialMemory # None)
    <3>1. initialMemory(c, f) = DefaultInitial
      BY <2>2 DEF initialMemory, Or, Flavors
    <3> QED
      BY <2>2, <3>1, DefaultsAssumption
  <2> QED
    BY <2>1, <2>2
<1>4. wasiMemoryBuildArgs(c, f) = [initial |-> least, maximum |-> maximumMemory(c)]
  BY DEF wasiMemoryBuildArgs
<1>5. resolveWasmConfig(c, f) = [initial |-> initialMemory(c, f), maximum |-> maximumMemory(c)]
  BY DEF resolveWasmConfig
<1> HIDE DEF least
<1>6. maximumMemory(c) <= maximumMemory(c)
  BY <1>1, DefaultsAssumption DEF Pages
<1> QED
  BY <1>1, <1>2, <1>3, <1>4, <1>5, <1>6 DEF Limits, Accepts

\* What is in package.json is of the type.
LEMMA SectionIs ==
  ASSUME NEW targets \in NewTargets
  PROVE  Section(targets) \in ConfigsType
<1>1. targets \subseteq Flavors \cup {Native, Unsupported}
  <2>1. PICK given \in {c.targets : c \in Configs} \cup {{}}, all \in BOOLEAN, defaults \in BOOLEAN,
             interactive \in BOOLEAN : targets \in promptNewOptions(given, all, defaults, interactive)
    BY DEF NewTargets
  <2>2. given \subseteq Flavors \cup {Native, Unsupported}
    BY ConfigsAssumption DEF ConfigsType
  <2> QED
    BY <2>1, <2>2 DEF promptNewOptions, AvailableTargets, DefaultTargets
<1> QED
  BY <1>1 DEF Section, ConfigsType

LEMMA PackagesTyped ==
  ASSUME NEW p \in Packages
  PROVE  p.config \in ConfigsType /\ p.listed \subseteq Flavors
BY SectionIs, ConfigsAssumption DEF Packages

\* The flavors of a section or a run are flavors.
LEMMA FlavorsOfRun ==
  /\ \A c : collectWasiFlavors(c) \subseteq Flavors
  /\ RunFlavors \subseteq Flavors /\ RetainedFlavors \subseteq Flavors
  /\ target \in Flavors => RunFlavors = {target}
  /\ RunFlavors \subseteq RetainedFlavors
BY DEF collectWasiFlavors, RunFlavors, resolveConfiguredFlavors, RetainedFlavors

LEMMA LinkedIs ==
  ASSUME snapshot \in Packages, target \in Flavors
  PROVE  /\ LinkedLimits \in Limits
         /\ resolveWasmConfig(snapshot.config, target) \in Limits
         /\ Accepts(LinkedLimits, resolveWasmConfig(snapshot.config, target))
BY PackagesTyped, LoaderFits DEF LinkedLimits

\* The command, its target and its step stay in their sets.
LEMMA RunStep ==
  ASSUME RunTyped, Next \/ UNCHANGED vars
  PROVE  RunTyped'
<1> USE DEF RunTyped, Steps
<1>1. CASE \E targets \in NewTargets : commandNew(Section(targets))
  BY <1>1 DEF commandNew, watch
<1>2. CASE \E c \in Configs : Edit(c)
  BY <1>2 DEF Edit
<1>3. CASE \E name \in {"build", "watch", "artifacts", "package"}, t \in Flavors \cup {Native} : Run(name, t)
  BY <1>3 DEF Run, files
<1>4. CASE stop
  BY <1>4 DEF stop, files, bounds
<1>5. CASE Interrupted
  BY <1>5 DEF Interrupted, ProcessExits, files, bounds
<1>6. CASE commandWatch
  BY <1>6 DEF commandWatch, ProcessExits, files, watch, bounds
<1>7. CASE FileEvent
  BY <1>7 DEF FileEvent, files, bounds
<1>8. CASE TimerFires
  BY <1>8 DEF TimerFires, files, bounds
<1>9. CASE WatcherExits
  BY <1>9 DEF WatcherExits, ProcessExits, files, bounds
<1>10. CASE commandPackage
  BY <1>10 DEF commandPackage, ProcessExits, watch, bounds
<1>11. CASE Validate
  BY <1>11 DEF Validate, ProcessExits, files, watch, bounds
<1>12. CASE ReadConfig
  BY <1>12 DEF ReadConfig, ProcessExits, BuildEnds, files, watch, bounds
<1>13. CASE EmnapiRejected
  BY <1>13 DEF EmnapiRejected, ProcessExits, files, bounds
<1>14. CASE runWatch
  BY <1>14 DEF runWatch, ProcessExits, BuildEnds, files, watch, bounds
<1>15. CASE CompileSucceeds
  BY <1>15 DEF CompileSucceeds, ProcessExits, BuildEnds, watch, bounds
<1>16. CASE CompileFails
  BY <1>16 DEF CompileFails, ProcessExits, BuildEnds, files, bounds
<1>17. CASE CopyOutputs
  BY <1>17 DEF CopyOutputs, watch, bounds
<1>18. CASE GenerateFails
  BY <1>18 DEF GenerateFails, ProcessExits, files, bounds
<1>19. CASE writeWasiFlavorArtifacts
  BY <1>19 DEF writeWasiFlavorArtifacts, AfterGenerate, watch, bounds
<1>20. CASE WriteBrowserEntry
  BY <1>20 DEF WriteBrowserEntry, watch, bounds
<1>21. CASE removeStaleWasiArtifacts
  BY <1>21 DEF removeStaleWasiArtifacts, AfterGenerate, watch, bounds
<1>22. CASE ListFiles
  BY <1>22 DEF ListFiles, bounds
<1>23. CASE Finish
  BY <1>23 DEF Finish, ProcessExits, BuildEnds, files, watch, bounds
<1>24. CASE napiArtifacts
  BY <1>24 DEF napiArtifacts, ProcessExits, files, bounds
<1>25. CASE UNCHANGED vars
  BY <1>25 DEF vars, files, watch, bounds
<1> QED
  BY <1>1, <1>2, <1>3, <1>4, <1>5, <1>6, <1>7, <1>8, <1>9, <1>10, <1>11, <1>12, <1>13,
      <1>14, <1>15, <1>16, <1>17, <1>18, <1>19, <1>20, <1>21, <1>22, <1>23, <1>24,
      <1>25 DEF Next, Build, Watcher, User

\* The bounds are kept: only the user's actions count.
LEMMA CountStep ==
  ASSUME CountsTyped, Next \/ UNCHANGED vars
  PROVE  CountsTyped'
<1>1. CASE User
  BY <1>1, BoundsAssumption DEF CountsTyped, User, commandNew, Edit, Run, stop, Interrupted, bounds
<1>2. CASE UNCHANGED bounds
  BY <1>2 DEF CountsTyped, bounds
<1> QED
  BY <1>1, <1>2 DEF Next, Watcher, commandWatch, FileEvent, TimerFires, WatcherExits,
     Build, commandPackage, Validate, ReadConfig, EmnapiRejected, runWatch, CompileSucceeds, CompileFails,
     CopyOutputs, GenerateFails, writeWasiFlavorArtifacts, WriteBrowserEntry, removeStaleWasiArtifacts,
     ListFiles, Finish, napiArtifacts, vars, bounds

\* The watcher's flags are Booleans.
LEMMA WatcherStep ==
  ASSUME WatcherTyped, Next \/ UNCHANGED vars
  PROVE  WatcherTyped'
<1> USE DEF WatcherTyped, watch, ProcessExits, BuildEnds
<1>1. CASE User
  BY <1>1 DEF User, commandNew, Edit, Run, stop, Interrupted
<1>2. CASE Watcher
  BY <1>2 DEF Watcher, commandWatch, FileEvent, TimerFires, WatcherExits
<1>3. CASE Build
  BY <1>3 DEF Build, commandPackage, Validate, ReadConfig, EmnapiRejected, runWatch, CompileSucceeds,
       CompileFails, CopyOutputs, GenerateFails, writeWasiFlavorArtifacts, WriteBrowserEntry,
       removeStaleWasiArtifacts, ListFiles, Finish, napiArtifacts
<1>4. CASE UNCHANGED vars
  BY <1>4 DEF vars
<1> QED
  BY <1>1, <1>2, <1>3, <1>4 DEF Next

\* A queued build has one to wait for.
LEMMA WatchShapeStep ==
  ASSUME WatcherTyped, RunTyped, WatchShape, Next \/ UNCHANGED vars
  PROVE  WatchShape'
<1> USE DEF WatcherTyped, RunTyped, Steps, WatchShape
<1>1. CASE \E targets \in NewTargets : commandNew(Section(targets))
  BY <1>1 DEF commandNew, watch
<1>2. CASE \E c \in Configs : Edit(c)
  BY <1>2 DEF Edit
<1>3. CASE \E name \in {"build", "watch", "artifacts", "package"}, t \in Flavors \cup {Native} : Run(name, t)
  BY <1>3 DEF Run, files
<1>4. CASE stop
  BY <1>4 DEF stop, files, bounds
<1>5. CASE Interrupted
  BY <1>5 DEF Interrupted, ProcessExits, files, bounds
<1>6. CASE commandWatch
  BY <1>6 DEF commandWatch, ProcessExits, files, watch, bounds
<1>7. CASE FileEvent
  BY <1>7 DEF FileEvent, files, bounds
<1>8. CASE TimerFires
  BY <1>8 DEF TimerFires, files, bounds
<1>9. CASE WatcherExits
  BY <1>9 DEF WatcherExits, ProcessExits, files, bounds
<1>10. CASE commandPackage
  BY <1>10 DEF commandPackage, ProcessExits, watch, bounds
<1>11. CASE Validate
  BY <1>11 DEF Validate, ProcessExits, files, watch, bounds
<1>12. CASE ReadConfig
  BY <1>12 DEF ReadConfig, ProcessExits, BuildEnds, files, watch, bounds
<1>13. CASE EmnapiRejected
  BY <1>13 DEF EmnapiRejected, ProcessExits, files, bounds
<1>14. CASE runWatch
  BY <1>14 DEF runWatch, ProcessExits, BuildEnds, files, watch, bounds
<1>15. CASE CompileSucceeds
  BY <1>15 DEF CompileSucceeds, ProcessExits, BuildEnds, watch, bounds
<1>16. CASE CompileFails
  BY <1>16 DEF CompileFails, ProcessExits, BuildEnds, files, bounds
<1>17. CASE CopyOutputs
  BY <1>17 DEF CopyOutputs, watch, bounds
<1>18. CASE GenerateFails
  BY <1>18 DEF GenerateFails, ProcessExits, files, bounds
<1>19. CASE writeWasiFlavorArtifacts
  BY <1>19 DEF writeWasiFlavorArtifacts, AfterGenerate, watch, bounds
<1>20. CASE WriteBrowserEntry
  BY <1>20 DEF WriteBrowserEntry, watch, bounds
<1>21. CASE removeStaleWasiArtifacts
  BY <1>21 DEF removeStaleWasiArtifacts, AfterGenerate, watch, bounds
<1>22. CASE ListFiles
  BY <1>22 DEF ListFiles, bounds
<1>23. CASE Finish
  BY <1>23 DEF Finish, ProcessExits, BuildEnds, files, watch, bounds
<1>24. CASE napiArtifacts
  BY <1>24 DEF napiArtifacts, ProcessExits, files, bounds
<1>25. CASE UNCHANGED vars
  BY <1>25 DEF vars, files, watch, bounds
<1> QED
  BY <1>1, <1>2, <1>3, <1>4, <1>5, <1>6, <1>7, <1>8, <1>9, <1>10, <1>11, <1>12, <1>13,
      <1>14, <1>15, <1>16, <1>17, <1>18, <1>19, <1>20, <1>21, <1>22, <1>23, <1>24,
      <1>25 DEF Next, Build, Watcher, User

\* No change is forgotten.
LEMMA ForgetStep ==
  ASSUME WatcherTyped, RunTyped, WatchShape, NoChangeIsForgotten, Next \/ UNCHANGED vars
  PROVE  NoChangeIsForgotten'
<1> USE DEF WatcherTyped, RunTyped, Steps, WatchShape, NoChangeIsForgotten
<1>1. CASE \E targets \in NewTargets : commandNew(Section(targets))
  BY <1>1 DEF commandNew, watch
<1>2. CASE \E c \in Configs : Edit(c)
  <2>1. /\ UNCHANGED <<command, step, timer, pending, stopped>>
        /\ command = "watch" /\ step # "arming" /\ ~stopped => notified'
    BY <1>2 DEF Edit
  <2> QED
    BY <2>1
<1>3. CASE \E name \in {"build", "watch", "artifacts", "package"}, t \in Flavors \cup {Native} : Run(name, t)
  BY <1>3 DEF Run, files
<1>4. CASE stop
  BY <1>4 DEF stop, files, bounds
<1>5. CASE Interrupted
  BY <1>5 DEF Interrupted, ProcessExits, files, bounds
<1>6. CASE commandWatch
  BY <1>6 DEF commandWatch, ProcessExits, files, watch, bounds
<1>7. CASE FileEvent
  BY <1>7 DEF FileEvent, files, bounds
<1>8. CASE TimerFires
  BY <1>8 DEF TimerFires, files, bounds
<1>9. CASE WatcherExits
  BY <1>9 DEF WatcherExits, ProcessExits, files, bounds
<1>10. CASE commandPackage
  BY <1>10 DEF commandPackage, ProcessExits, watch, bounds
<1>11. CASE Validate
  BY <1>11 DEF Validate, ProcessExits, files, watch, bounds
<1>12. CASE ReadConfig
  BY <1>12 DEF ReadConfig, ProcessExits, BuildEnds, files, watch, bounds
<1>13. CASE EmnapiRejected
  BY <1>13 DEF EmnapiRejected, ProcessExits, files, bounds
<1>14. CASE runWatch
  BY <1>14 DEF runWatch, ProcessExits, BuildEnds, files, watch, bounds
<1>15. CASE CompileSucceeds
  BY <1>15 DEF CompileSucceeds, ProcessExits, BuildEnds, watch, bounds
<1>16. CASE CompileFails
  BY <1>16 DEF CompileFails, ProcessExits, BuildEnds, files, bounds
<1>17. CASE CopyOutputs
  BY <1>17 DEF CopyOutputs, watch, bounds
<1>18. CASE GenerateFails
  BY <1>18 DEF GenerateFails, ProcessExits, files, bounds
<1>19. CASE writeWasiFlavorArtifacts
  BY <1>19 DEF writeWasiFlavorArtifacts, AfterGenerate, watch, bounds
<1>20. CASE WriteBrowserEntry
  BY <1>20 DEF WriteBrowserEntry, watch, bounds
<1>21. CASE removeStaleWasiArtifacts
  BY <1>21 DEF removeStaleWasiArtifacts, AfterGenerate, watch, bounds
<1>22. CASE ListFiles
  BY <1>22 DEF ListFiles, bounds
<1>23. CASE Finish
  BY <1>23 DEF Finish, ProcessExits, BuildEnds, files, watch, bounds
<1>24. CASE napiArtifacts
  BY <1>24 DEF napiArtifacts, ProcessExits, files, bounds
<1>25. CASE UNCHANGED vars
  BY <1>25 DEF vars, files, watch, bounds
<1> QED
  BY <1>1, <1>2, <1>3, <1>4, <1>5, <1>6, <1>7, <1>8, <1>9, <1>10, <1>11, <1>12, <1>13,
      <1>14, <1>15, <1>16, <1>17, <1>18, <1>19, <1>20, <1>21, <1>22, <1>23, <1>24,
      <1>25 DEF Next, Build, Watcher, User

\* What the steps know of what was read.
LEMMA ReadStep ==
  ASSUME ProjectTyped, RunTyped, ReadShape, Next \/ UNCHANGED vars
  PROVE  ReadShape'
<1> USE DEF RunTyped, ReadShape, Reading, RunFlavors, RetainedFlavors
<1>1. CASE \E targets \in NewTargets : commandNew(Section(targets))
  BY <1>1 DEF commandNew, watch
<1>2. CASE \E c \in Configs : Edit(c)
  BY <1>2 DEF Edit
<1>3. CASE \E name \in {"build", "watch", "artifacts", "package"}, t \in Flavors \cup {Native} : Run(name, t)
  BY <1>3 DEF Run, files
<1>4. CASE stop
  BY <1>4 DEF stop, files, bounds
<1>5. CASE Interrupted
  BY <1>5 DEF Interrupted, ProcessExits, files, bounds
<1>6. CASE commandWatch
  BY <1>6 DEF commandWatch, ProcessExits, files, watch, bounds
<1>7. CASE FileEvent
  BY <1>7 DEF FileEvent, files, bounds
<1>8. CASE TimerFires
  BY <1>8 DEF TimerFires, files, bounds
<1>9. CASE WatcherExits
  BY <1>9 DEF WatcherExits, ProcessExits, files, bounds
<1>10. CASE commandPackage
  BY <1>10 DEF commandPackage, ProcessExits, watch, bounds
<1>11. CASE Validate
  BY <1>11 DEF Validate, ProcessExits, files, watch, bounds
<1>12. CASE ReadConfig
  <2>1. snapshot' \in Packages /\ step' \in {"generating", "spawning", "off", "idle", "validating"}
    BY <1>12 DEF ReadConfig, ProcessExits, BuildEnds, files, ProjectTyped
  <2> QED
    BY <2>1
<1>13. CASE EmnapiRejected
  BY <1>13 DEF EmnapiRejected, ProcessExits, files, bounds
<1>14. CASE runWatch
  BY <1>14 DEF runWatch, ProcessExits, BuildEnds, files, watch, bounds
<1>15. CASE CompileSucceeds
  BY <1>15 DEF CompileSucceeds, ProcessExits, BuildEnds, watch, bounds
<1>16. CASE CompileFails
  BY <1>16 DEF CompileFails, ProcessExits, BuildEnds, files, bounds
<1>17. CASE CopyOutputs
  BY <1>17 DEF CopyOutputs, watch, bounds
<1>18. CASE GenerateFails
  BY <1>18 DEF GenerateFails, ProcessExits, files, bounds
<1>19. CASE writeWasiFlavorArtifacts
  <2>1. /\ step = "generating" /\ UNCHANGED <<snapshot, target>>
        /\ (RunFlavors = {} /\ step' \in {"ending", "listing"}) \/ (RunFlavors # {} /\ step' = "entry")
    BY <1>19 DEF writeWasiFlavorArtifacts, AfterGenerate
  <2> QED
    BY <2>1
<1>20. CASE WriteBrowserEntry
  <2>1. /\ step = "entry" /\ step' = "removing" /\ UNCHANGED <<snapshot, target>>
        /\ entry' = resolveBrowserEntryFlavor(RetainedFlavors)
    BY <1>20 DEF WriteBrowserEntry
  <2>2. resolveBrowserEntryFlavor(RetainedFlavors) \in RetainedFlavors
    <3> HIDE DEF RunFlavors, RetainedFlavors
    <3>1. RunFlavors # {}
      BY <2>1
    <3> QED
      BY <3>1, FlavorsOfRun DEF resolveBrowserEntryFlavor, Flavors
  <2>3. RetainedFlavors' = RetainedFlavors
    BY <2>1
  <2> HIDE DEF RunFlavors, RetainedFlavors
  <2> QED
    BY <2>1, <2>2, <2>3
<1>21. CASE removeStaleWasiArtifacts
  BY <1>21 DEF removeStaleWasiArtifacts, AfterGenerate, watch, bounds
<1>22. CASE ListFiles
  BY <1>22 DEF ListFiles, bounds
<1>23. CASE Finish
  BY <1>23 DEF Finish, ProcessExits, BuildEnds, files, watch, bounds
<1>24. CASE napiArtifacts
  BY <1>24 DEF napiArtifacts, ProcessExits, files, bounds
<1>25. CASE UNCHANGED vars
  BY <1>25 DEF vars, files, watch, bounds
<1> QED
  BY <1>1, <1>2, <1>3, <1>4, <1>5, <1>6, <1>7, <1>8, <1>9, <1>10, <1>11, <1>12, <1>13,
      <1>14, <1>15, <1>16, <1>17, <1>18, <1>19, <1>20, <1>21, <1>22, <1>23, <1>24,
      <1>25 DEF Next, Build, Watcher, User

\* What has been written.
LEMMA BuiltStep ==
  ASSUME ProjectTyped, RunTyped, ReadShape, BuiltShape, Next \/ UNCHANGED vars
  PROVE  BuiltShape'
<1> USE DEF RunTyped, BuiltShape, Reading, LinkedLimits
<1>1. CASE \E targets \in NewTargets : commandNew(Section(targets))
  BY <1>1 DEF commandNew, watch
<1>2. CASE \E c \in Configs : Edit(c)
  BY <1>2 DEF Edit
<1>3. CASE \E name \in {"build", "watch", "artifacts", "package"}, t \in Flavors \cup {Native} : Run(name, t)
  BY <1>3 DEF Run, files
<1>4. CASE stop
  BY <1>4 DEF stop, files, bounds
<1>5. CASE Interrupted
  BY <1>5 DEF Interrupted, ProcessExits, files, bounds
<1>6. CASE commandWatch
  BY <1>6 DEF commandWatch, ProcessExits, files, watch, bounds
<1>7. CASE FileEvent
  BY <1>7 DEF FileEvent, files, bounds
<1>8. CASE TimerFires
  BY <1>8 DEF TimerFires, files, bounds
<1>9. CASE WatcherExits
  BY <1>9 DEF WatcherExits, ProcessExits, files, bounds
<1>10. CASE commandPackage
  BY <1>10 DEF commandPackage, ProcessExits, watch, bounds
<1>11. CASE Validate
  BY <1>11 DEF Validate, ProcessExits, files, watch, bounds
<1>12. CASE ReadConfig
  BY <1>12 DEF ReadConfig, ProcessExits, BuildEnds, files, watch, bounds
<1>13. CASE EmnapiRejected
  BY <1>13 DEF EmnapiRejected, ProcessExits, files, bounds
<1>14. CASE runWatch
  BY <1>14 DEF runWatch, ProcessExits, BuildEnds, files, watch, bounds
<1>15. CASE CompileSucceeds
  <2>1. (step = "compiling" /\ UNCHANGED <<command, target, snapshot>>) \/ step' \in {"off", "idle", "validating"}
    BY <1>15 DEF CompileSucceeds, ProcessExits, BuildEnds, watch
  <2>2. target \in Flavors => installed'[target] = LinkedLimits
    BY <1>15 DEF CompileSucceeds, ProjectTyped
  <2>3. step' \in {"copying", "off", "idle", "validating"}
    BY <1>15 DEF CompileSucceeds, ProcessExits, BuildEnds, watch
  <2> QED
    BY <2>1, <2>2, <2>3
<1>16. CASE CompileFails
  BY <1>16 DEF CompileFails, ProcessExits, BuildEnds, files, bounds
<1>17. CASE CopyOutputs
  <2>1. /\ step = "copying" /\ step' = "generating" /\ UNCHANGED <<command, target, snapshot, installed>>
        /\ wasm' = [f \in Flavors |-> IF f \in RunFlavors /\ installed[f] # None THEN installed[f] ELSE wasm[f]]
    BY <1>17 DEF CopyOutputs
  <2>2. command # "artifacts" /\ target \in Flavors => wasm'[target] = LinkedLimits
    <3> SUFFICES ASSUME command # "artifacts", target \in Flavors PROVE wasm'[target] = LinkedLimits
      OBVIOUS
    <3>1. target \in RunFlavors /\ installed[target] = LinkedLimits
      BY <2>1, FlavorsOfRun
    <3>2. LinkedLimits # None
      BY <2>1, LinkedIs, NoneAssumption DEF ReadShape, Limits
    <3> HIDE DEF LinkedLimits
    <3> QED
      BY <2>1, <3>1, <3>2
  <2> QED
    BY <2>1, <2>2
<1>18. CASE GenerateFails
  BY <1>18 DEF GenerateFails, ProcessExits, files, bounds
<1>19. CASE writeWasiFlavorArtifacts
  <2>1. /\ step = "generating" /\ UNCHANGED <<command, target, snapshot, installed, wasm>>
        /\ RunFlavors # {} => loader' = [f \in Flavors |-> IF f \in RunFlavors
                                         THEN resolveWasmConfig(snapshot.config, f) ELSE loader[f]]
        /\ step' \in {"entry", "listing", "ending"}
    BY <1>19 DEF writeWasiFlavorArtifacts, AfterGenerate
  <2>2. target \in Flavors => loader'[target] = resolveWasmConfig(snapshot.config, target)
    BY <2>1, FlavorsOfRun
  <2> QED
    BY <2>1, <2>2
<1>20. CASE WriteBrowserEntry
  BY <1>20 DEF WriteBrowserEntry, watch, bounds
<1>21. CASE removeStaleWasiArtifacts
  <2>1. /\ step = "removing" /\ UNCHANGED <<command, target, snapshot, installed, wasm>>
        /\ loader' = [f \in Flavors |-> IF f \in RetainedFlavors THEN loader[f] ELSE None]
        /\ step' \in {"listing", "ending"}
    BY <1>21 DEF removeStaleWasiArtifacts, AfterGenerate
  <2>2. target \in Flavors => loader'[target] = loader[target]
    BY <2>1, FlavorsOfRun
  <2> QED
    BY <2>1, <2>2
<1>22. CASE ListFiles
  BY <1>22 DEF ListFiles, bounds
<1>23. CASE Finish
  BY <1>23 DEF Finish, ProcessExits, BuildEnds, files, watch, bounds
<1>24. CASE napiArtifacts
  BY <1>24 DEF napiArtifacts, ProcessExits, files, bounds
<1>25. CASE UNCHANGED vars
  BY <1>25 DEF vars, files, watch, bounds
<1> QED
  BY <1>1, <1>2, <1>3, <1>4, <1>5, <1>6, <1>7, <1>8, <1>9, <1>10, <1>11, <1>12, <1>13,
      <1>14, <1>15, <1>16, <1>17, <1>18, <1>19, <1>20, <1>21, <1>22, <1>23, <1>24,
      <1>25 DEF Next, Build, Watcher, User

\* Who writes files, and who reads package.json into the snapshot.
FileWrite ==
    \/ \E targets \in NewTargets : commandNew(Section(targets))
    \/ \E c \in Configs : Edit(c)
    \/ commandPackage \/ CompileSucceeds \/ CopyOutputs \/ writeWasiFlavorArtifacts
    \/ WriteBrowserEntry \/ removeStaleWasiArtifacts \/ ListFiles

LEMMA Writers ==
  ASSUME Next \/ UNCHANGED vars
  PROVE  (FileWrite \/ UNCHANGED files) /\ (ReadConfig \/ snapshot' = snapshot)
<1>1. CASE UNCHANGED vars
  BY <1>1 DEF vars
<1>2. CASE User
  BY <1>2 DEF User, FileWrite, commandNew, Edit, Run, stop, Interrupted
<1>3. CASE Watcher
  BY <1>3 DEF Watcher, commandWatch, FileEvent, TimerFires, WatcherExits
<1>4. CASE Build
  BY <1>4 DEF Build, FileWrite, commandPackage, Validate, ReadConfig, EmnapiRejected, runWatch,
       CompileSucceeds, CompileFails, CopyOutputs, GenerateFails, writeWasiFlavorArtifacts,
       WriteBrowserEntry, removeStaleWasiArtifacts, ListFiles, Finish, napiArtifacts
<1> QED
  BY <1>1, <1>2, <1>3, <1>4 DEF Next

\* The files keep their types: a flavor's limits come from what a build read.
LEMMA ProjectStep ==
  ASSUME ProjectTyped, RunTyped, ReadShape, Next \/ UNCHANGED vars
  PROVE  ProjectTyped'
<1>1. CASE UNCHANGED files
  BY <1>1 DEF files, ProjectTyped
<1>2. ASSUME NEW targets \in NewTargets, commandNew(Section(targets)) PROVE ProjectTyped'
  <2> DEFINE c == Section(targets)
  <2>1. c \in ConfigsType /\ collectWasiFlavors(c) \subseteq Flavors
    BY SectionIs, FlavorsOfRun
  <2>2. [config |-> c, listed |-> collectWasiFlavors(c)] \in Packages
    BY <2>1 DEF Packages
  <2>3. ScaffoldLoaders(c) \in [Flavors -> Limits \cup {None}]
    BY <2>1, LoaderFits DEF ScaffoldLoaders
  <2>4. ScaffoldEntry(c) \in Flavors \cup {None}
    BY DEF ScaffoldEntry, resolveBrowserEntryFlavor, Flavors
  <2> HIDE DEF c
  <2> QED
    BY <1>2, <2>1, <2>2, <2>3, <2>4 DEF c, commandNew, createNpmDirs, ProjectTyped
<1>3. ASSUME NEW c \in Configs, Edit(c) PROVE ProjectTyped'
  <2>1. [package EXCEPT !.config = c] \in Packages
    BY DEF ProjectTyped, Packages
  <2> QED
    BY <1>3, <2>1 DEF Edit, ProjectTyped
<1>4. CASE commandPackage
  BY <1>4, FlavorsOfRun DEF commandPackage, createNpmDirs, ProjectTyped
<1>5. CASE CompileSucceeds
  <2>1. target \in Flavors => LinkedLimits \in Limits
    BY <1>5, LinkedIs DEF CompileSucceeds, ReadShape, Reading
  <2>2. installed' = IF target \in Flavors THEN [installed EXCEPT ![target] = LinkedLimits] ELSE installed
    BY <1>5 DEF CompileSucceeds
  <2>3. installed' \in [Flavors -> Limits \cup {None}]
    BY <2>1, <2>2 DEF ProjectTyped
  <2> QED
    BY <1>5, <2>3 DEF CompileSucceeds, ProjectTyped
<1>6. CASE CopyOutputs
  BY <1>6 DEF CopyOutputs, ProjectTyped
<1>7. CASE writeWasiFlavorArtifacts
  <2>1. \A f \in Flavors : resolveWasmConfig(snapshot.config, f) \in Limits
    BY <1>7, PackagesTyped, LoaderFits DEF writeWasiFlavorArtifacts, ReadShape, Reading
  <2> QED
    BY <1>7, <2>1 DEF writeWasiFlavorArtifacts, ProjectTyped
<1>8. CASE WriteBrowserEntry
  BY <1>8 DEF WriteBrowserEntry, resolveBrowserEntryFlavor, Flavors, ProjectTyped
<1>9. CASE removeStaleWasiArtifacts
  BY <1>9 DEF removeStaleWasiArtifacts, ProjectTyped
<1>10. CASE ListFiles
  <2>1. snapshot \in Packages
    BY <1>10 DEF ListFiles, ReadShape, Reading
  <2>2. [snapshot EXCEPT !.listed = @ \cup {f \in Flavors : loader[f] # None}] \in Packages
    BY <2>1 DEF Packages
  <2> QED
    BY <1>10, <2>2 DEF ListFiles, ProjectTyped
<1> QED
  BY <1>1, <1>2, <1>3, <1>4, <1>5, <1>6, <1>7, <1>8, <1>9, <1>10, Writers DEF FileWrite

LEMMA SnapshotStep ==
  ASSUME ProjectTyped, snapshot \in Packages \cup {None}, Next \/ UNCHANGED vars
  PROVE  snapshot' \in Packages \cup {None}
BY Writers DEF ProjectTyped, ReadConfig

\* What a build has written fits together.
LEMMA BuiltIs ==
  ASSUME ReadShape, BuiltShape
  PROVE  BuiltFlavorMatches
<1> SUFFICES ASSUME target \in Flavors,
                    \/ step \in {"entry", "removing", "listing", "ending"} /\ command # "artifacts"
                    \/ step = "collecting"
             PROVE  /\ installed[target] # None /\ wasm[target] # None /\ loader[target] # None
                    /\ Accepts(wasm[target], loader[target]) /\ Accepts(installed[target], loader[target])
  BY DEF BuiltFlavorMatches
<1>1. snapshot \in Packages /\ command # "artifacts"
  BY DEF ReadShape, Reading
<1>2. /\ installed[target] = LinkedLimits /\ wasm[target] = LinkedLimits
      /\ loader[target] = resolveWasmConfig(snapshot.config, target)
  BY <1>1 DEF BuiltShape, Reading
<1>3. \A m \in Limits : m # None
  BY NoneAssumption DEF Limits
<1> QED
  BY <1>1, <1>2, <1>3, LinkedIs

LEMMA BuildInitHolds == Init => BuildInv
<1> SUFFICES ASSUME Init PROVE BuildInv
  OBVIOUS
<1>1. ProjectTyped
  <2>1. PICK targets \in NewTargets :
          LET c == Section(targets)
          IN  /\ package = [config |-> c, listed |-> collectWasiFlavors(c)]
              /\ loader = ScaffoldLoaders(c) /\ entry = ScaffoldEntry(c)
              /\ npm = collectWasiFlavors(c)
    BY DEF Init
  <2> DEFINE c == Section(targets)
  <2>2. c \in ConfigsType /\ collectWasiFlavors(c) \subseteq Flavors
    BY SectionIs, FlavorsOfRun
  <2>3. [config |-> c, listed |-> collectWasiFlavors(c)] \in Packages
    BY <2>2 DEF Packages
  <2>4. ScaffoldLoaders(c) \in [Flavors -> Limits \cup {None}]
    BY <2>2, LoaderFits DEF ScaffoldLoaders
  <2>5. ScaffoldEntry(c) \in Flavors \cup {None}
    BY DEF ScaffoldEntry, resolveBrowserEntryFlavor, Flavors
  <2>6. installed \in [Flavors -> Limits \cup {None}] /\ wasm \in [Flavors -> Limits \cup {None}]
    BY DEF Init
  <2>7. /\ package = [config |-> c, listed |-> collectWasiFlavors(c)] /\ loader = ScaffoldLoaders(c)
        /\ entry = ScaffoldEntry(c) /\ npm = collectWasiFlavors(c)
    BY <2>1
  <2> HIDE DEF c
  <2> QED
    BY <2>2, <2>3, <2>4, <2>5, <2>6, <2>7 DEF ProjectTyped
<1>2. TypeOK
  <2>1. snapshot \in Packages \cup {None} /\ WatcherTyped
    BY DEF Init, WatcherTyped
  <2>2. RunTyped
    BY DEF Init, RunTyped, Steps
  <2>3. CountsTyped
    BY BoundsAssumption DEF Init, CountsTyped
  <2> QED
    BY <1>1, <2>1, <2>2, <2>3, TypeInParts
<1>3. ReadShape /\ BuiltShape
  BY DEF Init, ReadShape, BuiltShape, Reading
<1>4. WatchShape /\ NoChangeIsForgotten
  BY DEF Init, WatchShape, NoChangeIsForgotten
<1> QED
  BY <1>2, <1>3, <1>4 DEF BuildInv

\* The invariant of the builds is inductive.
THEOREM BuildInductive == Spec => []BuildInv
<1>1. BuildInv /\ [Next]_vars => BuildInv'
  <2> SUFFICES ASSUME BuildInv, Next \/ UNCHANGED vars PROVE BuildInv'
    OBVIOUS
  <2>1. /\ ProjectTyped /\ snapshot \in Packages \cup {None} /\ RunTyped /\ WatcherTyped /\ CountsTyped
        /\ ReadShape /\ BuiltShape /\ WatchShape /\ NoChangeIsForgotten
    BY TypeInParts DEF BuildInv
  <2>2. TypeOK'
    <3>1. ProjectTyped' /\ snapshot' \in Packages \cup {None}
      BY <2>1, ProjectStep, SnapshotStep
    <3>2. RunTyped' /\ WatcherTyped' /\ CountsTyped'
      BY <2>1, RunStep, WatcherStep, CountStep
    <3> QED
      BY <3>1, <3>2 DEF TypeOK, ProjectTyped, RunTyped, WatcherTyped, CountsTyped
  <2>3. ReadShape' /\ BuiltShape'
    BY <2>1, ReadStep, BuiltStep
  <2>4. WatchShape' /\ NoChangeIsForgotten'
    BY <2>1, WatchShapeStep, ForgetStep
  <2> QED
    BY <2>2, <2>3, <2>4 DEF BuildInv
<1> QED
  BY <1>1, BuildInitHolds, PTL DEF Spec

\* The files of a project, the running command and its watcher stay in their sets.
THEOREM TypeCorrect == Spec => []TypeOK
<1>1. BuildInv => TypeOK
  BY DEF BuildInv
<1> QED
  BY <1>1, BuildInductive, PTL

\* The module and the loader of a flavor that was built fit together, whatever
\* was written to package.json meanwhile.
THEOREM BuildsMatch == Spec => []BuiltFlavorMatches
<1>1. BuildInv => BuiltFlavorMatches
  BY BuiltIs DEF BuildInv
<1> QED
  BY <1>1, BuildInductive, PTL

\* A change that a watcher is told of is never forgotten.
THEOREM WatcherRemembers == Spec => []NoChangeIsForgotten
<1>1. BuildInv => NoChangeIsForgotten
  BY DEF BuildInv
<1> QED
  BY <1>1, BuildInductive, PTL

\* What a run removes is not a loader of a flavor that is configured, nor of the
\* one that browser.js re-exports.
THEOREM RemovesOnlyStale == Spec => RemovalIsSafe
<1> DEFINE Safe == \A f \in Flavors : step = "removing" /\ loader[f] # None /\ loader'[f] = None
                     => f \notin collectWasiFlavors(snapshot.config) /\ entry # f
<1>1. BuildInv /\ [Next]_vars => [Safe]_vars
  <2> SUFFICES ASSUME BuildInv, Next, step = "removing",
                      NEW f \in Flavors, loader[f] # None, loader'[f] = None
               PROVE  f \notin collectWasiFlavors(snapshot.config) /\ entry # f
    OBVIOUS
  <2>1. loader' # loader
    OBVIOUS
  <2>2. command # "none" /\ entry \in RetainedFlavors
    BY DEF BuildInv, TypeOK, ReadShape
  <2>3. removeStaleWasiArtifacts
    BY <2>1, <2>2, Writers DEF files, FileWrite, commandNew, Edit, commandPackage, CompileSucceeds, CopyOutputs,
         writeWasiFlavorArtifacts, WriteBrowserEntry, ListFiles
  <2>4. f \notin RetainedFlavors
    BY <2>3 DEF removeStaleWasiArtifacts
  <2> QED
    BY <2>2, <2>4 DEF RetainedFlavors
<1> QED
  BY <1>1, BuildInductive, PTL DEF Spec, RemovalIsSafe

\* No step of a stopped watcher starts the compiler.
THEOREM NoChildAfterStop == Spec => StopStartsNoChild
<1>1. [Next]_vars => [stopped => ~(step # "compiling" /\ step' = "compiling")]_vars
  <2> SUFFICES ASSUME Next, stopped, step # "compiling", step' = "compiling" PROVE FALSE
    OBVIOUS
  <2>1. CASE User
    BY <2>1 DEF User, commandNew, Edit, Run, stop, Interrupted, ProcessExits
  <2>2. CASE Watcher
    BY <2>2 DEF Watcher, commandWatch, FileEvent, TimerFires, WatcherExits, ProcessExits
  <2>3. CASE Build
    BY <2>3 DEF Build, commandPackage, Validate, ReadConfig, EmnapiRejected, runWatch,
         CompileSucceeds, CompileFails, CopyOutputs, GenerateFails, writeWasiFlavorArtifacts,
         WriteBrowserEntry, removeStaleWasiArtifacts, ListFiles, Finish, napiArtifacts,
         BuildEnds, ProcessExits, AfterGenerate
  <2> QED
    BY <2>1, <2>2, <2>3 DEF Next
<1> QED
  BY <1>1, PTL DEF Spec, StopStartsNoChild

---------------------------------------------------------------------------
(***************************************************************************)
(* AddonLoading, for any tuples, installed artifacts and addon exports:    *)
(* the candidates before the present one were tried in vain (NativeTried,  *)
(* WasiTried), so the artifact found is the first that is permitted, and   *)
(* when the loops end there is none.                                       *)
(***************************************************************************)

\* The candidates that come before place p of the i-th name.
NativeTried(i, p) ==
  \A j \in DOMAIN Tuples, q \in 1..3 :
    j < i \/ (j = i /\ q < p) => Places[q] \notin native[Tuples[j]]
WasiTried(i, p) ==
  \A j \in 1..2, q \in 1..3 : j < i \/ (j = i /\ q < p) =>
    Skipped(wasiFlavors[j]) \/ ~LoaderLoads(wasiFlavors[j], Places[q])

NativeInstalled == libraryPath = "loads" \/ \E t \in Tuple : native[t] # {}

\* What the search for a native library leaves.
NativeSearched == nativeBinding = IF NativeInstalled THEN "native" ELSE Unset

\* The WASI search found a loader, the first that is not skipped.
Chosen ==
  /\ wasiBinding \in Flavor /\ nativeBinding = wasiBinding /\ ~Skipped(wasiBinding)
  /\ \E p \in Place : LoaderLoads(wasiBinding, p)
  /\ wasiBinding = "wasm32-wasip1" =>
       Skipped("wasm32-wasi") \/ \A p \in Place : ~LoaderLoads("wasm32-wasi", p)
  /\ reported = wasiBinding \/ (reported = Unset /\ exports.refuses)
  /\ Forced \/ ~NativeInstalled

\* The WASI search found none.
NotFound ==
  /\ wasiBinding = Unset /\ NativeSearched /\ failures > 0
  /\ \A f \in Flavor, p \in Place : Skipped(f) \/ ~LoaderLoads(f, p)

EnvironmentOK ==
  /\ requested \in Flavor \cup {Unset, "unknown"}
  /\ native \in [Tuple -> SUBSET Place]

\* Where the loops stand.
LoopShape ==
  /\ stage \in {"library", "native", "flags", "wasi", "strict", "finishing", "exported", "threw"}
  /\ at \in Nat \ {0} /\ place \in 1..3 /\ failures \in Nat
  /\ stage = "native" => at <= Len(Tuples) \/ (Tuples = <<>> /\ at = 1 /\ place = 1)
  /\ stage = "wasi" => at <= 2
  /\ stage \notin {"native", "wasi"} => at = 1 /\ place = 1

\* What has been tried and found at each stage.
SearchShape ==
  /\ stage \in {"library", "native", "flags", "wasi"} => wasiBinding = Unset
  /\ stage \in {"library", "native"} => nativeBinding = Unset
  /\ stage = "native" => libraryPath # "loads" /\ NativeTried(at, place)
  /\ stage \in {"flags", "wasi"} => NativeSearched
  /\ stage \in {"wasi", "strict"} => requested # "unknown"
  /\ stage = "wasi" =>
       /\ Forced \/ ~NativeInstalled
       /\ WasiTried(at, place)
       /\ Skipped(wasiFlavors[at]) => place = 1
       /\ place > 1 \/ (at = 2 /\ ~Skipped(wasiFlavors[1])) => failures > 0
  /\ stage = "strict" => Chosen \/ NotFound
  /\ stage = "finishing" =>
       \/ Chosen
       \/ NotFound /\ ~wasiFlavorRequested /\ forceWasi # "error"
       \/ wasiBinding = Unset /\ nativeBinding = "native" /\ NativeInstalled /\ ~Forced

LoadInv == EnvironmentOK /\ LoopShape /\ SearchShape /\ EntryPolicy

LEMMA CandidateNames ==
  /\ Len(Places) = 3 /\ Len(wasiFlavors) = 2
  /\ Places[1] = "zig-out" /\ Places[2] = "root" /\ Places[3] = "package"
  /\ wasiFlavors[1] = "wasm32-wasi" /\ wasiFlavors[2] = "wasm32-wasip1"
  /\ Place = {Places[q] : q \in 1..3}
  /\ Flavor = {"wasm32-wasi", "wasm32-wasip1"}
BY DEF Places, Place, wasiFlavors, Flavor

\* What Installed holds.
LEMMA InstalledIs ==
  /\ "native" \in Installed <=> NativeInstalled
  /\ \A f \in Flavor : f \in Installed <=> \E p \in Place : LoaderLoads(f, p)
BY CandidateNames DEF Installed, NativeInstalled

LEMMA TupleIs == DOMAIN Tuples = 1..Len(Tuples) /\ Tuple = {Tuples[i] : i \in 1..Len(Tuples)}
BY LayoutsAssumption DEF Tuple

\* When every name has been tried, there is none.
LEMMA NativeExhausted ==
  ASSUME EnvironmentOK, libraryPath # "loads",
         \A j \in DOMAIN Tuples, q \in 1..3 : Places[q] \notin native[Tuples[j]]
  PROVE  ~NativeInstalled
<1>1. ASSUME NEW t \in Tuple PROVE native[t] = {}
  <2>1. PICK j \in DOMAIN Tuples : t = Tuples[j]
    BY DEF Tuple
  <2>2. native[t] \subseteq Place
    BY DEF EnvironmentOK
  <2> QED
    BY <2>1, <2>2, CandidateNames
<1> QED
  BY <1>1 DEF NativeInstalled

LEMMA WasiExhausted ==
  ASSUME \A j \in 1..2, q \in 1..3 : Skipped(wasiFlavors[j]) \/ ~LoaderLoads(wasiFlavors[j], Places[q])
  PROVE  \A f \in Flavor, p \in Place : Skipped(f) \/ ~LoaderLoads(f, p)
<1> TAKE f \in Flavor, p \in Place
<1>1. PICK j \in 1..2 : f = wasiFlavors[j]
  BY CandidateNames
<1>2. PICK q \in 1..3 : p = Places[q]
  BY CandidateNames
<1> QED
  BY <1>1, <1>2

LEMMA LoadInitHolds == LoadInit => LoadInv
<1> SUFFICES ASSUME LoadInit PROVE LoadInv
  OBVIOUS
<1>1. EnvironmentOK
  BY LayoutsAssumption DEF LoadInit, EnvironmentOK
<1>2. LoopShape
  BY DEF LoadInit, LoopShape
<1>3. SearchShape
  BY DEF LoadInit, SearchShape
<1>4. EntryPolicy
  BY DEF LoadInit, EntryPolicy, LoadsTheRightArtifact, FailsForAReason, NamesTheArtifact
<1> QED
  BY <1>1, <1>2, <1>3, <1>4 DEF LoadInv

\* What the environment offers does not change.
LEMMA EnvironmentKept ==
  ASSUME UNCHANGED environment
  PROVE  /\ EnvironmentOK' <=> EnvironmentOK
         /\ NativeInstalled' <=> NativeInstalled
         /\ (Forced' <=> Forced) /\ (wasiFlavorRequested' <=> wasiFlavorRequested)
         /\ \A f \in Flavor : Skipped(f)' <=> Skipped(f)
         /\ \A f \in Flavor, p \in Place : LoaderLoads(f, p)' <=> LoaderLoads(f, p)
BY DEF environment, EnvironmentOK, NativeInstalled, Forced, wasiFlavorRequested, Skipped,
       LoaderLoads, ModuleFound, BindingTargetConflict

\* The policy speaks of the two last stages only.
LEMMA PolicyLater ==
  ASSUME stage' \notin {"exported", "threw"}
  PROVE  EntryPolicy'
BY DEF EntryPolicy, LoadsTheRightArtifact, FailsForAReason, NamesTheArtifact

LEMMA LibraryStep ==
  ASSUME LoadInv, requireLibraryPath
  PROVE  LoadInv'
<1> USE DEF LoadInv, requireLibraryPath
<1>1. EnvironmentOK'
  BY EnvironmentKept
<1>2. LoopShape'
  BY TupleIs DEF LoopShape
<1>3. NativeInstalled' <=> NativeInstalled
  BY EnvironmentKept
<1>4. SearchShape'
  <2>1. CASE libraryPath = "loads"
    <3>1. NativeInstalled
      BY <2>1 DEF NativeInstalled
    <3> QED
      BY <2>1, <1>3, <3>1 DEF SearchShape, NativeSearched
  <2>2. CASE libraryPath # "loads"
    <3>1. stage' = "native" /\ at' = 1 /\ place' = 1 /\ nativeBinding' = Unset /\ wasiBinding' = Unset
      BY <2>2 DEF LoopShape, SearchShape
    <3>2. libraryPath' # "loads"
      BY <2>2 DEF environment
    <3>3. NativeTried(at, place)'
      BY <3>1, TupleIs DEF NativeTried
    <3> QED
      BY <3>1, <3>2, <3>3 DEF SearchShape
  <2> QED
    BY <2>1, <2>2
<1>5. EntryPolicy'
  BY PolicyLater
<1> QED
  BY <1>1, <1>2, <1>4, <1>5

\* A candidate that is not there, and those before it, are tried.
LEMMA NativeAdvance ==
  ASSUME LoadInv, stage = "native", Tuples # <<>>, Places[place] \notin native[Tuples[at]], UNCHANGED environment,
         NEW i \in Nat, NEW p \in 1..3,
         (i = at /\ p = place + 1) \/ (i = at + 1 /\ p = 1 /\ place = 3)
  PROVE  \A j \in DOMAIN Tuples, q \in 1..3 :
            j < i \/ (j = i /\ q < p) => Places[q] \notin native'[Tuples[j]]
<1> TAKE j \in DOMAIN Tuples, q \in 1..3
<1> HAVE j < i \/ (j = i /\ q < p)
<1>1. at \in Nat /\ place \in 1..3 /\ j \in Nat
  BY TupleIs DEF LoadInv, LoopShape
<1>2. (j < at \/ (j = at /\ q < place)) \/ (j = at /\ q = place)
  BY <1>1
<1>3. native' = native /\ NativeTried(at, place)
  BY DEF environment, LoadInv, SearchShape
<1> QED
  BY <1>2, <1>3 DEF NativeTried

LEMMA TupleStep ==
  ASSUME LoadInv, requireTuple
  PROVE  LoadInv'
<1> USE DEF requireTuple
<1>1. EnvironmentOK' /\ (NativeInstalled' <=> NativeInstalled)
  BY EnvironmentKept DEF LoadInv
<1>2. at \in Nat \ {0} /\ place \in 1..3 /\ failures \in Nat /\ (Tuples = <<>> \/ at <= Len(Tuples))
      /\ Len(Tuples) \in Nat
  BY LayoutsAssumption DEF LoadInv, LoopShape
<1>3. wasiBinding' = Unset /\ nativeBinding = Unset /\ libraryPath # "loads" /\ NativeTried(at, place)
  BY DEF LoadInv, SearchShape
<1>4. EntryPolicy'
  <2>1. stage' \in {"native", "flags"}
    BY DEF Advance
  <2> QED
    BY <2>1, PolicyLater
<1>5. LoopShape' /\ SearchShape'
  <2>1. CASE Tuples = <<>>
    <3>1. stage' = "flags" /\ UNCHANGED <<at, place, nativeBinding, failures>>
      BY <2>1
    <3>2. ~NativeInstalled
      <4>1. DOMAIN Tuples = {}
        BY <2>1
      <4> QED
        BY <4>1, <1>3, NativeExhausted DEF LoadInv
    <3>3. at = 1 /\ place = 1
      BY <2>1 DEF LoadInv, LoopShape
    <3> QED
      BY <3>1, <3>2, <3>3, <1>1, <1>2, <1>3 DEF LoopShape, SearchShape, NativeSearched
  <2>2. CASE Tuples # <<>> /\ Places[place] \in native[Tuples[at]]
    <3>1. nativeBinding' = "native" /\ stage' = "flags" /\ at' = 1 /\ place' = 1 /\ failures' = failures
      BY <2>2
    <3>2. NativeInstalled
      <4>1. Tuples[at] \in Tuple
        BY <2>2, <1>2, TupleIs
      <4> QED
        BY <4>1, <2>2 DEF NativeInstalled
    <3> QED
      BY <3>1, <3>2, <1>1, <1>2, <1>3 DEF LoopShape, SearchShape, NativeSearched
  <2>3. CASE Tuples # <<>> /\ Places[place] \notin native[Tuples[at]]
    <3>1. failures' = failures + 1 /\ nativeBinding' = Unset /\ Advance(Len(Tuples), "flags") /\ stage = "native"
      BY <2>3, <1>3
    <3>2. CASE place < 3
      <4>1. place' = place + 1 /\ at' = at /\ stage' = "native"
        BY <3>1, <3>2, CandidateNames DEF Advance
      <4>2. NativeTried(at, place)'
        BY <4>1, <1>2, <2>3, NativeAdvance DEF NativeTried
      <4>3. libraryPath' # "loads"
        BY <1>3 DEF environment
      <4> QED
        BY <4>1, <4>2, <4>3, <3>1, <3>2, <1>2, <1>3 DEF LoopShape, SearchShape
    <3>3. CASE place = 3 /\ at < Len(Tuples)
      <4>1. place' = 1 /\ at' = at + 1 /\ stage' = "native"
        BY <3>1, <3>3, CandidateNames DEF Advance
      <4>2. NativeTried(at, place)'
        BY <4>1, <1>2, <2>3, <3>3, NativeAdvance DEF NativeTried
      <4>3. libraryPath' # "loads"
        BY <1>3 DEF environment
      <4> QED
        BY <4>1, <4>2, <4>3, <3>1, <3>3, <1>2, <1>3 DEF LoopShape, SearchShape
    <3>4. CASE place = 3 /\ at = Len(Tuples)
      <4>1. place' = 1 /\ at' = 1 /\ stage' = "flags"
        BY <3>1, <3>4, CandidateNames DEF Advance
      <4>2. \A j \in DOMAIN Tuples, q \in 1..3 : Places[q] \notin native[Tuples[j]]
        <5> TAKE j \in DOMAIN Tuples, q \in 1..3
        <5>1. j < at + 1
          BY <3>4, <1>2, TupleIs
        <5> QED
          BY <5>1, <3>4, <1>2, <2>3, NativeAdvance DEF environment
      <4>3. ~NativeInstalled
        BY <4>2, <1>3, NativeExhausted DEF LoadInv
      <4> QED
        BY <4>1, <4>3, <3>1, <1>1, <1>2, <1>3 DEF LoopShape, SearchShape, NativeSearched
    <3> QED
      BY <3>2, <3>3, <3>4, <1>2, <2>3
  <2> QED
    BY <2>1, <2>2, <2>3
<1> QED
  BY <1>1, <1>4, <1>5 DEF LoadInv

LEMMA ReadFlagsStep ==
  ASSUME LoadInv, readFlags
  PROVE  LoadInv'
<1> USE DEF readFlags
<1>1. EnvironmentOK' /\ (NativeInstalled' <=> NativeInstalled)
  BY EnvironmentKept DEF LoadInv
<1>2. at = 1 /\ place = 1 /\ failures \in Nat /\ wasiBinding = Unset /\ NativeSearched
      /\ requested \in Flavor \cup {Unset, "unknown"}
  BY DEF LoadInv, LoopShape, SearchShape, EnvironmentOK
<1>3. CASE wasiFlavorRequested /\ requested \notin Flavor
  <2>1. stage' = "threw" /\ requested = "unknown" /\ requested' = "unknown"
    BY <1>2, <1>3 DEF wasiFlavorRequested, environment
  <2>2. EntryPolicy'
    <3>1. FailsForAReason'
      <4>1. Permitted' = {"unknown"}
        BY <2>1, LayoutsAssumption, CandidateNames DEF Permitted, wasiFlavorRequested
      <4>2. "unknown" \notin Installed'
        BY CandidateNames DEF Installed
      <4> QED
        BY <2>1, <4>1, <4>2 DEF FailsForAReason
    <3> QED
      BY <2>1, <3>1 DEF EntryPolicy, LoadsTheRightArtifact, NamesTheArtifact
  <2>3. LoopShape' /\ SearchShape'
    BY <1>2, <2>1 DEF LoopShape, SearchShape
  <2> QED
    BY <1>1, <2>2, <2>3 DEF LoadInv
<1>4. CASE ~(wasiFlavorRequested /\ requested \notin Flavor)
  <2>1. stage' = (IF nativeBinding = Unset \/ Forced THEN "wasi" ELSE "finishing")
        /\ UNCHANGED <<at, place, nativeBinding, wasiBinding, reported, failures>>
    BY <1>4
  <2>2. LoopShape'
    BY <1>2, <2>1 DEF LoopShape
  <2>3. EntryPolicy'
    BY <2>1, PolicyLater
  <2>4. nativeBinding = Unset <=> ~NativeInstalled
    BY <1>2, LayoutsAssumption DEF NativeSearched
  <2>5. (Forced' <=> Forced) /\ (Skipped(wasiFlavors[1])' <=> Skipped(wasiFlavors[1])) /\ requested' = requested
    <3>1. requested' = requested /\ "wasm32-wasi" \in Flavor
      BY CandidateNames DEF environment
    <3> QED
      BY <3>1, EnvironmentKept, CandidateNames
  <2>6. CASE stage' = "wasi"
    <3>1. Forced \/ ~NativeInstalled
      BY <2>1, <2>4, <2>6
    <3>2. requested # "unknown"
      BY <1>4, LayoutsAssumption, CandidateNames DEF wasiFlavorRequested
    <3>3. WasiTried(at, place)'
      BY <1>2, <2>1 DEF WasiTried
    <3> QED
      BY <1>1, <1>2, <2>1, <2>2, <2>3, <2>5, <2>6, <3>1, <3>2, <3>3 DEF LoadInv,
          SearchShape, NativeSearched
  <2>7. CASE stage' = "finishing"
    <3>1. nativeBinding = "native" /\ NativeInstalled /\ ~Forced
      BY <1>2, <2>1, <2>4, <2>7 DEF NativeSearched
    <3>2. SearchShape'
      BY <1>1, <1>2, <2>1, <2>5, <2>7, <3>1 DEF SearchShape
    <3> QED
      BY <1>1, <2>2, <2>3, <3>2 DEF LoadInv
  <2> QED
    BY <2>1, <2>6, <2>7
<1> QED
  BY <1>3, <1>4

\* A name that is skipped, or a place where no loader loads, is tried.
LEMMA WasiAdvance ==
  ASSUME LoadInv, stage = "wasi", UNCHANGED environment, NEW i \in Nat, NEW p \in 1..3,
         \/ Skipped(wasiFlavors[at]) /\ i = at + 1 /\ p = 1
         \/ /\ ~LoaderLoads(wasiFlavors[at], Places[place])
            /\ (i = at /\ p = place + 1) \/ (i = at + 1 /\ p = 1 /\ place = 3)
  PROVE  \A j \in 1..2, q \in 1..3 : j < i \/ (j = i /\ q < p) =>
           /\ Skipped(wasiFlavors[j]) \/ ~LoaderLoads(wasiFlavors[j], Places[q])
           /\ Skipped(wasiFlavors[j])' \/ ~LoaderLoads(wasiFlavors[j], Places[q])'
<1> TAKE j \in 1..2, q \in 1..3
<1> HAVE j < i \/ (j = i /\ q < p)
<1>1. at \in Nat /\ place \in 1..3
  BY DEF LoadInv, LoopShape
<1>2. \/ j < at \/ (j = at /\ q < place)
      \/ j = at /\ (Skipped(wasiFlavors[at]) \/ (~LoaderLoads(wasiFlavors[at], Places[place]) /\ q = place))
  BY <1>1
<1>3. WasiTried(at, place)
  BY DEF LoadInv, SearchShape
<1>4. Skipped(wasiFlavors[j]) \/ ~LoaderLoads(wasiFlavors[j], Places[q])
  BY <1>2, <1>3 DEF WasiTried
<1>5. wasiFlavors[j] \in Flavor /\ Places[q] \in Place
  BY CandidateNames
<1> QED
  BY <1>4, <1>5, EnvironmentKept

\* All loaders of both flavors were tried in vain.
LEMMA WasiEnds ==
  ASSUME LoadInv, stage = "wasi", UNCHANGED environment, at = 2, stage' = "strict", at' = 1, place' = 1,
         wasiBinding' = Unset, nativeBinding' = nativeBinding, failures' \in Nat, failures' > 0,
         Skipped(wasiFlavors[2]) \/ (place = 3 /\ ~LoaderLoads(wasiFlavors[2], Places[3]))
  PROVE  LoadInv'
<1>1. EnvironmentOK' /\ (NativeInstalled' <=> NativeInstalled) /\ requested' = requested
  BY EnvironmentKept DEF LoadInv, environment
<1>2. \A j \in 1..2, q \in 1..3 : Skipped(wasiFlavors[j])' \/ ~LoaderLoads(wasiFlavors[j], Places[q])'
  <2> TAKE j \in 1..2, q \in 1..3
  <2>1. j < 3
    OBVIOUS
  <2> QED
    BY <2>1, WasiAdvance
<1>3. \A f \in Flavor, p \in Place : (Skipped(f) \/ ~LoaderLoads(f, p))'
  <2> TAKE f \in Flavor, p \in Place
  <2>1. PICK j \in 1..2 : f = wasiFlavors[j]
    BY CandidateNames
  <2>2. PICK q \in 1..3 : p = Places[q]
    BY CandidateNames
  <2> QED
    BY <1>2, <2>1, <2>2
<1>4. NotFound'
  BY <1>1, <1>3 DEF NotFound, NativeSearched, LoadInv, SearchShape
<1>5. LoopShape'
  BY DEF LoopShape
<1>6. SearchShape'
  BY <1>1, <1>4 DEF SearchShape, LoadInv
<1>7. EntryPolicy'
  BY PolicyLater
<1> QED
  BY <1>1, <1>5, <1>6, <1>7 DEF LoadInv

\* The next candidate is tried.
LEMMA WasiContinues ==
  ASSUME LoadInv, stage = "wasi", UNCHANGED environment, stage' = "wasi", at' \in 1..2, place' \in 1..3,
         UNCHANGED <<wasiBinding, nativeBinding>>, failures' \in Nat,
         \/ Skipped(wasiFlavors[at]) /\ at' = at + 1 /\ place' = 1 /\ failures' = failures
         \/ /\ ~LoaderLoads(wasiFlavors[at], Places[place]) /\ ~Skipped(wasiFlavors[at]) /\ failures' > 0
            /\ (at' = at /\ place' = place + 1) \/ (at' = at + 1 /\ place' = 1 /\ place = 3)
  PROVE  LoadInv'
<1>1. EnvironmentOK' /\ (NativeInstalled' <=> NativeInstalled) /\ (Forced' <=> Forced) /\ requested' = requested
  <2>1. requested' = requested
    BY DEF environment
  <2> QED
    BY <2>1, EnvironmentKept DEF LoadInv
<1>2. WasiTried(at, place)'
  <2> SUFFICES ASSUME NEW j \in 1..2, NEW q \in 1..3, j < at' \/ (j = at' /\ q < place')
               PROVE  (Skipped(wasiFlavors[j]) \/ ~LoaderLoads(wasiFlavors[j], Places[q]))'
    BY DEF WasiTried
  <2> QED
    BY WasiAdvance
<1>3. \A j \in 1..2 : Skipped(wasiFlavors[j])' <=> Skipped(wasiFlavors[j])
  BY EnvironmentKept, CandidateNames
<1>4. at \in 1..2 /\ place \in 1..3
  BY DEF LoadInv, LoopShape
<1>5. (Skipped(wasiFlavors[at]) => place = 1)'
  <2>1. CASE at' = at
    BY <1>3, <1>4, <2>1
  <2>2. CASE at' # at
    BY <2>2
  <2> QED
    BY <2>1, <2>2
<1>6. place' > 1 \/ (at' = 2 /\ ~Skipped(wasiFlavors[1])') => failures' > 0
  BY <1>3, <1>4
<1>7. LoopShape'
  BY DEF LoopShape
<1>8. SearchShape'
  BY <1>1, <1>2, <1>5, <1>6 DEF SearchShape, LoadInv, NativeSearched
<1>9. EntryPolicy'
  BY PolicyLater
<1> QED
  BY <1>1, <1>7, <1>8, <1>9 DEF LoadInv

LEMMA WasiStep ==
  ASSUME LoadInv, requireWasi
  PROVE  LoadInv'
<1>1. stage = "wasi" /\ UNCHANGED environment
  BY DEF requireWasi
<1>2. at \in 1..2 /\ place \in 1..3 /\ failures \in Nat /\ wasiBinding = Unset
  BY <1>1 DEF LoadInv, LoopShape, SearchShape
<1>3. PICK f \in Flavor : f = wasiFlavors[at]
  BY <1>2, CandidateNames
<1>7. PICK p \in Place : p = Places[place]
  BY <1>2, CandidateNames
<1>4. CASE Skipped(f)
  <2>1. place = 1 /\ (at = 2 /\ ~Skipped(wasiFlavors[1]) => failures > 0)
    BY <1>1, <1>3, <1>4 DEF LoadInv, SearchShape
  <2>2. UNCHANGED <<nativeBinding, wasiBinding, failures, place>>
    BY <1>3, <1>4 DEF requireWasi
  <2>3. CASE at = 1
    <3>1. at' = 2 /\ stage' = "wasi"
      BY <1>1, <1>3, <1>4, <2>3, CandidateNames DEF requireWasi
    <3> QED
      BY <1>1, <1>2, <1>3, <1>4, <2>1, <2>2, <2>3, <3>1, WasiContinues
  <2>4. CASE at = 2
    <3>1. at' = 1 /\ stage' = "strict"
      BY <1>3, <1>4, <2>4, CandidateNames DEF requireWasi
    <3>2. ~Skipped(wasiFlavors[1])
      BY <1>3, <1>4, <2>4, <1>1, CandidateNames DEF Skipped, LoadInv, SearchShape,
          EnvironmentOK, wasiFlavorRequested
    <3> QED
      BY <1>1, <1>2, <1>3, <1>4, <2>1, <2>2, <2>4, <3>1, <3>2, WasiEnds
  <2> QED
    BY <1>2, <2>3, <2>4
<1>5. CASE ~Skipped(f) /\ LoaderLoads(f, p)
  <2>1. /\ wasiBinding' = f /\ nativeBinding' = f /\ reported' = stampBindingTarget(f)
        /\ stage' = "strict" /\ at' = 1 /\ place' = 1 /\ failures' = failures
    BY <1>3, <1>5, <1>7 DEF requireWasi
  <2>2. ~Skipped(f)' /\ LoaderLoads(f, p)' /\ (Forced' \/ ~NativeInstalled')
    BY <1>1, <1>3, <1>5, EnvironmentKept DEF LoadInv, SearchShape
  <2>3. reported' = f \/ (reported' = Unset /\ exports'.refuses)
    BY <1>1, <2>1 DEF stampBindingTarget, environment
  <2>4. f = "wasm32-wasip1" =>
          Skipped("wasm32-wasi")' \/ \A r \in Place : ~LoaderLoads("wasm32-wasi", r)'
    <3> SUFFICES ASSUME f = "wasm32-wasip1", NEW r \in Place
                 PROVE  Skipped("wasm32-wasi")' \/ ~LoaderLoads("wasm32-wasi", r)'
      OBVIOUS
    <3>1. at = 2
      BY <1>2, <1>3, CandidateNames
    <3>2. PICK q \in 1..3 : r = Places[q]
      BY CandidateNames
    <3>3. Skipped(wasiFlavors[1]) \/ ~LoaderLoads(wasiFlavors[1], Places[q])
      BY <1>1, <3>1 DEF LoadInv, SearchShape, WasiTried
    <3> QED
      BY <1>1, <3>2, <3>3, EnvironmentKept, CandidateNames
  <2>5. Chosen'
    BY <1>3, <2>1, <2>2, <2>3, <2>4 DEF Chosen
  <2>6. EnvironmentOK' /\ requested' # "unknown"
    BY <1>1, EnvironmentKept DEF LoadInv, SearchShape, environment
  <2>7. LoopShape'
    BY <1>2, <2>1 DEF LoopShape
  <2>8. SearchShape'
    BY <2>1, <2>5, <2>6 DEF SearchShape
  <2>9. EntryPolicy'
    BY <2>1, PolicyLater
  <2> QED
    BY <2>6, <2>7, <2>8, <2>9 DEF LoadInv
<1>6. CASE ~Skipped(f) /\ ~LoaderLoads(f, p)
  <2>1. failures' = failures + 1 /\ Advance(2, "strict") /\ UNCHANGED <<nativeBinding, wasiBinding>>
    BY <1>3, <1>6, <1>7, CandidateNames DEF requireWasi
  <2>2. CASE place < 3
    <3>1. place' = place + 1 /\ at' = at /\ stage' = "wasi"
      BY <1>1, <2>1, <2>2, CandidateNames DEF Advance
    <3> QED
      BY <1>1, <1>2, <1>3, <1>6, <1>7, <2>1, <2>2, <3>1, WasiContinues
  <2>3. CASE place = 3 /\ at = 1
    <3>1. place' = 1 /\ at' = 2 /\ stage' = "wasi"
      BY <1>1, <2>1, <2>3, CandidateNames DEF Advance
    <3> QED
      BY <1>1, <1>2, <1>3, <1>6, <1>7, <2>1, <2>3, <3>1, WasiContinues
  <2>4. CASE place = 3 /\ at = 2
    <3>1. place' = 1 /\ at' = 1 /\ stage' = "strict"
      BY <1>1, <2>1, <2>4, CandidateNames DEF Advance
    <3> QED
      BY <1>1, <1>2, <1>3, <1>6, <1>7, <2>1, <2>4, <3>1, WasiEnds
  <2> QED
    BY <1>2, <2>2, <2>3, <2>4
<1> QED
  BY <1>4, <1>5, <1>6

\* The loader of a flavor that is not skipped is one that is permitted.
LEMMA ChosenIsRight ==
  ASSUME Chosen, EnvironmentOK, requested # "unknown"
  PROVE  /\ nativeBinding \in Installed \cap Permitted /\ nativeBinding \in Flavor
         /\ Forced \/ "native" \notin Installed
         /\ nativeBinding = "wasm32-wasip1" =>
              requested = "wasm32-wasip1" \/ "wasm32-wasi" \notin Installed
<1>1. nativeBinding \in Flavor /\ nativeBinding = wasiBinding
  BY DEF Chosen
<1>2. nativeBinding \in Installed /\ (Forced \/ "native" \notin Installed)
  BY <1>1, InstalledIs DEF Chosen
<1>3. nativeBinding \in Permitted
  BY <1>1 DEF Chosen, Permitted, Skipped
<1>4. nativeBinding = "wasm32-wasip1" =>
        requested = "wasm32-wasip1" \/ "wasm32-wasi" \notin Installed
  BY <1>1, InstalledIs, CandidateNames DEF Chosen, Skipped
<1> QED
  BY <1>1, <1>2, <1>3, <1>4

\* When no loader loads, no flavor that is not skipped is installed.
LEMMA NotFoundIs ==
  ASSUME NotFound, EnvironmentOK
  PROVE  /\ \A f \in Flavor : f \in Installed => Skipped(f)
         /\ wasiFlavorRequested /\ requested # "unknown" => Installed \cap Permitted = {}
         /\ ~wasiFlavorRequested => Installed \cap Flavor = {}
<1>1. \A f \in Flavor : f \in Installed => Skipped(f)
  BY InstalledIs DEF NotFound
<1>2. ASSUME wasiFlavorRequested, requested # "unknown" PROVE Installed \cap Permitted = {}
  <2>1. requested \in Flavor /\ ~Skipped(requested)
    BY <1>2 DEF EnvironmentOK, wasiFlavorRequested, Skipped
  <2> QED
    BY <1>1, <1>2, <2>1 DEF Permitted
<1>3. ASSUME ~wasiFlavorRequested PROVE Installed \cap Flavor = {}
  BY <1>1, <1>3 DEF Skipped
<1> QED
  BY <1>1, <1>2, <1>3

\* The last two steps change nothing but the stage.
LEMMA StageOnly ==
  ASSUME UNCHANGED <<environment, at, place, nativeBinding, wasiBinding, reported, failures>>
  PROVE  /\ Chosen' <=> Chosen
         /\ NotFound' <=> NotFound
         /\ NativeInstalled' <=> NativeInstalled
         /\ Installed' = Installed /\ Permitted' = Permitted
         /\ requested' = requested /\ forceWasi' = forceWasi /\ exports' = exports
         /\ Forced' <=> Forced
         /\ wasiFlavorRequested' <=> wasiFlavorRequested
BY DEF Chosen, NotFound, NativeSearched, NativeInstalled, Installed, Permitted, environment, Forced,
       wasiFlavorRequested, Skipped, LoaderLoads, ModuleFound, BindingTargetConflict

LEMMA StrictStep ==
  ASSUME LoadInv, checkStrict
  PROVE  LoadInv'
<1>1. /\ stage = "strict" /\ UNCHANGED <<environment, at, place, nativeBinding, wasiBinding, reported, failures>>
      /\ stage' = IF (forceWasi = "error" \/ wasiFlavorRequested) /\ wasiBinding = Unset
                  THEN "threw" ELSE "finishing"
  BY DEF checkStrict
<1>2. EnvironmentOK' /\ EnvironmentOK
  BY <1>1, EnvironmentKept DEF LoadInv
<1>3. LoopShape'
  BY <1>1 DEF LoadInv, LoopShape
<1>4. (Chosen \/ NotFound) /\ requested # "unknown"
  BY <1>1 DEF LoadInv, SearchShape
<1>5. Chosen => wasiBinding # Unset
  BY LayoutsAssumption DEF Chosen
<1>6. CASE stage' = "threw"
  <2>1. NotFound /\ failures > 0 /\ wasiBinding = Unset
    BY <1>1, <1>4, <1>5, <1>6 DEF NotFound
  <2>2. Installed \cap Permitted = {}
    <3>1. CASE wasiFlavorRequested
      BY <1>2, <1>4, <2>1, <3>1, NotFoundIs
    <3>2. CASE ~wasiFlavorRequested
      <4>1. forceWasi = "error"
        BY <1>1, <1>6, <3>2
      <4> QED
        BY <1>2, <2>1, <3>2, <4>1, NotFoundIs DEF Permitted
    <3> QED
      BY <3>1, <3>2
  <2>3. EntryPolicy'
    BY <1>1, <1>6, <2>1, <2>2, StageOnly
       DEF EntryPolicy, LoadsTheRightArtifact, FailsForAReason, NamesTheArtifact
  <2>4. SearchShape'
    BY <1>6 DEF SearchShape
  <2> QED
    BY <1>2, <1>3, <2>3, <2>4 DEF LoadInv
<1>7. CASE stage' = "finishing"
  <2>1. Chosen \/ (NotFound /\ ~wasiFlavorRequested /\ forceWasi # "error")
    BY <1>1, <1>4, <1>7 DEF NotFound
  <2>2. SearchShape'
    BY <1>1, <1>7, <2>1, StageOnly DEF SearchShape
  <2>3. EntryPolicy'
    BY <1>7, PolicyLater
  <2> QED
    BY <1>2, <1>3, <2>2, <2>3 DEF LoadInv
<1> QED
  BY <1>1, <1>6, <1>7

LEMMA FinishStep ==
  ASSUME LoadInv, finish
  PROVE  LoadInv'
<1>1. /\ stage = "finishing" /\ UNCHANGED <<environment, at, place, nativeBinding, wasiBinding, reported, failures>>
      /\ stage' = IF nativeBinding = Unset THEN "threw" ELSE "exported"
  BY DEF finish
<1>2. EnvironmentOK' /\ EnvironmentOK
  BY <1>1, EnvironmentKept DEF LoadInv
<1>3. LoopShape'
  BY <1>1 DEF LoadInv, LoopShape
<1>4. SearchShape'
  BY <1>1 DEF SearchShape
<1>5. \/ Chosen
      \/ NotFound /\ ~wasiFlavorRequested /\ forceWasi # "error"
      \/ wasiBinding = Unset /\ nativeBinding = "native" /\ NativeInstalled /\ ~Forced
  BY <1>1 DEF LoadInv, SearchShape
<1>6. EntryPolicy'
  <2>1. CASE Chosen
    <3>1. requested # "unknown"
      BY <1>2, <2>1, LayoutsAssumption, CandidateNames DEF Chosen, Skipped, wasiFlavorRequested
    <3>2. nativeBinding # Unset /\ stage' = "exported" /\ nativeBinding # "native"
      BY <1>1, <2>1, LayoutsAssumption, CandidateNames DEF Chosen
    <3>3. NamesTheArtifact'
      BY <1>1, <2>1, StageOnly DEF NamesTheArtifact, Chosen
    <3>4. LoadsTheRightArtifact'
      BY <1>1, <1>2, <2>1, <3>1, <3>2, ChosenIsRight, StageOnly DEF LoadsTheRightArtifact
    <3> QED
      BY <3>2, <3>3, <3>4 DEF EntryPolicy, FailsForAReason
  <2>2. CASE NotFound /\ ~wasiFlavorRequested /\ forceWasi # "error"
    <3>1. Installed \cap Flavor = {} /\ wasiBinding' = Unset /\ NativeSearched /\ failures > 0
      BY <1>1, <1>2, <2>2, NotFoundIs DEF NotFound
    <3>2. Permitted = Flavor \cup {"native"}
      BY <2>2 DEF Permitted
    <3>3. NamesTheArtifact'
      BY <3>1 DEF NamesTheArtifact
    <3>4. CASE NativeInstalled
      <4>1. nativeBinding = "native" /\ stage' = "exported"
        BY <1>1, <3>1, <3>4, LayoutsAssumption DEF NativeSearched
      <4>2. LoadsTheRightArtifact'
        BY <1>1, <3>1, <3>2, <3>4, <4>1, InstalledIs, StageOnly,
            CandidateNames DEF LoadsTheRightArtifact
      <4> QED
        BY <3>3, <4>1, <4>2 DEF EntryPolicy, FailsForAReason
    <3>5. CASE ~NativeInstalled
      <4>1. stage' = "threw"
        BY <1>1, <3>1, <3>5 DEF NativeSearched
      <4>2. Installed \cap Permitted = {}
        BY <3>1, <3>2, <3>5, InstalledIs
      <4>3. FailsForAReason'
        BY <1>1, <3>1, <4>2, StageOnly DEF FailsForAReason
      <4> QED
        BY <3>3, <4>1, <4>3 DEF EntryPolicy, LoadsTheRightArtifact
    <3> QED
      BY <3>4, <3>5
  <2>3. CASE wasiBinding = Unset /\ nativeBinding = "native" /\ NativeInstalled /\ ~Forced
    <3>1. stage' = "exported" /\ nativeBinding' = "native" /\ wasiBinding' = Unset
      BY <1>1, <2>3, LayoutsAssumption
    <3>2. "native" \in Permitted /\ forceWasi \notin {"true", "error"}
      BY <2>3 DEF Permitted, Forced
    <3>3. LoadsTheRightArtifact'
      BY <1>1, <2>3, <3>1, <3>2, InstalledIs, StageOnly, CandidateNames DEF LoadsTheRightArtifact
    <3> QED
      BY <3>1, <3>3 DEF EntryPolicy, FailsForAReason, NamesTheArtifact
  <2> QED
    BY <1>5, <2>1, <2>2, <2>3
<1> QED
  BY <1>2, <1>3, <1>4, <1>6 DEF LoadInv

LEMMA LoadStutters ==
  ASSUME LoadInv, UNCHANGED loadVars
  PROVE  LoadInv'
<1>1. UNCHANGED <<environment, at, place, nativeBinding, wasiBinding, reported, failures>> /\ stage' = stage
  BY DEF loadVars
<1>2. EnvironmentOK'
  BY <1>1, EnvironmentKept DEF LoadInv
<1>3. LoopShape'
  BY <1>1 DEF LoadInv, LoopShape
<1>4. SearchShape'
  BY <1>1 DEF LoadInv, SearchShape, NativeTried, WasiTried, NativeSearched, NativeInstalled, Chosen, NotFound,
         environment, Forced, wasiFlavorRequested, Skipped, LoaderLoads, ModuleFound,
         BindingTargetConflict
<1>5. EntryPolicy'
  BY <1>1, StageOnly DEF LoadInv, EntryPolicy, LoadsTheRightArtifact, FailsForAReason,
      NamesTheArtifact
<1> QED
  BY <1>2, <1>3, <1>4, <1>5 DEF LoadInv

\* The invariant of the search is inductive.
THEOREM LoadInductive == LoadSpec => []LoadInv
<1>1. LoadInit => LoadInv
  BY LoadInitHolds
<1>2. LoadInv /\ [LoadNext]_loadVars => LoadInv'
  <2> SUFFICES ASSUME LoadInv, LoadNext \/ UNCHANGED loadVars PROVE LoadInv'
    OBVIOUS
  <2> QED
    BY LibraryStep, TupleStep, ReadFlagsStep, WasiStep, StrictStep, FinishStep,
        LoadStutters DEF LoadNext
<1> QED
  BY <1>1, <1>2, PTL DEF LoadSpec

\* The entry loads the one artifact that its environment asks for, or says why not.
THEOREM EntryFollowsPolicy == LoadSpec => []EntryPolicy
<1>1. LoadInv => EntryPolicy
  BY DEF LoadInv
<1> QED
  BY <1>1, LoadInductive, PTL

---------------------------------------------------------------------------
(***************************************************************************)
(* RenameProject, for any project, any edits and moves, any number of      *)
(* failing file operations and of writes of another process: a rename is   *)
(* applied whole or undone whole, and leaves no temporary file.            *)
(*                                                                         *)
(* The files are a function of how many edits and moves stand: `After`     *)
(* says which, each step of the run and of its roll-back moves the tree    *)
(* from one of its values to the next, and the edits are undone only when  *)
(* no move stands.                                                         *)
(***************************************************************************)

\* What file p holds after the first w edits of the tree `base`.
WrittenAs(base, w, p) == IF p \in {EditOrder[i] : i \in 1..w} THEN "new" ELSE base[p]

MovedFrom(m) == {MoveOrder[i][1] : i \in 1..m}
MovedTo(m) == {MoveOrder[i][2] : i \in 1..m}

\* The tree after the first w edits and the first m moves of the tree `base`.
After(base, w, m) ==
  [p \in Paths |-> IF p \in MovedTo(m) THEN WrittenAs(base, w, SourceOf(p))
                   ELSE IF p \in MovedFrom(m) THEN "absent" ELSE WrittenAs(base, w, p)]

\* A base the moves may be applied to: the destinations are free.
Free(base) == base \in [Paths -> Contents] /\ \A p \in Destinations : base[p] = "absent"

Applying == {"writing", "renaming", "undoing moves", "undoing writes"}
Previewing == {"copied", "upstream", "printing", "restoring"}

-----------------------------------------------------------------------------
(* The inductive invariant.                                                  *)

\* Where the run stands.
PhaseShape ==
  /\ moved > 0 => written = Len(EditOrder)
  /\ phase = "undoing writes" => moved = 0
  /\ phase = "renaming" => written < Len(EditOrder)
  /\ phase = "staging" => ~raced
  /\ phase \in {"staging"} \cup Previewing => written = 0 /\ moved = 0
  /\ phase \in {"staging", "copied", "upstream", "printing"} \cup Applying
       => outcome = "none" /\ undone
  /\ phase \in Applying \cup {"cleaning"} => ~preview
  /\ phase \in Previewing => preview
  /\ phase = "restoring" => outcome \in {"printed", "failed"}
  /\ phase = "cleaning" => outcome \in {"renamed", "failed"}
  /\ outcome = "renamed" => undone /\ written = Len(EditOrder) /\ moved = Len(MoveOrder)
  /\ outcome = "failed" /\ undone => written = 0 /\ moved = 0

\* What the files hold, unless another process wrote into them.
TreeShape ==
  /\ phase \in Applying => Free(original)
  /\ ~raced /\ phase \in Applying \cup {"cleaning"} /\ undone
       => tree = After(original, written, moved)
  /\ ~raced /\ phase \in Previewing => tree = original

\* Which temporary files and copies there are.
TempShape ==
  /\ temps \subseteq tracked \cup half
  /\ phase \in {"staging", "writing", "renaming"} => half = {}
  /\ phase \in {"staging"} \cup Previewing => temps = {}
  /\ phase \notin Previewing \cup {"done"} => scratch = "none" /\ ~silenced
  /\ phase = "copied" => scratch = "copy"
  /\ phase \in {"copied", "printing", "done"} => ~silenced
  /\ phase = "printing" => scratch = "renamed"
  /\ phase = "restoring" /\ outcome = "printed" => scratch = "renamed"
  /\ phase = "done" /\ undone => temps \subseteq half /\ scratch = "none"

RenameInv == RenameTypeOK /\ PhaseShape /\ TreeShape /\ TempShape /\ AllOrNothing

\* The parts of the type invariant.
FilesOK ==
  /\ tree \in [Paths -> Contents] /\ original \in [Paths -> Contents]
  /\ temps \subseteq Edited /\ tracked \subseteq Edited
FlagsOK ==
  /\ phase \in {"staging", "writing", "renaming", "undoing moves", "undoing writes", "cleaning",
                "done", "copied", "upstream", "printing", "restoring"}
  /\ outcome \in {"none", "rejected", "printed", "renamed", "failed"}
  /\ dryRun \in BOOLEAN /\ raced \in BOOLEAN /\ undone \in BOOLEAN
  /\ preview \in BOOLEAN /\ silenced \in BOOLEAN
  /\ scratch \in {"none", "copy", "renamed"}
ProgressOK == written \in 0..Len(EditOrder) /\ moved \in 0..Len(MoveOrder)
BoundsOK == faults \in 0..MaxFaults /\ writes \in 0..MaxWrites

-----------------------------------------------------------------------------
(* The trees of a run, one after the other.                                  *)

\* What the two orders are made of.
LEMMA OrderFacts ==
  /\ Len(EditOrder) \in Nat /\ DOMAIN EditOrder = 1..Len(EditOrder)
  /\ Len(MoveOrder) \in Nat /\ DOMAIN MoveOrder = 1..Len(MoveOrder)
  /\ \A i \in 1..Len(EditOrder) : EditOrder[i] \in Edited \cap Paths \cap Initial
  /\ \A i \in 1..Len(MoveOrder) :
       /\ MoveOrder[i][1] \in From \cap Paths \cap Initial
       /\ MoveOrder[i][2] \in Destinations \cap Paths
       /\ MoveOrder[i][2] \notin Initial
<1>1. /\ Len(EditOrder) \in Nat /\ DOMAIN EditOrder = 1..Len(EditOrder)
      /\ Len(MoveOrder) \in Nat /\ DOMAIN MoveOrder = 1..Len(MoveOrder)
  BY OrderAssumption
<1>2. \A i \in 1..Len(EditOrder) : EditOrder[i] \in Edited
  BY <1>1 DEF Edited
<1>3. \A i \in 1..Len(MoveOrder) : MoveOrder[i][1] \in From /\ MoveOrder[i][2] \in Destinations
  BY <1>1 DEF From, Destinations
<1> QED
  BY <1>1, <1>2, <1>3, PathsAssumption

LEMMA Lengths == Len(EditOrder) \in Nat /\ Len(MoveOrder) \in Nat
BY OrderFacts

\* The walk names one source for each destination.
LEMMA SourceOfMove ==
  ASSUME NEW i \in 1..Len(MoveOrder)
  PROVE  SourceOf(MoveOrder[i][2]) = MoveOrder[i][1]
<1> DEFINE moves == {MoveOrder[j] : j \in DOMAIN MoveOrder}
<1>1. MoveOrder[i] \in moves /\ MoveOrder[i][2] = MoveOrder[i][2]
  BY OrderFacts
<1>2. ASSUME NEW m \in moves, m[2] = MoveOrder[i][2] PROVE m = MoveOrder[i]
  <2>1. PICK j \in DOMAIN MoveOrder : m = MoveOrder[j]
    OBVIOUS
  <2>2. j = i
    BY <1>2, <2>1, OrderFacts, OrderAssumption
  <2> QED
    BY <2>1, <2>2
<1> HIDE DEF moves
<1>3. (CHOOSE m \in moves : m[2] = MoveOrder[i][2]) = MoveOrder[i]
  BY <1>1, <1>2
<1> QED
  BY <1>3 DEF SourceOf, moves

\* No edit and no move is the tree itself.
LEMMA AfterNothing ==
  ASSUME NEW base \in [Paths -> Contents]
  PROVE  After(base, 0, 0) = base
BY DEF After, WrittenAs, MovedTo, MovedFrom

\* Before the moves, a tree is its edits.
LEMMA AfterEdits ==
  ASSUME NEW base, NEW w \in Nat
  PROVE  After(base, w, 0) = [p \in Paths |-> WrittenAs(base, w, p)]
BY DEF After, MovedTo, MovedFrom

\* One edit more.
LEMMA EditStep ==
  ASSUME NEW base \in [Paths -> Contents], NEW w \in Nat, w < Len(EditOrder)
  PROVE  After(base, w + 1, 0) = [After(base, w, 0) EXCEPT ![EditOrder[w + 1]] = "new"]
<1>1. w + 1 \in 1..Len(EditOrder) /\ 1..(w + 1) = 1..w \cup {w + 1}
  BY OrderFacts
<1>2. {EditOrder[i] : i \in 1..(w + 1)} = {EditOrder[i] : i \in 1..w} \cup {EditOrder[w + 1]}
  BY <1>1
<1> QED
  BY <1>1, <1>2, AfterEdits, w + 1 \in Nat DEF WrittenAs

\* One edit less: `edits` has each file once.
LEMMA UneditStep ==
  ASSUME NEW base \in [Paths -> Contents], NEW w \in Nat, w > 0, w <= Len(EditOrder)
  PROVE  After(base, w - 1, 0) = [After(base, w, 0) EXCEPT ![EditOrder[w]] = base[EditOrder[w]]]
<1>1. w \in 1..Len(EditOrder) /\ w - 1 \in Nat /\ 1..w = 1..(w - 1) \cup {w}
  BY OrderFacts
<1>2. {EditOrder[i] : i \in 1..w} = {EditOrder[i] : i \in 1..(w - 1)} \cup {EditOrder[w]}
  BY <1>1
<1>3. EditOrder[w] \notin {EditOrder[i] : i \in 1..(w - 1)}
  <2>1. \A i \in 1..(w - 1) : i \in 1..Len(EditOrder) /\ i # w
    BY <1>1, OrderFacts
  <2> QED
    BY <2>1, <1>1, OrderFacts, OrderAssumption
<1> QED
  BY <1>1, <1>2, <1>3, AfterEdits DEF WrittenAs

\* The sources and destinations of the first m moves, without the last one.
LEMMA LastMove ==
  ASSUME NEW m \in 1..Len(MoveOrder)
  PROVE  /\ m - 1 \in Nat
         /\ MovedFrom(m) = MovedFrom(m - 1) \cup {MoveOrder[m][1]}
         /\ MovedTo(m) = MovedTo(m - 1) \cup {MoveOrder[m][2]}
         /\ MoveOrder[m][1] \notin MovedFrom(m - 1)
         /\ MoveOrder[m][2] \notin MovedTo(m - 1)
         /\ MovedTo(m) \subseteq Destinations
         /\ MovedFrom(m) \subseteq Initial
<1>1. m - 1 \in Nat /\ 1..m = 1..(m - 1) \cup {m} /\ m \in 1..Len(MoveOrder)
  BY OrderFacts
<1>2. \A i \in 1..(m - 1) : i \in 1..Len(MoveOrder) /\ i # m
  BY OrderFacts
<1>3. \A i \in 1..(m - 1) : MoveOrder[i][1] # MoveOrder[m][1] /\ MoveOrder[i][2] # MoveOrder[m][2]
  BY <1>1, <1>2, OrderFacts, OrderAssumption
<1>4. /\ MovedFrom(m) = MovedFrom(m - 1) \cup {MoveOrder[m][1]}
      /\ MovedTo(m) = MovedTo(m - 1) \cup {MoveOrder[m][2]}
  BY <1>1 DEF MovedFrom, MovedTo
<1>5. MovedTo(m) \subseteq Destinations /\ MovedFrom(m) \subseteq Initial
  BY <1>1, <1>2, OrderFacts DEF MovedFrom, MovedTo
<1>6. MoveOrder[m][1] \notin MovedFrom(m - 1) /\ MoveOrder[m][2] \notin MovedTo(m - 1)
  BY <1>3 DEF MovedFrom, MovedTo
<1> QED
  BY <1>1, <1>4, <1>5, <1>6

\* What the m-th move does, and what undoing it does.
LEMMA MoveStep ==
  ASSUME NEW base, Free(base), NEW m \in 1..Len(MoveOrder), NEW k, k = m - 1,
         NEW w \in 0..Len(EditOrder)
  PROVE  LET from == MoveOrder[m][1]
             to == MoveOrder[m][2]
             before == After(base, w, k)
             after == After(base, w, m)
         IN  /\ after = [before EXCEPT ![to] = before[from], ![from] = "absent"]
             /\ before = [after EXCEPT ![from] = after[to], ![to] = "absent"]
<1> DEFINE from == MoveOrder[m][1]
           to == MoveOrder[m][2]
           before == After(base, w, k)
           after == After(base, w, m)
<1>1. /\ from \in Paths /\ from \in Initial
      /\ to \in Paths /\ to \in Destinations /\ to \notin Initial /\ from # to
  BY OrderFacts
<1>2. WrittenAs(base, w, to) = "absent"
  <2>1. \A i \in 1..w : i \in 1..Len(EditOrder)
    BY OrderFacts
  <2>2. to \notin {EditOrder[i] : i \in 1..w}
    BY <1>1, <2>1, OrderFacts
  <2> QED
    BY <1>1, <2>2 DEF WrittenAs, Free
<1>3. from \notin MovedTo(m) /\ from \notin MovedTo(k)
  BY <1>1, LastMove, PathsAssumption
<1>4. to \notin MovedFrom(m) /\ to \notin MovedFrom(k)
  BY <1>1, LastMove
<1>5. before[from] = WrittenAs(base, w, from) /\ before[to] = "absent"
  BY <1>1, <1>2, <1>3, <1>4, LastMove DEF After
<1>6. after[to] = WrittenAs(base, w, from) /\ after[from] = "absent"
  BY <1>1, <1>3, LastMove, SourceOfMove DEF After
<1>7. ASSUME NEW p \in Paths, p # from, p # to PROVE after[p] = before[p]
  BY <1>7, LastMove DEF After
<1>8. before = [p \in Paths |-> before[p]] /\ after = [p \in Paths |-> after[p]]
  BY DEF After
<1> HIDE DEF before, after, from, to
<1>9. after = [before EXCEPT ![to] = before[from], ![from] = "absent"]
  BY <1>1, <1>5, <1>6, <1>7, <1>8
<1>10. before = [after EXCEPT ![from] = after[to], ![to] = "absent"]
  BY <1>1, <1>5, <1>6, <1>7, <1>8
<1> QED
  BY <1>9, <1>10 DEF before, after, from, to

\* All edits and all moves are the renamed project.
LEMMA AfterAll ==
  ASSUME original \in [Paths -> Contents]
  PROVE  After(original, Len(EditOrder), Len(MoveOrder)) = RenamedTree
<1>1. /\ Edited = {EditOrder[i] : i \in 1..Len(EditOrder)}
      /\ From = MovedFrom(Len(MoveOrder)) /\ Destinations = MovedTo(Len(MoveOrder))
  BY OrderFacts DEF Edited, From, Destinations, MovedFrom, MovedTo
<1>2. \A p \in Paths : WrittenAs(original, Len(EditOrder), p) = EditedTree[p]
  BY <1>1 DEF WrittenAs, EditedTree
<1>3. ASSUME NEW p \in Destinations PROVE SourceOf(p) \in Paths
  <2>1. PICK i \in 1..Len(MoveOrder) : p = MoveOrder[i][2]
    BY OrderFacts DEF Destinations
  <2> QED
    BY <2>1, SourceOfMove, OrderFacts
<1> QED
  BY <1>1, <1>2, <1>3 DEF After, RenamedTree

-----------------------------------------------------------------------------
(* The steps.                                                               *)

\* The files keep their types.
LEMMA FilesStep ==
  ASSUME FilesOK, ProgressOK, PhaseShape, RenameNext
  PROVE  FilesOK'
<1> USE DEF copy
<1>1. CASE Stage
  BY <1>1 DEF Stage, FilesOK, Contents
<1>2. CASE WriteTemp
  <3>1. written + 1 \in 1..Len(EditOrder)
    <4>1. written < Len(EditOrder)
      BY <1>2 DEF WriteTemp
    <4> QED
      BY <4>1, Lengths DEF ProgressOK
  <3>2. EditOrder[written + 1] \in Paths \cap Edited
    BY <3>1, OrderFacts
  <3> QED
    BY <1>2, <3>2 DEF WriteTemp, FilesOK, Contents
<1>3. CASE RenameTemp
  <3>1. written + 1 \in 1..Len(EditOrder)
    <4>1. written < Len(EditOrder)
      BY <1>3 DEF RenameTemp, PhaseShape
    <4> QED
      BY <4>1, Lengths DEF ProgressOK
  <3>2. EditOrder[written + 1] \in Paths \cap Edited
    BY <3>1, OrderFacts
  <3> QED
    BY <1>3, <3>2 DEF RenameTemp, FilesOK, Contents
<1>4. CASE Move
  <3>1. moved + 1 \in 1..Len(MoveOrder)
    <4>1. moved < Len(MoveOrder)
      BY <1>4 DEF Move
    <4> QED
      BY <4>1, Lengths DEF ProgressOK
  <3>2. MoveOrder[moved + 1][1] \in Paths /\ MoveOrder[moved + 1][2] \in Paths
    BY <3>1, OrderFacts
  <3> QED
    BY <1>4, <3>2 DEF Move, FilesOK, Contents
<1>5. CASE Applied
  BY <1>5 DEF Applied, FilesOK, Contents
<1>6. CASE UndoMove
  <3>1. moved \in 1..Len(MoveOrder)
    <4>1. moved > 0
      BY <1>6 DEF UndoMove
    <4> QED
      BY <4>1, Lengths DEF ProgressOK
  <3>2. MoveOrder[moved][1] \in Paths /\ MoveOrder[moved][2] \in Paths
    BY <3>1, OrderFacts
  <3> QED
    BY <1>6, <3>2 DEF UndoMove, FilesOK, Contents, UndoAborts
<1>7. CASE MovesUndone
  BY <1>7 DEF MovesUndone, FilesOK, Contents
<1>8. CASE UndoWrite
  <3>1. written \in 1..Len(EditOrder)
    <4>1. written > 0
      BY <1>8 DEF UndoWrite
    <4> QED
      BY <4>1, Lengths DEF ProgressOK
  <3>2. EditOrder[written] \in Paths \cap Edited
    BY <3>1, OrderFacts
  <3> QED
    BY <1>8, <3>2 DEF UndoWrite, FilesOK, Contents, UndoAborts
<1>9. CASE RolledBack
  BY <1>9 DEF RolledBack, FilesOK, Contents
<1>10. CASE CleanUp
  BY <1>10 DEF CleanUp, Fault, NoFault, FilesOK, Contents
<1>11. CASE previewNapiRename
  <2>1. CASE PreviewCopies
    BY <2>1 DEF PreviewCopies, project, Fault, NoFault, FilesOK, Contents
  <2>2. CASE PreviewPaths
    BY <2>2 DEF PreviewPaths, project, FilesOK, Contents
  <2>3. CASE UpstreamRename
    BY <2>3 DEF UpstreamRename, project, Fault, NoFault, FilesOK, Contents
  <2>4. CASE PreviewPrints
    BY <2>4 DEF PreviewPrints, project, FilesOK, Contents
  <2>5. CASE PreviewEnds
    BY <2>5 DEF PreviewEnds, project, Fault, NoFault, FilesOK, Contents
  <2> QED
    BY <1>11, <2>1, <2>2, <2>3, <2>4, <2>5 DEF previewNapiRename
<1>12. ASSUME NEW p \in Paths, ForeignWrite(p) PROVE FilesOK'
  BY <1>12 DEF ForeignWrite, FilesOK, Contents
<1> QED
  BY <1>1, <1>2, <1>3, <1>4, <1>5, <1>6, <1>7, <1>8, <1>9, <1>10, <1>11, <1>12 DEF RenameNext

\* The states and the flags keep their types.
LEMMA FlagsStep ==
  ASSUME FlagsOK, RenameNext
  PROVE  FlagsOK'
<1> USE DEF FlagsOK, copy
<1>1. CASE Stage
  BY <1>1 DEF Stage
<1>2. CASE WriteTemp
  BY <1>2 DEF WriteTemp, Fault, NoFault
<1>3. CASE RenameTemp
  BY <1>3 DEF RenameTemp, Fault, NoFault
<1>4. CASE Move
  BY <1>4 DEF Move, Fault, NoFault
<1>5. CASE Applied
  BY <1>5 DEF Applied
<1>6. CASE UndoMove
  BY <1>6 DEF UndoMove, UndoAborts, Fault, NoFault
<1>7. CASE MovesUndone
  BY <1>7 DEF MovesUndone
<1>8. CASE UndoWrite
  BY <1>8 DEF UndoWrite, UndoAborts, Fault, NoFault
<1>9. CASE RolledBack
  BY <1>9 DEF RolledBack
<1>10. CASE CleanUp
  BY <1>10 DEF CleanUp, Fault, NoFault
<1>11. CASE previewNapiRename
  <2>1. CASE PreviewCopies
    BY <2>1 DEF PreviewCopies, project, Fault, NoFault
  <2>2. CASE PreviewPaths
    BY <2>2 DEF PreviewPaths, project
  <2>3. CASE UpstreamRename
    BY <2>3 DEF UpstreamRename, project, Fault, NoFault
  <2>4. CASE PreviewPrints
    BY <2>4 DEF PreviewPrints, project
  <2>5. CASE PreviewEnds
    BY <2>5 DEF PreviewEnds, project, Fault, NoFault
  <2> QED
    BY <1>11, <2>1, <2>2, <2>3, <2>4, <2>5 DEF previewNapiRename
<1>12. ASSUME NEW p \in Paths, ForeignWrite(p) PROVE FlagsOK'
  BY <1>12 DEF ForeignWrite
<1> QED
  BY <1>1, <1>2, <1>3, <1>4, <1>5, <1>6, <1>7, <1>8, <1>9, <1>10, <1>11, <1>12 DEF RenameNext

\* One edit or move more or less, within the orders, keeps the counts.
LEMMA ProgressKept ==
  ASSUME ProgressOK,
         written' = written \/ (written < Len(EditOrder) /\ written' = written + 1)
           \/ (written > 0 /\ written' = written - 1),
         moved' = moved \/ (moved < Len(MoveOrder) /\ moved' = moved + 1)
           \/ (moved > 0 /\ moved' = moved - 1)
  PROVE  ProgressOK'
BY Lengths DEF ProgressOK

\* So do the counts of what is applied.
LEMMA ProgressStep ==
  ASSUME ProgressOK, PhaseShape, RenameNext
  PROVE  ProgressOK'
<1> USE ProgressKept DEF copy
<1>1. CASE Stage
  BY <1>1 DEF Stage
<1>2. CASE WriteTemp
  BY <1>2 DEF WriteTemp, Fault, NoFault
<1>3. CASE RenameTemp
  BY <1>3 DEF RenameTemp, Fault, NoFault, PhaseShape
<1>4. CASE Move
  BY <1>4 DEF Move, Fault, NoFault
<1>5. CASE Applied
  BY <1>5 DEF Applied
<1>6. CASE UndoMove
  BY <1>6 DEF UndoMove, UndoAborts, Fault, NoFault
<1>7. CASE MovesUndone
  BY <1>7 DEF MovesUndone
<1>8. CASE UndoWrite
  BY <1>8 DEF UndoWrite, UndoAborts, Fault, NoFault
<1>9. CASE RolledBack
  BY <1>9 DEF RolledBack
<1>10. CASE CleanUp
  BY <1>10 DEF CleanUp, Fault, NoFault
<1>11. CASE previewNapiRename
  <2>1. CASE PreviewCopies
    BY <2>1 DEF PreviewCopies, project, Fault, NoFault
  <2>2. CASE PreviewPaths
    BY <2>2 DEF PreviewPaths, project
  <2>3. CASE UpstreamRename
    BY <2>3 DEF UpstreamRename, project, Fault, NoFault
  <2>4. CASE PreviewPrints
    BY <2>4 DEF PreviewPrints, project
  <2>5. CASE PreviewEnds
    BY <2>5 DEF PreviewEnds, project, Fault, NoFault
  <2> QED
    BY <1>11, <2>1, <2>2, <2>3, <2>4, <2>5 DEF previewNapiRename
<1>12. ASSUME NEW p \in Paths, ForeignWrite(p) PROVE ProgressOK'
  BY <1>12 DEF ForeignWrite
<1> QED
  BY <1>1, <1>2, <1>3, <1>4, <1>5, <1>6, <1>7, <1>8, <1>9, <1>10, <1>11, <1>12 DEF RenameNext

\* So do the counts of faults and foreign writes.
LEMMA BoundsStep ==
  ASSUME BoundsOK, RenameNext
  PROVE  BoundsOK'
<1> USE PathsAssumption DEF BoundsOK, copy
<1>1. CASE Stage
  BY <1>1 DEF Stage
<1>2. CASE WriteTemp
  <3>1. faults' = faults \/ (faults < MaxFaults /\ faults' = faults + 1)
    BY <1>2 DEF WriteTemp, Fault, NoFault
  <3>2. writes' = writes
    BY <1>2 DEF WriteTemp
  <3> QED
    BY <3>1, <3>2
<1>3. CASE RenameTemp
  <3>1. faults' = faults \/ (faults < MaxFaults /\ faults' = faults + 1)
    BY <1>3 DEF RenameTemp, Fault, NoFault
  <3>2. writes' = writes
    BY <1>3 DEF RenameTemp
  <3> QED
    BY <3>1, <3>2
<1>4. CASE Move
  <3>1. faults' = faults \/ (faults < MaxFaults /\ faults' = faults + 1)
    BY <1>4 DEF Move, Fault, NoFault
  <3>2. writes' = writes
    BY <1>4 DEF Move
  <3> QED
    BY <3>1, <3>2
<1>5. CASE Applied
  BY <1>5 DEF Applied
<1>6. CASE UndoMove
  <3>1. faults' = faults \/ (faults < MaxFaults /\ faults' = faults + 1)
    BY <1>6 DEF UndoMove, Fault, NoFault, UndoAborts
  <3>2. writes' = writes
    BY <1>6 DEF UndoMove
  <3> QED
    BY <3>1, <3>2
<1>7. CASE MovesUndone
  BY <1>7 DEF MovesUndone
<1>8. CASE UndoWrite
  <3>1. faults' = faults \/ (faults < MaxFaults /\ faults' = faults + 1)
    BY <1>8 DEF UndoWrite, Fault, NoFault, UndoAborts
  <3>2. writes' = writes
    BY <1>8 DEF UndoWrite
  <3> QED
    BY <3>1, <3>2
<1>9. CASE RolledBack
  BY <1>9 DEF RolledBack
<1>10. CASE CleanUp
  BY <1>10 DEF CleanUp, Fault, NoFault
<1>11. CASE previewNapiRename
  <2>1. CASE PreviewCopies
    BY <2>1 DEF PreviewCopies, project, Fault, NoFault
  <2>2. CASE PreviewPaths
    BY <2>2 DEF PreviewPaths, project
  <2>3. CASE UpstreamRename
    BY <2>3 DEF UpstreamRename, project, Fault, NoFault
  <2>4. CASE PreviewPrints
    BY <2>4 DEF PreviewPrints, project
  <2>5. CASE PreviewEnds
    BY <2>5 DEF PreviewEnds, project, Fault, NoFault
  <2> QED
    BY <1>11, <2>1, <2>2, <2>3, <2>4, <2>5 DEF previewNapiRename
<1>12. ASSUME NEW p \in Paths, ForeignWrite(p) PROVE BoundsOK'
  BY <1>12 DEF ForeignWrite
<1> QED
  BY <1>1, <1>2, <1>3, <1>4, <1>5, <1>6, <1>7, <1>8, <1>9, <1>10, <1>11, <1>12 DEF RenameNext

\* Every step keeps where the run stands.
LEMMA PhaseStep ==
  ASSUME PhaseShape, ProgressOK, FlagsOK, RenameNext
  PROVE  PhaseShape'
<1> USE DEF copy
<1>1. CASE Stage
  BY <1>1 DEF Stage, PhaseShape, Applying, Previewing
<1>2. CASE WriteTemp
  BY <1>2, Lengths DEF WriteTemp, Fault, NoFault, PhaseShape, Applying, Previewing, ProgressOK
<1>3. CASE RenameTemp
  <3>1. phase = "renaming" /\ written < Len(EditOrder) /\ moved' = moved
    BY <1>3 DEF RenameTemp, PhaseShape
  <3>2. ~(moved > 0)
    BY <3>1, Lengths DEF ProgressOK, PhaseShape
  <3>3. outcome' = "none" /\ undone' /\ ~preview'
    BY <1>3, <3>1 DEF RenameTemp, PhaseShape, Applying, FlagsOK, copy
  <3>4. phase' = "writing" \/ phase' = "undoing moves"
    BY <1>3 DEF RenameTemp
  <3> QED
    BY <3>1, <3>2, <3>3, <3>4 DEF PhaseShape, Applying, Previewing
<1>4. CASE Move
  BY <1>4 DEF Move, Fault, NoFault, PhaseShape, Applying, Previewing, ProgressOK
<1>5. CASE Applied
  BY <1>5 DEF Applied, PhaseShape, Applying, Previewing
<1>6. CASE UndoMove
  <3>1. phase = "undoing moves" /\ outcome = "none" /\ undone /\ ~preview
    BY <1>6 DEF UndoMove, PhaseShape, Applying
  <3>2. written' = Len(EditOrder)
    BY <1>6 DEF UndoMove, PhaseShape
  <3>4. ~preview'
    BY <3>1, <1>6 DEF UndoMove, copy
  <3>5. \/ phase' = "undoing moves" /\ outcome' = "none" /\ undone'
        \/ phase' = "cleaning" /\ outcome' = "failed" /\ ~undone'
    BY <3>1, <1>6 DEF UndoMove, UndoAborts, FlagsOK
  <3> QED
    BY <3>2, <3>4, <3>5 DEF PhaseShape, Applying, Previewing
<1>7. CASE MovesUndone
  BY <1>7 DEF MovesUndone, PhaseShape, Applying, Previewing
<1>8. CASE UndoWrite
  <3>1. phase = "undoing writes" /\ outcome = "none" /\ undone /\ ~preview
    BY <1>8 DEF UndoWrite, PhaseShape, Applying
  <3>2. moved' = 0
    BY <1>8 DEF UndoWrite, PhaseShape
  <3>3. ~(moved' > 0)
    BY <3>2
  <3>4. ~preview'
    BY <3>1, <1>8 DEF UndoWrite, copy
  <3>5. \/ phase' = "undoing writes" /\ outcome' = "none" /\ undone'
        \/ phase' = "cleaning" /\ outcome' = "failed" /\ ~undone'
    BY <3>1, <1>8 DEF UndoWrite, UndoAborts, FlagsOK
  <3> QED
    BY <3>2, <3>3, <3>4, <3>5 DEF PhaseShape, Applying, Previewing
<1>9. CASE RolledBack
  BY <1>9 DEF RolledBack, PhaseShape, Applying, Previewing
<1>10. CASE CleanUp
  BY <1>10 DEF CleanUp, Fault, NoFault, PhaseShape, Applying, Previewing
<1>11. CASE previewNapiRename
  <2>1. CASE PreviewCopies
    BY <2>1 DEF PreviewCopies, project, Fault, NoFault, PhaseShape, Applying, Previewing
  <2>2. CASE PreviewPaths
    BY <2>2 DEF PreviewPaths, project, PhaseShape, Applying, Previewing
  <2>3. CASE UpstreamRename
    BY <2>3 DEF UpstreamRename, project, Fault, NoFault, PhaseShape, Applying, Previewing
  <2>4. CASE PreviewPrints
    BY <2>4 DEF PreviewPrints, project, PhaseShape, Applying, Previewing
  <2>5. CASE PreviewEnds
    BY <2>5 DEF PreviewEnds, project, Fault, NoFault, PhaseShape, Applying, Previewing
  <2> QED
    BY <1>11, <2>1, <2>2, <2>3, <2>4, <2>5 DEF previewNapiRename
<1>12. ASSUME NEW p \in Paths, ForeignWrite(p) PROVE PhaseShape'
  BY <1>12 DEF ForeignWrite, PhaseShape, Applying, Previewing
<1> QED
  BY <1>1, <1>2, <1>3, <1>4, <1>5, <1>6, <1>7, <1>8, <1>9, <1>10, <1>11, <1>12 DEF RenameNext

\* Every step accounts for the temporary files it leaves, and for the copy.
LEMMA TempStep ==
  ASSUME PhaseShape, TempShape, RenameNext
  PROVE  TempShape'
<1> USE DEF PhaseShape, TempShape, Applying, Previewing, copy
<1>1. CASE Stage
  BY <1>1 DEF Stage
<1>2. CASE WriteTemp
  BY <1>2 DEF WriteTemp, Fault, NoFault
<1>3. CASE RenameTemp
  BY <1>3 DEF RenameTemp, Fault, NoFault
<1>4. CASE Move
  BY <1>4 DEF Move, Fault, NoFault
<1>5. CASE Applied
  BY <1>5 DEF Applied
<1>6. CASE UndoMove
  BY <1>6 DEF UndoMove, UndoAborts, Fault, NoFault
<1>7. CASE MovesUndone
  BY <1>7 DEF MovesUndone
<1>8. CASE UndoWrite
  BY <1>8 DEF UndoWrite, UndoAborts, Fault, NoFault
<1>9. CASE RolledBack
  BY <1>9 DEF RolledBack
<1>10. CASE CleanUp
  <3>1. \/ temps' = temps \ tracked
        \/ temps' = temps /\ ~undone'
    <4>1. \/ temps' = temps \ tracked
          \/ undone' = FALSE /\ temps' = temps
      BY <1>10 DEF CleanUp
    <4> QED
      BY <4>1
  <3>2. phase = "cleaning" /\ phase' = "done" /\ UNCHANGED <<tracked, half, scratch, silenced>>
    BY <1>10 DEF CleanUp
  <3> QED
    BY <3>1, <3>2
<1>11. CASE previewNapiRename
  <2>1. CASE PreviewCopies
    BY <2>1 DEF PreviewCopies, project, Fault, NoFault
  <2>2. CASE PreviewPaths
    BY <2>2 DEF PreviewPaths, project
  <2>3. CASE UpstreamRename
    BY <2>3 DEF UpstreamRename, project, Fault, NoFault
  <2>4. CASE PreviewPrints
    BY <2>4 DEF PreviewPrints, project
  <2>5. CASE PreviewEnds
    BY <2>5 DEF PreviewEnds, project, Fault, NoFault
  <2> QED
    BY <1>11, <2>1, <2>2, <2>3, <2>4, <2>5 DEF previewNapiRename
<1>12. ASSUME NEW p \in Paths, ForeignWrite(p) PROVE TempShape'
  BY <1>12 DEF ForeignWrite
<1> QED
  BY <1>1, <1>2, <1>3, <1>4, <1>5, <1>6, <1>7, <1>8, <1>9, <1>10, <1>11, <1>12 DEF RenameNext

\* Every step moves the tree from one value of `After` to the next.
LEMMA TreeStep ==
  ASSUME FilesOK, ProgressOK, PhaseShape, TreeShape, RenameNext
  PROVE  TreeShape'
<1> USE DEF copy
<1>1. CASE Stage
  <3>1. /\ tree' = tree /\ original' = tree /\ written' = 0 /\ moved' = 0
        /\ (phase' = "writing" \/ phase' = "done")
    BY <1>1 DEF Stage, PhaseShape
  <3>2. phase' = "writing" => Free(tree)
    BY <1>1 DEF Stage, Free, FilesOK
  <3>3. tree = After(tree, 0, 0)
    BY AfterNothing DEF FilesOK
  <3> QED
    BY <3>1, <3>2, <3>3 DEF TreeShape, Applying, Previewing
<1>2. CASE WriteTemp
  BY <1>2 DEF WriteTemp, Fault, NoFault, PhaseShape, TreeShape, Applying, Previewing
<1>3. CASE RenameTemp
  <3>1. /\ phase = "renaming" /\ written < Len(EditOrder) /\ moved' = moved
        /\ original' = original /\ raced' = raced /\ undone' = undone
    BY <1>3 DEF RenameTemp, PhaseShape
  <3>2. moved = 0
    BY <3>1, Lengths DEF ProgressOK, PhaseShape
  <3>3. written \in Nat
    BY Lengths DEF ProgressOK
  <3>4. original \in [Paths -> Contents]
    BY DEF FilesOK
  <3>5. After(original, written + 1, 0) =
          [After(original, written, 0) EXCEPT ![EditOrder[written + 1]] = "new"]
    BY <3>1, <3>3, <3>4, EditStep
  <3>6. Free(original) /\ (~raced /\ undone => tree = After(original, written, 0))
    BY <3>1, <3>2 DEF TreeShape, Applying
  <3>7. \/ tree' = tree /\ written' = written
        \/ tree' = [tree EXCEPT ![EditOrder[written + 1]] = "new"] /\ written' = written + 1
    BY <1>3 DEF RenameTemp
  <3>8. phase' = "writing" \/ phase' = "undoing moves"
    BY <1>3 DEF RenameTemp
  <3> QED
    BY <3>1, <3>2, <3>5, <3>6, <3>7, <3>8 DEF TreeShape, Previewing
<1>4. CASE Move
  <3>1. /\ phase = "writing" /\ written = Len(EditOrder) /\ moved < Len(MoveOrder)
        /\ written' = written /\ original' = original /\ raced' = raced /\ undone' = undone
    BY <1>4 DEF Move
  <3>2. /\ moved + 1 \in 1..Len(MoveOrder) /\ (moved + 1) - 1 = moved
        /\ written \in 0..Len(EditOrder)
    BY <3>1, Lengths DEF ProgressOK
  <3>3. Free(original) /\ (~raced /\ undone => tree = After(original, written, moved))
    BY <3>1 DEF TreeShape, Applying
  <3> DEFINE from == MoveOrder[moved + 1][1]
             to == MoveOrder[moved + 1][2]
  <3>4. After(original, written, moved + 1) =
          [After(original, written, moved) EXCEPT ![to] = After(original, written, moved)[from], ![from] = "absent"]
    BY <3>2, <3>3, MoveStep
  <3>5. \/ tree' = tree /\ moved' = moved
        \/ tree' = [tree EXCEPT ![to] = tree[from], ![from] = "absent"] /\ moved' = moved + 1
    BY <1>4 DEF Move
  <3>6. phase' = "writing" \/ phase' = "undoing moves"
    BY <1>4, <3>1 DEF Move
  <3> HIDE DEF from, to
  <3> QED
    BY <3>1, <3>3, <3>4, <3>5, <3>6 DEF TreeShape, Previewing
<1>5. CASE Applied
  BY <1>5 DEF Applied, PhaseShape, TreeShape, Applying, Previewing
<1>6. CASE UndoMove
  <3>1. /\ phase = "undoing moves" /\ moved > 0 /\ written' = written /\ original' = original
        /\ raced' = raced
    BY <1>6 DEF UndoMove
  <3>2. moved \in 1..Len(MoveOrder) /\ written \in 0..Len(EditOrder)
    <4>1. moved > 0
      BY <3>1
    <4> QED
      BY <4>1, Lengths DEF ProgressOK
  <3>3. Free(original) /\ (~raced /\ undone => tree = After(original, written, moved))
    BY <3>1 DEF TreeShape, Applying
  <3> DEFINE from == MoveOrder[moved][1]
             to == MoveOrder[moved][2]
  <3>4. After(original, written, moved - 1) =
          [After(original, written, moved) EXCEPT ![from] = After(original, written, moved)[to], ![to] = "absent"]
    BY <3>2, <3>3, MoveStep
  <3>5. \/ /\ tree' = [tree EXCEPT ![from] = tree[to], ![to] = "absent"] /\ moved' = moved - 1
           /\ phase' = phase /\ undone' = undone
        \/ phase' = "cleaning" /\ ~undone'
    BY <1>6 DEF UndoMove, UndoAborts
  <3> HIDE DEF from, to
  <3>6. CASE phase' = "cleaning" /\ ~undone'
    BY <3>6 DEF TreeShape, Applying, Previewing
  <3>7. CASE phase' = phase
    <4>1. Free(original') /\ phase' \notin Previewing
      BY <3>1, <3>3, <3>7 DEF Previewing
    <4>2. ~raced' /\ undone' => tree' = After(original', written', moved')
      BY <3>1, <3>3, <3>4, <3>5, <3>7
    <4> QED
      BY <4>1, <4>2 DEF TreeShape
  <3> QED
    BY <3>5, <3>6, <3>7
<1>7. CASE MovesUndone
  BY <1>7 DEF MovesUndone, PhaseShape, TreeShape, Applying, Previewing
<1>8. CASE UndoWrite
  <3>1. /\ phase = "undoing writes" /\ written > 0 /\ moved = 0 /\ moved' = moved
        /\ original' = original /\ raced' = raced
    BY <1>8 DEF UndoWrite, PhaseShape
  <3>2. written \in Nat /\ written <= Len(EditOrder)
    BY Lengths DEF ProgressOK
  <3>3. Free(original) /\ (~raced /\ undone => tree = After(original, written, 0))
    BY <3>1 DEF TreeShape, Applying
  <3> DEFINE file == EditOrder[written]
  <3>4. After(original, written - 1, 0) =
          [After(original, written, 0) EXCEPT ![file] = original[file]]
    BY <3>1, <3>2, UneditStep DEF FilesOK
  <3>5. \/ /\ tree' = [tree EXCEPT ![file] = original[file]] /\ written' = written - 1
           /\ phase' = phase /\ undone' = undone
        \/ phase' = "cleaning" /\ ~undone'
    BY <1>8 DEF UndoWrite, UndoAborts
  <3> HIDE DEF file
  <3>6. CASE phase' = "cleaning" /\ ~undone'
    BY <3>6 DEF TreeShape, Applying, Previewing
  <3>7. CASE phase' = phase
    <4>1. Free(original') /\ phase' \notin Previewing
      BY <3>1, <3>3, <3>7 DEF Previewing
    <4>2. ~raced' /\ undone' => tree' = After(original', written', moved')
      BY <3>1, <3>3, <3>4, <3>5, <3>7
    <4> QED
      BY <4>1, <4>2 DEF TreeShape
  <3> QED
    BY <3>5, <3>6, <3>7
<1>9. CASE RolledBack
  BY <1>9 DEF RolledBack, PhaseShape, TreeShape, Applying, Previewing
<1>10. CASE CleanUp
  BY <1>10 DEF CleanUp, Fault, NoFault, PhaseShape, TreeShape, Applying, Previewing
<1>11. CASE previewNapiRename
  <2>1. CASE PreviewCopies
    BY <2>1 DEF PreviewCopies, project, Fault, NoFault, PhaseShape, TreeShape, Applying,
        Previewing, copy
  <2>2. CASE PreviewPaths
    BY <2>2 DEF PreviewPaths, project, PhaseShape, TreeShape, Applying, Previewing, copy
  <2>3. CASE UpstreamRename
    BY <2>3 DEF UpstreamRename, project, Fault, NoFault, PhaseShape, TreeShape, Applying,
        Previewing, copy
  <2>4. CASE PreviewPrints
    BY <2>4 DEF PreviewPrints, project, PhaseShape, TreeShape, Applying, Previewing, copy
  <2>5. CASE PreviewEnds
    BY <2>5 DEF PreviewEnds, project, Fault, NoFault, PhaseShape, TreeShape, Applying,
        Previewing, copy
  <2> QED
    BY <1>11, <2>1, <2>2, <2>3, <2>4, <2>5 DEF previewNapiRename
<1>12. ASSUME NEW p \in Paths, ForeignWrite(p) PROVE TreeShape'
  BY <1>12 DEF ForeignWrite, PhaseShape, TreeShape, Applying, Previewing
<1> QED
  BY <1>1, <1>2, <1>3, <1>4, <1>5, <1>6, <1>7, <1>8, <1>9, <1>10, <1>11, <1>12 DEF RenameNext

\* And a run ends at the first or at the last of them.
LEMMA AllOrNothingStep ==
  ASSUME FilesOK, PhaseShape, TreeShape, RenameNext
  PROVE  AllOrNothing'
<1> USE DEF AllOrNothing, copy
<1>1. CASE Stage
  BY <1>1 DEF Stage, PhaseShape, TreeShape, Applying, Previewing
<1>2. CASE WriteTemp
  BY <1>2 DEF WriteTemp, Fault, NoFault, PhaseShape, TreeShape, Applying, Previewing
<1>3. CASE RenameTemp
  BY <1>3 DEF RenameTemp, Fault, NoFault, PhaseShape, TreeShape, Applying, Previewing
<1>4. CASE Move
  BY <1>4 DEF Move, Fault, NoFault, PhaseShape, TreeShape, Applying, Previewing
<1>5. CASE Applied
  BY <1>5 DEF Applied, PhaseShape, TreeShape, Applying, Previewing
<1>6. CASE UndoMove
  BY <1>6 DEF UndoMove, UndoAborts, Fault, NoFault, PhaseShape, TreeShape, Applying, Previewing
<1>7. CASE MovesUndone
  BY <1>7 DEF MovesUndone, PhaseShape, TreeShape, Applying, Previewing, UndoAborts
<1>8. CASE UndoWrite
  BY <1>8 DEF UndoWrite, UndoAborts, Fault, NoFault, PhaseShape, TreeShape, Applying, Previewing
<1>9. CASE RolledBack
  BY <1>9 DEF RolledBack, PhaseShape, TreeShape, Applying, Previewing
<1>10. CASE CleanUp
  <3>1. phase = "cleaning" /\ UNCHANGED <<tree, original, raced>>
    BY <1>10 DEF CleanUp
  <3>2. ASSUME ~raced, undone, outcome = "renamed" PROVE tree = RenamedTree
    BY <3>1, <3>2, AfterAll DEF TreeShape, PhaseShape, FilesOK
  <3>3. ASSUME ~raced, undone, outcome = "failed" PROVE tree = original
    BY <3>1, <3>3, AfterNothing DEF TreeShape, PhaseShape, FilesOK
  <3>4. outcome = "renamed" \/ outcome = "failed"
    BY <3>1 DEF PhaseShape
  <3>5. outcome = "renamed" => undone
    BY DEF PhaseShape
  <3>6. RenamedTree' = RenamedTree
    BY <3>1 DEF RenamedTree, EditedTree, SourceOf
  <3>7. \/ outcome' = outcome /\ undone' = undone
        \/ outcome' = "failed" /\ ~undone'
    BY <1>10 DEF CleanUp
  <3> QED
    BY <3>1, <3>2, <3>3, <3>4, <3>5, <3>6, <3>7
<1>11. CASE previewNapiRename
  <2>1. CASE PreviewCopies
    BY <2>1 DEF PreviewCopies, project, Fault, NoFault, PhaseShape, TreeShape, Applying,
        Previewing, copy
  <2>2. CASE PreviewPaths
    BY <2>2 DEF PreviewPaths, project, PhaseShape, TreeShape, Applying, Previewing, copy
  <2>3. CASE UpstreamRename
    BY <2>3 DEF UpstreamRename, project, Fault, NoFault, PhaseShape, TreeShape, Applying,
        Previewing, copy
  <2>4. CASE PreviewPrints
    BY <2>4 DEF PreviewPrints, project, PhaseShape, TreeShape, Applying, Previewing, copy
  <2>5. CASE PreviewEnds
    BY <2>5 DEF PreviewEnds, project, Fault, NoFault, PhaseShape, TreeShape, Applying,
        Previewing, copy
  <2> QED
    BY <1>11, <2>1, <2>2, <2>3, <2>4, <2>5 DEF previewNapiRename
<1>12. ASSUME NEW p \in Paths, ForeignWrite(p) PROVE AllOrNothing'
  BY <1>12 DEF ForeignWrite, PhaseShape, TreeShape, Applying, Previewing
<1> QED
  BY <1>1, <1>2, <1>3, <1>4, <1>5, <1>6, <1>7, <1>8, <1>9, <1>10, <1>11, <1>12 DEF RenameNext

\* The program starts in a state that satisfies the invariant.
LEMMA InitHolds ==
  ASSUME RenameInit
  PROVE  RenameInv
<1> USE DEF RenameInit
<1>1. FilesOK
  BY DEF FilesOK, Contents
<1>2. FlagsOK
  BY DEF FlagsOK
<1>3. ProgressOK
  BY Lengths DEF ProgressOK
<1>4. BoundsOK
  BY PathsAssumption DEF BoundsOK
<1>5. RenameTypeOK
  BY <1>1, <1>2, <1>3, <1>4 DEF RenameTypeOK, FilesOK, FlagsOK, ProgressOK, BoundsOK
<1>6. PhaseShape
  BY DEF PhaseShape, Applying, Previewing
<1>7. TreeShape /\ TempShape
  BY DEF TreeShape, TempShape, Applying, Previewing
<1> QED
  BY <1>5, <1>6, <1>7 DEF RenameInv, AllOrNothing

\* The parts of the type invariant are the type invariant.
LEMMA TypeParts == RenameTypeOK <=> FilesOK /\ FlagsOK /\ ProgressOK /\ BoundsOK
BY DEF RenameTypeOK, FilesOK, FlagsOK, ProgressOK, BoundsOK

\* The invariant is inductive.
LEMMA IInvStep ==
  ASSUME RenameInv, [RenameNext]_renameVars
  PROVE  RenameInv'
<1>1. CASE RenameNext
  <2>1. FilesOK /\ FlagsOK /\ ProgressOK /\ BoundsOK
    BY TypeParts DEF RenameInv
  <2>2. FilesOK' /\ FlagsOK' /\ ProgressOK' /\ BoundsOK'
    BY <1>1, <2>1, FilesStep, FlagsStep, ProgressStep, BoundsStep DEF RenameInv
  <2>3. RenameTypeOK'
    BY <2>2 DEF RenameTypeOK, FilesOK, FlagsOK, ProgressOK, BoundsOK
  <2>4. PhaseShape' /\ TempShape'
    BY <1>1, <2>1, PhaseStep, TempStep DEF RenameInv
  <2>5. TreeShape' /\ AllOrNothing'
    BY <1>1, <2>1, TreeStep, AllOrNothingStep DEF RenameInv
  <2> QED
    BY <2>3, <2>4, <2>5 DEF RenameInv
<1>2. CASE UNCHANGED renameVars
  <2> USE <1>2 DEF renameVars, copy, RenameInv
  <2>1. RenameTypeOK'
    BY DEF RenameTypeOK
  <2>2. PhaseShape'
    BY DEF PhaseShape
  <2>3. TempShape' /\ TreeShape'
    BY DEF TempShape, TreeShape
  <2>4. AllOrNothing'
    <3>1. RenamedTree' = RenamedTree
      BY DEF RenamedTree, EditedTree, SourceOf
    <3> QED
      BY <3>1 DEF AllOrNothing
  <2> QED
    BY <2>1, <2>2, <2>3, <2>4
<1> QED
  BY <1>1, <1>2

\* The invariant holds in every reachable state.
THEOREM RenameInductive == RenameSpec => []RenameInv
<1>1. RenameInit => RenameInv
  BY InitHolds
<1>2. RenameInv /\ [RenameNext]_renameVars => RenameInv'
  BY IInvStep
<1> QED
  BY <1>1, <1>2, PTL DEF RenameSpec

\* Every variable of a run keeps its type: the files, the progress through the
\* edits and the moves, and the state of a dry run's copy.
THEOREM RenameTypeCorrect == RenameSpec => []RenameTypeOK
<1>1. RenameInv => RenameTypeOK
  BY DEF RenameInv
<1> QED
  BY <1>1, RenameInductive, PTL

\* A run of rename-project.cjs renames the whole project or leaves it as it was,
\* whichever operations fail, unless the roll-back fails or another process
\* wrote into the project.
THEOREM RenamesWhole == RenameSpec => []AllOrNothing
<1>1. RenameInv => AllOrNothing
  BY DEF RenameInv
<1> QED
  BY <1>1, RenameInductive, PTL

\* A run leaves no temporary file behind but a half-written one, and a dry run
\* of cli.cjs no copy and no silenced output.
THEOREM LeavesNoTemp == RenameSpec => []NoTempLeft
<1>1. RenameInv => NoTempLeft
  <2> SUFFICES ASSUME RenameInv PROVE NoTempLeft
    OBVIOUS
  <2>1. PhaseShape /\ TempShape /\ FlagsOK
    BY TypeParts DEF RenameInv
  <2> QED
    BY <2>1 DEF PhaseShape, TempShape, FlagsOK, NoTempLeft, Applying, Previewing
<1> QED
  BY <1>1, RenameInductive, PTL

=============================================================================
