---------------------------- MODULE ProjectBuild ----------------------------
(***************************************************************************)
(* One addon project and the command line that builds it: `new`, `build`,  *)
(* `build --watch`, `artifacts` and `package` of                           *)
(* packages/zig-napi/lib/cli.cjs, the files they generate for the WASI     *)
(* flavors, and a user who edits the project at any moment from another    *)
(* process.                                                                *)
(*                                                                         *)
(* A build reads package.json twice (once to validate the targets, once    *)
(* through the upstream configuration reader, after an await), compiles in *)
(* a child process, and then copies, generates and rewrites files from     *)
(* what it read. `snapshot` is what it read; `package` is what is on disk. *)
(***************************************************************************)
EXTENDS Naturals, FiniteSets
CONSTANTS
    Configs,         \* the napi sections of package.json a user may write
    Image,           \* pages the linked image needs (data and stack)
    DefaultInitial,  \* DEFAULT_INITIAL_MEMORY
    DefaultMaximum,  \* DEFAULT_MAXIMUM_MEMORY
    None,
    MaxEdits,        \* bound: edits of the user
    MaxCommands      \* bound: commands the user runs

Flavors == {"threads", "single"}
Native == "native"
Pages == 1..DefaultMaximum
\* A configured target list may also name a target the command line rejects.
Unsupported == "ohos"

ConfigsType == [targets: SUBSET (Flavors \cup {Native, Unsupported}),
                initialMemory: Pages \cup {None},
                threadlessInitialMemory: Pages \cup {None},
                maximumMemory: Pages \cup {None}]
ASSUME ConfigsAssumption == Configs \subseteq ConfigsType
ASSUME DefaultsAssumption ==
    /\ Image \in Nat \ {0} /\ DefaultInitial \in Nat /\ DefaultMaximum \in Nat
    /\ Image <= DefaultInitial /\ DefaultInitial < DefaultMaximum

ASSUME NoneAssumption ==
    None \notin Pages /\ None \notin Flavors /\ None \notin [initial: Pages, maximum: Pages]
ASSUME BoundsAssumption == MaxEdits \in Nat /\ MaxCommands \in Nat

VARIABLES
    package,   \* package.json: its napi section and the loaders it lists
    loader,    \* flavor |-> memory limits its loader allocates, or None
    installed, \* flavor |-> limits of the module in zig-out, or None
    wasm,      \* flavor |-> limits of the module beside the loader, or None
    entry,     \* the flavor browser.js re-exports, or None
    npm,       \* the flavors that have a package directory
    command,   \* "none", "build", "watch", "artifacts" or "package"
    target,    \* --target of the running (or last) command
    step,      \* where commandBuild stands; "idle" between builds of a watcher
    snapshot,  \* the package.json the running (or last) build read
    notified,  \* a file event the watcher has not seen
    timer, pending, stopped,   \* the watcher
    dirty,     \* ghost: the project changed since a build last read it
    edits, commands

files == <<package, loader, installed, wasm, entry, npm>>
watch == <<notified, timer, pending, stopped>>
bounds == <<edits, commands>>
vars == <<files, command, target, step, snapshot, watch, dirty, bounds>>

--------------------------------------------------------------------------
\* Targets, flavors and memory limits.

collectWasiFlavors(c) == c.targets \cap Flavors
validateConfiguredTargets(c) == Unsupported \notin c.targets

Or(value, fallback) == IF value = None THEN fallback ELSE value
initialMemory(c, f) ==
    LET threaded == Or(c.initialMemory, DefaultInitial)
    IN  IF f = "threads" THEN threaded ELSE Or(c.threadlessInitialMemory, threaded)
maximumMemory(c) == Or(c.maximumMemory, DefaultMaximum)
\* Whether resolveWasmConfig accepts the section: room to grow for both flavors.
WasmConfigValid(c) == \A f \in Flavors : initialMemory(c, f) < maximumMemory(c)

\* The limits a loader passes to `new WebAssembly.Memory`.
resolveWasmConfig(c, f) == [initial |-> initialMemory(c, f), maximum |-> maximumMemory(c)]

\* The limits the module is linked with: the linker's own minimum when the
\* project configures none, and otherwise what wasiMemoryBuildArgs passes.
wasiMemoryBuildArgs(c, f) ==
    [initial |-> IF \/ c.initialMemory # None
                    \/ f = "single" /\ c.threadlessInitialMemory # None
                 THEN initialMemory(c, f) ELSE Image,
     maximum |-> maximumMemory(c)]

\* What the WebAssembly engine requires of an imported memory.
Accepts(module, memory) ==
    memory.initial >= module.initial /\ memory.maximum <= module.maximum

\* The flavors a run generates loaders for, and the one browser.js re-exports.
resolveConfiguredFlavors(c, t) == IF t \in Flavors THEN {t} ELSE collectWasiFlavors(c)
resolveBrowserEntryFlavor(fs) == IF "single" \in fs THEN "single" ELSE "threads"

--------------------------------------------------------------------------
\* `new`: the scaffold of a configuration, also over an existing directory.

\* The targets a run of `new` may end up with: those given on the command
\* line, or all of them, or what the user checks in a terminal; without one,
\* the defaults unless they are disabled.
AvailableTargets == Flavors \cup {Native}
DefaultTargets == {Native}
promptNewOptions(given, all, defaults, interactive) ==
    IF given # {} THEN {given}
    ELSE IF all THEN {AvailableTargets}
    ELSE IF interactive THEN SUBSET AvailableTargets
    ELSE IF defaults THEN {DefaultTargets} ELSE {{}}
NewTargets == UNION {promptNewOptions(given, all, defaults, interactive) :
                       given \in {c.targets : c \in Configs} \cup {{}},
                       all, defaults, interactive \in BOOLEAN}

\* A scaffold configures no memory and at least one supported target.
Section(targets) == [targets |-> targets, initialMemory |-> None,
                     threadlessInitialMemory |-> None, maximumMemory |-> None]
createNpmDirs(c) == npm' = npm \cup collectWasiFlavors(c)
Scaffolds(c) == c.targets # {} /\ validateConfiguredTargets(c)
ScaffoldLoaders(c) ==
    [f \in Flavors |-> IF f \in collectWasiFlavors(c) THEN resolveWasmConfig(c, f) ELSE None]
ScaffoldEntry(c) ==
    IF collectWasiFlavors(c) = {} THEN None ELSE resolveBrowserEntryFlavor(collectWasiFlavors(c))

Init ==
    /\ \E targets \in NewTargets :
         LET c == Section(targets)
         IN  /\ Scaffolds(c)
             /\ package = [config |-> c, listed |-> collectWasiFlavors(c)]
             /\ loader = ScaffoldLoaders(c) /\ entry = ScaffoldEntry(c)
             /\ npm = collectWasiFlavors(c)
    /\ installed = [f \in Flavors |-> None] /\ wasm = [f \in Flavors |-> None]
    /\ command = "none" /\ target = Native /\ step = "off" /\ snapshot = None
    /\ notified = FALSE /\ timer = FALSE /\ pending = FALSE /\ stopped = FALSE
    /\ dirty = FALSE /\ edits = 0 /\ commands = 0

commandNew(c) ==
    /\ command = "none" /\ commands < MaxCommands /\ Scaffolds(c)
    /\ package' = [config |-> c, listed |-> collectWasiFlavors(c)]
    /\ loader' = ScaffoldLoaders(c) /\ entry' = ScaffoldEntry(c)
    /\ createNpmDirs(c)
    /\ commands' = commands + 1
    /\ UNCHANGED <<installed, wasm, command, target, step, snapshot, watch, dirty, edits>>

--------------------------------------------------------------------------
\* The user: an edit of the configuration or, with c unchanged, of a source.

Edit(c) ==
    /\ edits < MaxEdits
    /\ package' = [package EXCEPT !.config = c]
    /\ edits' = edits + 1 /\ dirty' = TRUE
    /\ notified' = (notified \/ (command = "watch" /\ step # "arming" /\ ~stopped))
    /\ UNCHANGED <<loader, installed, wasm, entry, npm, command, target, step, snapshot,
                   timer, pending, stopped, commands>>

Run(name, t) ==
    /\ command = "none" /\ commands < MaxCommands
    /\ name = "artifacts" => t = Native
    /\ command' = name /\ target' = t /\ commands' = commands + 1
    /\ step' = CASE name = "watch" -> "arming" [] name = "package" -> "preparing"
                 [] OTHER -> "validating"
    /\ stopped' = FALSE
    /\ UNCHANGED <<files, snapshot, notified, timer, pending, dirty, edits>>

\* The process ends, by process.exit in fail() or by running out of work.
ProcessExits ==
    /\ command' = "none" /\ step' = "off"
    /\ notified' = FALSE /\ timer' = FALSE /\ pending' = FALSE /\ stopped' = FALSE

--------------------------------------------------------------------------
\* The watcher.

commandWatch ==
    /\ step = "arming"
    /\ IF validateConfiguredTargets(package.config)
       THEN step' = "validating" /\ UNCHANGED <<command, watch>>
       ELSE ProcessExits
    /\ UNCHANGED <<files, target, snapshot, dirty, bounds>>

FileEvent ==
    /\ notified /\ ~stopped
    /\ notified' = FALSE /\ timer' = TRUE
    /\ UNCHANGED <<files, command, target, step, snapshot, pending, stopped, dirty, bounds>>

\* Mutant: A change that arrives during a build is dropped.
TimerFiresUnlessBuilding ==
    /\ timer /\ timer' = FALSE
    /\ IF step = "idle" THEN step' = "validating" ELSE UNCHANGED step
    /\ UNCHANGED <<files, command, target, snapshot, notified, pending, stopped, dirty, bounds>>

\* The debounce timer calls build(): start one, or ask for another one.
TimerFires ==
    /\ timer /\ timer' = FALSE
    /\ IF step = "idle" THEN step' = "validating" /\ UNCHANGED pending
       ELSE pending' = TRUE /\ UNCHANGED step
    /\ UNCHANGED <<files, command, target, snapshot, notified, stopped, dirty, bounds>>

stop ==
    /\ command = "watch" /\ step # "arming" /\ ~stopped
    /\ stopped' = TRUE /\ pending' = FALSE /\ timer' = FALSE /\ notified' = FALSE
    /\ UNCHANGED <<files, command, target, step, snapshot, dirty, bounds>>

WatcherExits ==
    /\ stopped /\ step = "idle" /\ ProcessExits
    /\ UNCHANGED <<files, target, snapshot, dirty, bounds>>

\* Ctrl-C on a command without a handler, at any step; and a failing command.
Interrupted ==
    /\ command \in {"build", "artifacts", "package"} \/ step = "arming"
    /\ ProcessExits
    /\ UNCHANGED <<files, target, snapshot, dirty, bounds>>

--------------------------------------------------------------------------
\* commandBuild. BuildEnds is its return, and its error caught by the watcher.

BuildEnds ==
    IF command # "watch" THEN ProcessExits
    ELSE /\ step' = IF pending /\ ~stopped THEN "validating" ELSE "idle"
         /\ pending' = IF stopped THEN pending ELSE FALSE
         /\ UNCHANGED <<command, notified, timer, stopped>>

\* `package` first makes the directories of the configured flavors; a dry run
\* or a rejected configuration ends it.
commandPackage ==
    /\ step = "preparing"
    /\ \/ /\ validateConfiguredTargets(package.config) /\ createNpmDirs(package.config)
          /\ step' = "validating" /\ UNCHANGED <<command, watch>>
       \/ ProcessExits /\ UNCHANGED npm
    /\ UNCHANGED <<package, loader, installed, wasm, entry, target, snapshot, dirty, bounds>>

Validate ==
    /\ step = "validating"
    /\ IF validateConfiguredTargets(package.config)
       THEN step' = "reading" /\ UNCHANGED <<command, watch>>
       ELSE ProcessExits
    /\ UNCHANGED <<files, target, snapshot, dirty, bounds>>

\* The configuration the rest of the build works from.
ReadConfig ==
    /\ step = "reading"
    /\ snapshot' = package /\ dirty' = FALSE
    /\ \/ command = "artifacts" /\ step' = "generating" /\ UNCHANGED <<command, watch>>
       \/ command # "artifacts" /\ ~WasmConfigValid(package.config) /\ BuildEnds
       \/ command # "artifacts" /\ WasmConfigValid(package.config)
          /\ step' = "spawning" /\ UNCHANGED <<command, watch>>
    /\ UNCHANGED <<files, target, bounds>>

\* A WASI build first checks the installed emnapi packages and may fail().
EmnapiRejected ==
    /\ step = "spawning" /\ target \in Flavors /\ ProcessExits
    /\ UNCHANGED <<files, target, snapshot, dirty, bounds>>

\* Mutant: runWatch does not look at the stop flag.
runWatchUnstopped ==
    /\ step = "spawning" /\ step' = "compiling"
    /\ UNCHANGED <<command, watch>>
    /\ UNCHANGED <<files, target, snapshot, dirty, bounds>>

runWatch ==
    /\ step = "spawning"
    /\ IF stopped THEN BuildEnds ELSE step' = "compiling" /\ UNCHANGED <<command, watch>>
    /\ UNCHANGED <<files, target, snapshot, dirty, bounds>>

LinkedLimits == wasiMemoryBuildArgs(snapshot.config, target)

CompileSucceeds ==
    /\ step = "compiling"
    /\ IF target \in Flavors
       THEN LinkedLimits.initial >= Image /\ installed' = [installed EXCEPT ![target] = LinkedLimits]
       ELSE UNCHANGED installed
    /\ IF stopped THEN BuildEnds ELSE step' = "copying" /\ UNCHANGED <<command, watch>>
    /\ UNCHANGED <<package, loader, wasm, entry, npm, target, snapshot, dirty, bounds>>

\* The compiler reports an error, or the child was killed by a signal.
CompileFails ==
    /\ step = "compiling" /\ BuildEnds
    /\ UNCHANGED <<files, target, snapshot, dirty, bounds>>

RunFlavors == resolveConfiguredFlavors(snapshot.config, target)

CopyOutputs ==
    /\ step = "copying" /\ step' = "generating"
    /\ wasm' = [f \in Flavors |-> IF f \in RunFlavors /\ installed[f] # None
                                  THEN installed[f] ELSE wasm[f]]
    /\ UNCHANGED <<package, loader, installed, entry, npm, command, target, snapshot, watch, dirty, bounds>>

\* generateWasiBindingsWithConfig: fail() on a bad configuration, nothing at
\* all without a WASI flavor, and otherwise the loaders, the entry and the
\* removal of what is no longer configured.
GenerateFails ==
    /\ step = "generating"
    /\ \/ ~validateConfiguredTargets(snapshot.config)
       \/ RunFlavors # {} /\ ~WasmConfigValid(snapshot.config)
    /\ ProcessExits
    /\ UNCHANGED <<files, target, snapshot, dirty, bounds>>

AfterGenerate == IF command = "artifacts" THEN "ending" ELSE "listing"

\* Mutant: The loaders are generated from a configuration read again.
writeWasiFlavorArtifactsReread ==
    /\ step = "generating" /\ validateConfiguredTargets(snapshot.config)
    /\ IF RunFlavors = {} THEN step' = AfterGenerate /\ UNCHANGED loader
       ELSE /\ WasmConfigValid(snapshot.config)
            /\ loader' = [f \in Flavors |-> IF f \in RunFlavors
                                            THEN resolveWasmConfig(package.config, f) ELSE loader[f]]
            /\ step' = "entry"
    /\ UNCHANGED <<package, installed, wasm, entry, npm, command, target, snapshot, watch, dirty, bounds>>

writeWasiFlavorArtifacts ==
    /\ step = "generating" /\ validateConfiguredTargets(snapshot.config)
    /\ IF RunFlavors = {} THEN step' = AfterGenerate /\ UNCHANGED loader
       ELSE /\ WasmConfigValid(snapshot.config)
            /\ loader' = [f \in Flavors |-> IF f \in RunFlavors
                                            THEN resolveWasmConfig(snapshot.config, f) ELSE loader[f]]
            /\ step' = "entry"
    /\ UNCHANGED <<package, installed, wasm, entry, npm, command, target, snapshot, watch, dirty, bounds>>

\* Mutant: Only the flavors of the run are retained.
RetainedFlavorsOfRun == RunFlavors

RetainedFlavors == RunFlavors \cup collectWasiFlavors(snapshot.config)

WriteBrowserEntry ==
    /\ step = "entry" /\ step' = "removing"
    /\ entry' = resolveBrowserEntryFlavor(RetainedFlavors)
    /\ UNCHANGED <<package, loader, installed, wasm, npm, command, target, snapshot, watch, dirty, bounds>>

removeStaleWasiArtifacts ==
    /\ step = "removing" /\ step' = AfterGenerate
    /\ loader' = [f \in Flavors |-> IF f \in RetainedFlavors THEN loader[f] ELSE None]
    /\ UNCHANGED <<package, installed, wasm, entry, npm, command, target, snapshot, watch, dirty, bounds>>

\* Mutant: package.json is written whether or not its text changed.
ListFilesAlways ==
    LET content == [snapshot EXCEPT !.listed = @ \cup {f \in Flavors : loader[f] # None}]
    IN  /\ step = "listing" /\ step' = "ending"
        /\ package' = content
        /\ notified' = (notified \/ (command = "watch" /\ ~stopped))
        /\ UNCHANGED <<loader, installed, wasm, entry, npm, command, target, snapshot,
                       timer, pending, stopped, dirty, bounds>>

\* package.json is written back from the snapshot when its text differs.
ListFiles ==
    LET content == [snapshot EXCEPT !.listed = @ \cup {f \in Flavors : loader[f] # None}]
    IN  /\ step = "listing" /\ step' = "ending"
        /\ package' = content
        /\ notified' = (notified \/ (content # package /\ command = "watch" /\ ~stopped))
        /\ UNCHANGED <<loader, installed, wasm, entry, npm, command, target, snapshot,
                       timer, pending, stopped, dirty, bounds>>

\* --pipe runs over the written files; its failure is the build's.
Finish ==
    /\ step = "ending"
    /\ \/ BuildEnds
       \/ command = "package" /\ step' = "collecting" /\ UNCHANGED <<command, watch>>
    /\ UNCHANGED <<files, target, snapshot, dirty, bounds>>

\* The upstream collection of zig-out and of the loaders into the directories.
napiArtifacts ==
    /\ step = "collecting" /\ ProcessExits
    /\ UNCHANGED <<files, target, snapshot, dirty, bounds>>

--------------------------------------------------------------------------
Build == \/ commandPackage \/ Validate \/ ReadConfig \/ EmnapiRejected \/ runWatch
         \/ CompileSucceeds \/ CompileFails \/ CopyOutputs
         \/ GenerateFails \/ writeWasiFlavorArtifacts \/ WriteBrowserEntry
         \/ removeStaleWasiArtifacts \/ ListFiles \/ Finish \/ napiArtifacts
Watcher == commandWatch \/ FileEvent \/ TimerFires \/ WatcherExits
User == \/ \E targets \in NewTargets : commandNew(Section(targets))
        \/ \E c \in Configs : Edit(c)
        \/ \E name \in {"build", "watch", "artifacts", "package"}, t \in Flavors \cup {Native} : Run(name, t)
        \/ stop \/ Interrupted
Next == Build \/ Watcher \/ User

Spec == Init /\ [][Next]_vars
\* The child process ends, and the event loop runs what is ready.
FairSpec == Spec /\ WF_vars(Build) /\ WF_vars(commandWatch) /\ WF_vars(FileEvent)
                 /\ WF_vars(TimerFires) /\ WF_vars(WatcherExits)

--------------------------------------------------------------------------
Limits == [initial: Pages, maximum: Pages]
Steps == {"off", "arming", "idle", "preparing", "validating", "reading", "spawning",
          "compiling", "copying", "generating", "entry", "removing", "listing", "ending",
          "collecting"}
Packages == [config: Configs \cup {Section(targets) : targets \in NewTargets}, listed: SUBSET Flavors]

TypeOK ==
    /\ package \in Packages /\ snapshot \in Packages \cup {None}
    /\ loader \in [Flavors -> Limits \cup {None}]
    /\ installed \in [Flavors -> Limits \cup {None}]
    /\ wasm \in [Flavors -> Limits \cup {None}]
    /\ entry \in Flavors \cup {None} /\ npm \subseteq Flavors
    /\ command \in {"none", "build", "watch", "artifacts", "package"}
    /\ target \in Flavors \cup {Native} /\ step \in Steps
    /\ {notified, timer, pending, stopped, dirty} \subseteq BOOLEAN
    /\ edits \in 0..MaxEdits /\ commands \in 0..MaxCommands
    /\ (step = "off") = (command = "none")

\* A build of a WASI flavor leaves a module and a loader that fit together:
\* the memory the loader allocates is one the module accepts, whatever the
\* user wrote to package.json while the compiler ran (cli.cjs:881), and so does
\* what `package` then collects (cli.cjs:1289-1326).
BuiltFlavorMatches ==
    /\ step \in {"entry", "removing", "listing", "ending"} /\ command # "artifacts" /\ target \in Flavors
        => /\ wasm[target] # None /\ loader[target] # None
           /\ Accepts(wasm[target], loader[target])
    /\ step = "collecting" /\ target \in Flavors
        => /\ installed[target] # None /\ loader[target] # None
           /\ Accepts(installed[target], loader[target])

\* What a run removes is neither a loader of a flavor the project it read
\* configures, so building one flavor leaves the other one's files, nor the
\* flavor browser.js re-exports at that moment (cli.cjs:788-804, 863-877).
RemovalIsSafe ==
    [][\A f \in Flavors : step = "removing" /\ loader[f] # None /\ loader'[f] = None
           => f \notin collectWasiFlavors(snapshot.config) /\ entry # f]_vars

\* No child is started after a signal: the build the signal found waiting for
\* its configuration stops there, and queued builds are discarded
\* (cli.cjs:96-97, 1244-1252).
StopStartsNoChild == [][stopped => ~(step # "compiling" /\ step' = "compiling")]_vars

\* Every change a watcher is told of is picked up by a build that reads the
\* project afterwards, also when it arrives during another build
\* (cli.cjs:1210-1243) - unless the watcher ends.
ChangesAreBuilt == (command = "watch" /\ dirty) ~> (~dirty \/ command # "watch" \/ stopped)

\* Builds come to rest when the user does: the package.json a build writes
\* does not keep a watcher building, and a stopped watcher ends
\* (cli.cjs:1173-1185, 1244-1252).
BuildsComeToRest == <>[](step \in {"off", "idle"} /\ ~stopped /\ ~timer /\ ~notified)

\* The documentation's claim: browser.js names a flavor the project configures.
EntryIsConfigured ==
    step = "ending" /\ command # "artifacts" /\ collectWasiFlavors(snapshot.config) # {}
        => entry \in collectWasiFlavors(snapshot.config)
=============================================================================
