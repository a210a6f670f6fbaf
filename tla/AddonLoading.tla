---------------------------- MODULE AddonLoading ----------------------------
(***************************************************************************)
(* Which artifact `require("<package>")` loads: the entry of a scaffolded  *)
(* addon (templates/node-addon/index.js) and the search of a generated     *)
(* WASI loader for its module (lib/wasi-templates.cjs).  The entry tries   *)
(* native candidates, then, when there is none or the environment asks for *)
(* it, WASI ones, each of which may be missing or fail to load.            *)
(***************************************************************************)
EXTENDS Naturals, Sequences
CONSTANTS
    Tuples,    \* detectPlatformArchABIs(): the tuples of this platform, in order
    Natives,   \* the places a native library may be at
    Layouts,   \* what may be installed of one WASI flavor
    Exports,   \* what the exports of the WASI addon may be like
    Unset

\* Where a candidate may be, in the order they are tried.
Places == <<"zig-out", "root", "package">>
Place == {Places[i] : i \in DOMAIN Places}
wasiFlavors == <<"wasm32-wasi", "wasm32-wasip1">>
Flavor == {wasiFlavors[i] : i \in DOMAIN wasiFlavors}
Tuple == {Tuples[i] : i \in DOMAIN Tuples}

ASSUME LayoutsAssumption ==
    /\ Tuples \in Seq(Tuple) /\ Unset \notin Flavor \cup {"native", "unknown"}
    /\ Natives \subseteq SUBSET Place
    /\ Layouts \subseteq [loaders: SUBSET Place, modules: SUBSET Place]
    /\ Exports \subseteq [own: Flavor \cup {"other", Unset}, refuses: BOOLEAN]

VARIABLES
    libraryPath,  \* NAPI_RS_NATIVE_LIBRARY_PATH: unset, or whether it loads
    forceWasi,    \* NAPI_RS_FORCE_WASI
    requested,    \* NAPI_RS_WASI_FLAVOR
    native,       \* tuple |-> the places a working .node file is at
    wasi,         \* flavor |-> its loaders and modules
    exports,      \* of the WASI addon: its own __napiBindingTarget, and whether
                  \* it refuses to be given one (sealed, frozen, a proxy)
    stage, at, place,   \* the loop: which tuple or flavor, and which place
    nativeBinding, wasiBinding,
    reported,     \* the __napiBindingTarget of the loaded WASI binding
    failures      \* how many candidates were tried in vain (the error's causes)

environment == <<libraryPath, forceWasi, requested, native, wasi, exports>>
loadVars == <<environment, stage, at, place, nativeBinding, wasiBinding, reported, failures>>

wasiFlavorRequested == requested # Unset
Forced == forceWasi \in {"true", "error"} \/ wasiFlavorRequested

LoadInit ==
    /\ libraryPath \in {Unset, "loads", "fails"}
    /\ forceWasi \in {Unset, "true", "error", "0"}
    /\ requested \in Flavor \cup {Unset, "unknown"}
    /\ native \in [Tuple -> Natives] /\ wasi \in [Flavor -> Layouts]
    /\ exports \in Exports /\ reported = Unset
    /\ stage = "library" /\ at = 1 /\ place = 1
    /\ nativeBinding = Unset /\ wasiBinding = Unset /\ failures = 0

--------------------------------------------------------------------------
\* A generated loader at a place finds its module beside it, in the zig-out
\* directory below it, or in the flavor's optional package.
ModuleFound(f, p) ==
    \/ p \in wasi[f].modules
    \/ p = "root" /\ "zig-out" \in wasi[f].modules
    \/ "package" \in wasi[f].modules
\* The loader tells the binding which artifact it is.  An addon that already
\* says something else fails the load; one that refuses is left without.
BindingTargetConflict(f) == exports.own \notin {Unset, f}
stampBindingTarget(f) == IF exports.own = Unset /\ exports.refuses THEN Unset ELSE f

LoaderLoads(f, p) == p \in wasi[f].loaders /\ ModuleFound(f, p) /\ ~BindingTargetConflict(f)

requireLibraryPath ==
    /\ stage = "library"
    /\ IF libraryPath = "loads"
       THEN nativeBinding' = "native" /\ stage' = "flags" /\ UNCHANGED failures
       ELSE /\ stage' = "native" /\ UNCHANGED nativeBinding
            /\ failures' = IF libraryPath = "fails" THEN failures + 1 ELSE failures
    /\ UNCHANGED <<environment, at, place, wasiBinding, reported>>

\* The next candidate of a search over `count` names.
Advance(count, exhausted) ==
    IF place < Len(Places) THEN place' = place + 1 /\ UNCHANGED <<at, stage>>
    ELSE IF at < count THEN place' = 1 /\ at' = at + 1 /\ UNCHANGED stage
    ELSE place' = 1 /\ at' = 1 /\ stage' = exhausted

requireTuple ==
    /\ stage = "native"
    /\ IF Tuples = <<>> THEN stage' = "flags" /\ UNCHANGED <<at, place, nativeBinding, failures>>
       ELSE IF Places[place] \in native[Tuples[at]]
       THEN nativeBinding' = "native" /\ stage' = "flags" /\ at' = 1 /\ place' = 1 /\ UNCHANGED failures
       ELSE failures' = failures + 1 /\ Advance(Len(Tuples), "flags") /\ UNCHANGED nativeBinding
    /\ UNCHANGED <<environment, wasiBinding, reported>>

readFlags ==
    /\ stage = "flags"
    /\ stage' = IF wasiFlavorRequested /\ requested \notin Flavor THEN "threw"
                ELSE IF nativeBinding = Unset \/ Forced THEN "wasi" ELSE "finishing"
    /\ UNCHANGED <<environment, at, place, nativeBinding, wasiBinding, reported, failures>>

\* Mutant: a requested flavor is only a preference.
SkippedNever(f) == FALSE

Skipped(f) == wasiFlavorRequested /\ f # requested

requireWasi ==
    LET f == wasiFlavors[at]
    IN  /\ stage = "wasi"
        /\ IF Skipped(f)
           THEN /\ UNCHANGED <<nativeBinding, wasiBinding, reported, failures, place>>
                /\ IF at < Len(wasiFlavors) THEN at' = at + 1 /\ UNCHANGED stage
                   ELSE at' = 1 /\ stage' = "strict"
           ELSE IF LoaderLoads(f, Places[place])
           THEN /\ wasiBinding' = f /\ nativeBinding' = f /\ reported' = stampBindingTarget(f)
                /\ stage' = "strict" /\ at' = 1 /\ place' = 1 /\ UNCHANGED failures
           ELSE /\ failures' = failures + 1 /\ Advance(Len(wasiFlavors), "strict")
                /\ UNCHANGED <<nativeBinding, wasiBinding, reported>>
        /\ UNCHANGED environment

checkStrict ==
    /\ stage = "strict"
    /\ stage' = IF (forceWasi = "error" \/ wasiFlavorRequested) /\ wasiBinding = Unset
                THEN "threw" ELSE "finishing"
    /\ UNCHANGED <<environment, at, place, nativeBinding, wasiBinding, reported, failures>>

finish ==
    /\ stage = "finishing"
    /\ stage' = IF nativeBinding = Unset THEN "threw" ELSE "exported"
    /\ UNCHANGED <<environment, at, place, nativeBinding, wasiBinding, reported, failures>>

LoadNext == requireLibraryPath \/ requireTuple \/ readFlags \/ requireWasi \/ checkStrict \/ finish
LoadSpec == LoadInit /\ [][LoadNext]_loadVars

--------------------------------------------------------------------------
\* What the environment permits, and what of it is installed.
Installed ==
    (IF libraryPath = "loads" \/ \E t \in Tuple : native[t] # {} THEN {"native"} ELSE {})
    \cup {f \in Flavor : \E p \in Place : LoaderLoads(f, p)}
Permitted ==
    IF wasiFlavorRequested THEN {requested}
    ELSE IF forceWasi = "error" THEN Flavor ELSE Flavor \cup {"native"}

\* The loaded artifact is one the environment permits, a requested flavor is
\* never crossed, native wins unless WASI is forced, and the threaded flavor
\* wins among the others (index.js:54-123).
LoadsTheRightArtifact ==
    stage = "exported" =>
        /\ nativeBinding \in Installed \cap Permitted
        /\ nativeBinding = "native" =>
              forceWasi \notin {"true", "error"} \/ Installed \cap Flavor = {}
        /\ nativeBinding \in Flavor => Forced \/ "native" \notin Installed
        /\ nativeBinding = "wasm32-wasip1" =>
              requested = "wasm32-wasip1" \/ "wasm32-wasi" \notin Installed

\* Loading fails only when nothing permitted is installed, and an error always
\* has a candidate to blame, or names the unsupported flavor (index.js:74-83,
\* 105-123, 180-191).
FailsForAReason ==
    stage = "threw" => /\ Installed \cap Permitted = {}
                       /\ failures > 0 \/ requested = "unknown"

\* A binding never names another artifact than the one that was loaded, and
\* only an addon that refuses the name goes without (binding-target.cjs:133-178).
NamesTheArtifact ==
    stage = "exported" /\ wasiBinding # Unset =>
        reported = wasiBinding \/ (reported = Unset /\ exports.refuses)

\* The entry loads the one artifact its environment asks for, or says why not.
EntryPolicy == LoadsTheRightArtifact /\ FailsForAReason /\ NamesTheArtifact

=============================================================================
