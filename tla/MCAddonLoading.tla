--------------------------- MODULE MCAddonLoading ---------------------------
(* A platform with two tuples, and for each WASI flavor: nothing, a          *)
(* published package, a local build, a loader whose module is missing, and a *)
(* local loader that finds the module of the published package.  The addon    *)
(* exports no target of its own, refuses one, or has a right or a wrong one. *)
EXTENDS AddonLoading
MCTuples == <<"darwin-universal", "darwin-arm64">>
MCNatives == {{}, {"root"}, {"zig-out", "package"}}
Layout(loaders, modules) == [loaders |-> loaders, modules |-> modules]
MCLayouts == {Layout({}, {}), Layout({"package"}, {"package"}),
              Layout({"root"}, {"zig-out"}), Layout({"root"}, {}),
              Layout({"zig-out", "root"}, {"package"})}
MCExports == {[own |-> Unset, refuses |-> FALSE], [own |-> Unset, refuses |-> TRUE],
              [own |-> "wasm32-wasi", refuses |-> FALSE], [own |-> "other", refuses |-> TRUE]}
=============================================================================
