--------------------------- MODULE MCProjectBuild ---------------------------
(* A threaded project, one of both flavors with a larger threadless memory,  *)
(* a native one, and two mistakes: an unsupported target and a memory        *)
(* without room to grow.                                                     *)
EXTENDS ProjectBuild
Napi(targets, initial, threadless, maximum) ==
    [targets |-> targets, initialMemory |-> initial,
     threadlessInitialMemory |-> threadless, maximumMemory |-> maximum]
MCConfigs == {Napi({"threads"}, None, None, None),
              Napi({"threads", "single"}, 2, 3, 4),
              Napi({"native"}, None, None, None),
              Napi({"threads", "ohos"}, None, None, None),
              Napi({"single"}, 3, None, 3)}
=============================================================================
