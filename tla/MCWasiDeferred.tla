--------------------------- MODULE MCWasiDeferred ---------------------------
(* Two creations of any kind: two singletons one after the other, two        *)
(* independent instances, or one of each.                                    *)
EXTENDS WasiDeferred
CONSTANTS i1, i2
MCInstances == {i1, i2}
=============================================================================
