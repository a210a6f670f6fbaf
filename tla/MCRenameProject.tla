-------------------------- MODULE MCRenameProject ---------------------------
(* package.json and a generated loader are edited, the loader and the native *)
(* library are moved.                                                        *)
EXTENDS RenameProject
MCEditOrder == <<"loader", "package">>
MCMoveOrder == <<<<"loader", "loader2">>, <<"library", "library2">>>>
MCInitial == {"loader", "package", "library"}
MCPaths == MCInitial \cup {"loader2", "library2"}
=============================================================================
