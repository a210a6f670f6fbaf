--------------------------- MODULE RenameProject ----------------------------
(***************************************************************************)
(* `zig-napi rename` (packages/zig-napi/lib/rename-project.cjs): a project *)
(* is renamed without version control to fall back on, so the command      *)
(* stages every edit and move, checks the destinations, and then applies   *)
(* them with file operations each of which may fail, undoing in reverse    *)
(* what was done.  Another process may write into the project meanwhile.   *)
(*                                                                         *)
(* A rename that leaves the addon's own name alone is the upstream tool's, *)
(* which has no dry run: `previewNapiRename` of cli.cjs runs it in a copy  *)
(* of the project, with standard output silenced, and prints the changes.  *)
(***************************************************************************)
EXTENDS Naturals, Sequences
CONSTANTS
    Paths,       \* the files of the project and the destinations of the moves
    Initial,     \* the ones that exist before
    EditOrder,   \* the edited files in the order they are staged
    MoveOrder,   \* the <<from, to>> pairs in the order of the walk
    MaxFaults,   \* bound: file operations that fail
    MaxWrites    \* bound: writes of another process

Edited == {EditOrder[i] : i \in DOMAIN EditOrder}
From == {MoveOrder[i][1] : i \in DOMAIN MoveOrder}
Destinations == {MoveOrder[i][2] : i \in DOMAIN MoveOrder}

ASSUME PathsAssumption ==
    /\ Initial \subseteq Paths /\ Edited \cup From \subseteq Initial
    /\ Destinations \subseteq Paths \ Initial
    /\ MaxFaults \in Nat /\ MaxWrites \in Nat

\* `edits` is a Map by file; the walk visits a file once, and a destination
\* keeps the directory and the suffix of its file.
ASSUME OrderAssumption ==
    /\ EditOrder \in Seq(Paths) /\ MoveOrder \in Seq(Paths \X Paths)
    /\ \A i, j \in DOMAIN EditOrder : EditOrder[i] = EditOrder[j] => i = j
    /\ \A i, j \in DOMAIN MoveOrder :
          MoveOrder[i][1] = MoveOrder[j][1] \/ MoveOrder[i][2] = MoveOrder[j][2] => i = j

VARIABLES
    tree,      \* path |-> what the file holds
    original,  \* path |-> what it held when the run read it
    temps,     \* temporary files on disk, by the file they replace
    tracked,   \* the ones the run knows of (`temporary`)
    phase, outcome,
    written, moved,   \* how many edits and moves are applied and not undone
    dryRun, faults, writes,
    raced,     \* ghost: another process wrote after the files were read
    half,      \* ghost: the file whose temporary file was left half-written
    undone,    \* ghost: FALSE once an operation of the roll-back failed
    preview,   \* the run is a dry run of the upstream rename
    scratch,   \* its copy: "none", "copy" or, once renamed, "renamed"
    silenced   \* process.stdout.write is replaced

copy == <<preview, scratch, silenced>>
renameVars == <<tree, original, temps, tracked, phase, outcome, written, moved, dryRun,
          faults, writes, raced, half, undone, copy>>

Contents == {"absent", "old", "new", "torn", "foreign"}

RenameInit ==
    /\ tree = [p \in Paths |-> IF p \in Initial THEN "old" ELSE "absent"]
    /\ original = tree /\ temps = {} /\ tracked = {}
    /\ phase = "staging" /\ outcome = "none" /\ written = 0 /\ moved = 0
    /\ dryRun \in BOOLEAN /\ faults = 0 /\ writes = 0 /\ raced = FALSE
    /\ half = {} /\ undone = TRUE
    /\ preview \in BOOLEAN /\ (preview => dryRun) /\ scratch = "none" /\ silenced = FALSE

Fault == faults < MaxFaults /\ faults' = faults + 1
NoFault == UNCHANGED faults

\* Another process creates or rewrites a file.
ForeignWrite(p) ==
    /\ writes < MaxWrites /\ phase # "done"
    /\ tree' = [tree EXCEPT ![p] = "foreign"]
    /\ writes' = writes + 1 /\ raced' = (raced \/ phase # "staging")
    /\ UNCHANGED <<original, temps, tracked, phase, outcome, written, moved, dryRun, faults, undone, half, copy>>

\* Read everything that will be edited and refuse destinations that exist,
\* before the first write; a dry run prints the plan and stops here.
Stage ==
    /\ phase = "staging" /\ ~preview /\ original' = tree
    /\ IF \E to \in Destinations : tree[to] # "absent"
       THEN phase' = "done" /\ outcome' = "rejected"
       ELSE IF dryRun THEN phase' = "done" /\ outcome' = "printed"
       ELSE phase' = "writing" /\ UNCHANGED outcome
    /\ UNCHANGED <<tree, temps, tracked, written, moved, dryRun, faults, writes, raced, undone, half, copy>>

\* Mutant: the temporary file is remembered only once it replaced the file.
WriteTempUntracked ==
    /\ phase = "writing" /\ written < Len(EditOrder)
    /\ LET file == EditOrder[written + 1]
       IN  /\ \/ /\ temps' = temps \cup {file} /\ UNCHANGED tracked
                 /\ NoFault /\ phase' = "renaming" /\ UNCHANGED half
              \/ /\ Fault /\ phase' = "undoing moves" /\ half' = {file}
                 /\ temps' \in {temps, temps \cup {file}} /\ UNCHANGED tracked
    /\ UNCHANGED <<tree, original, outcome, written, moved, dryRun, writes, raced, undone, copy>>

\* The temporary file is created exclusively; its write may fail before or
\* after the file exists, and then the run does not know of it.
WriteTemp ==
    /\ phase = "writing" /\ written < Len(EditOrder)
    /\ LET file == EditOrder[written + 1]
       IN  /\ \/ /\ temps' = temps \cup {file} /\ tracked' = tracked \cup {file}
                 /\ NoFault /\ phase' = "renaming" /\ UNCHANGED half
              \/ /\ Fault /\ phase' = "undoing moves" /\ half' = {file}
                 /\ temps' \in {temps, temps \cup {file}} /\ UNCHANGED tracked
    /\ UNCHANGED <<tree, original, outcome, written, moved, dryRun, writes, raced, undone, copy>>

RenameTemp ==
    /\ phase = "renaming"
    /\ LET file == EditOrder[written + 1]
       IN  \/ /\ tree' = [tree EXCEPT ![file] = "new"] /\ temps' = temps \ {file}
              /\ written' = written + 1 /\ NoFault /\ phase' = "writing"
           \/ /\ Fault /\ phase' = "undoing moves" /\ UNCHANGED <<tree, temps, written>>
    /\ UNCHANGED <<original, tracked, outcome, moved, dryRun, writes, raced, undone, half, copy>>

\* rename(2) replaces a destination that appeared since the check.
Move ==
    /\ phase = "writing" /\ written = Len(EditOrder) /\ moved < Len(MoveOrder)
    /\ LET from == MoveOrder[moved + 1][1]
           to == MoveOrder[moved + 1][2]
       IN  \/ /\ tree' = [tree EXCEPT ![to] = tree[from], ![from] = "absent"]
              /\ moved' = moved + 1 /\ NoFault /\ UNCHANGED phase
           \/ /\ Fault /\ phase' = "undoing moves" /\ UNCHANGED <<tree, moved>>
    /\ UNCHANGED <<original, temps, tracked, outcome, written, dryRun, writes, raced, undone, half, copy>>

Applied ==
    /\ phase = "writing" /\ written = Len(EditOrder) /\ moved = Len(MoveOrder)
    /\ phase' = "cleaning" /\ outcome' = "renamed"
    /\ UNCHANGED <<tree, original, temps, tracked, written, moved, dryRun, faults, writes, raced, undone, half, copy>>

\* An error inside the catch block leaves it: the rest is not undone.
UndoAborts == Fault /\ phase' = "cleaning" /\ outcome' = "failed" /\ undone' = FALSE

UndoMove ==
    /\ phase = "undoing moves" /\ moved > 0
    /\ LET from == MoveOrder[moved][1]
           to == MoveOrder[moved][2]
       IN  \/ /\ tree' = [tree EXCEPT ![from] = tree[to], ![to] = "absent"]
              /\ moved' = moved - 1 /\ NoFault /\ UNCHANGED <<phase, outcome, undone>>
           \/ UndoAborts /\ UNCHANGED <<tree, moved>>
    /\ UNCHANGED <<original, temps, tracked, written, dryRun, writes, raced, half, copy>>

\* Mutant: edited files are restored while their moves still stand.
MovesUndoneLast ==
    /\ phase = "undoing moves"
    /\ IF written > 0
       THEN /\ tree' = [tree EXCEPT ![EditOrder[written]] = original[EditOrder[written]]]
            /\ written' = written - 1 /\ UNCHANGED phase
       ELSE moved = 0 /\ phase' = "undoing writes" /\ UNCHANGED <<tree, written>>
    /\ UNCHANGED <<original, temps, tracked, outcome, moved, dryRun, faults, writes, raced, undone, half, copy>>

MovesUndone ==
    /\ phase = "undoing moves" /\ moved = 0 /\ phase' = "undoing writes"
    /\ UNCHANGED <<tree, original, temps, tracked, outcome, written, moved, dryRun,
                   faults, writes, raced, undone, half, copy>>

\* writeFileSync truncates before it writes.
UndoWrite ==
    /\ phase = "undoing writes" /\ written > 0
    /\ LET file == EditOrder[written]
       IN  \/ /\ tree' = [tree EXCEPT ![file] = original[file]]
              /\ written' = written - 1 /\ NoFault /\ UNCHANGED <<phase, outcome, undone>>
           \/ UndoAborts /\ tree' \in {tree, [tree EXCEPT ![file] = "torn"]} /\ UNCHANGED written
    /\ UNCHANGED <<original, temps, tracked, moved, dryRun, writes, raced, half, copy>>

RolledBack ==
    /\ phase = "undoing writes" /\ written = 0
    /\ phase' = "cleaning" /\ outcome' = "failed"
    /\ UNCHANGED <<tree, original, temps, tracked, written, moved, dryRun, faults, writes, raced, undone, half, copy>>

\* The finally block: remove the temporary files the run knows of.
CleanUp ==
    /\ phase = "cleaning" /\ phase' = "done"
    /\ \/ temps' = temps \ tracked /\ NoFault /\ UNCHANGED <<outcome, undone>>
       \/ temps \cap tracked # {} /\ Fault /\ outcome' = "failed" /\ undone' = FALSE /\ UNCHANGED temps
    /\ UNCHANGED <<tree, original, tracked, written, moved, dryRun, writes, raced, half, copy>>

--------------------------------------------------------------------------
\* The dry run of the upstream rename. Every step may fail.

project == <<tree, temps, tracked, written, moved, dryRun, writes, raced, half, preview>>

PreviewCopies ==
    /\ phase = "staging" /\ preview /\ original' = tree
    /\ \/ scratch' = "copy" /\ NoFault /\ phase' = "copied" /\ UNCHANGED outcome
       \/ Fault /\ scratch' = "none" /\ phase' = "done" /\ outcome' = "failed"
       \/ Fault /\ scratch' = "copy" /\ phase' = "restoring" /\ outcome' = "failed"
    /\ UNCHANGED <<project, undone, silenced>>

\* A path option that leaves the project is refused before anything is renamed.
PreviewPaths ==
    /\ phase = "copied"
    /\ \/ phase' = "restoring" /\ outcome' = "failed" /\ UNCHANGED silenced
       \/ phase' = "upstream" /\ silenced' = TRUE /\ UNCHANGED outcome
    /\ UNCHANGED <<project, original, faults, undone, scratch>>

UpstreamRename ==
    /\ phase = "upstream"
    /\ \/ scratch' = "renamed" /\ silenced' = FALSE /\ NoFault
          /\ phase' = "printing" /\ UNCHANGED outcome
       \/ Fault /\ phase' = "restoring" /\ outcome' = "failed" /\ UNCHANGED <<scratch, silenced>>
    /\ UNCHANGED <<project, original, undone>>

PreviewPrints ==
    /\ phase = "printing" /\ phase' = "restoring" /\ outcome' = "printed"
    /\ UNCHANGED <<project, original, faults, undone, scratch, silenced>>

\* The finally block of the dry run.
PreviewEnds ==
    /\ phase = "restoring" /\ phase' = "done" /\ silenced' = FALSE
    /\ \/ scratch' = "none" /\ NoFault /\ UNCHANGED <<outcome, undone>>
       \/ Fault /\ outcome' = "failed" /\ undone' = FALSE /\ UNCHANGED scratch
    /\ UNCHANGED <<project, original>>

previewNapiRename ==
    PreviewCopies \/ PreviewPaths \/ UpstreamRename \/ PreviewPrints \/ PreviewEnds

RenameNext == \/ Stage \/ WriteTemp \/ RenameTemp \/ Move \/ Applied
        \/ UndoMove \/ MovesUndone \/ UndoWrite \/ RolledBack \/ CleanUp
        \/ previewNapiRename \/ \E p \in Paths : ForeignWrite(p)

RenameSpec == RenameInit /\ [][RenameNext]_renameVars

--------------------------------------------------------------------------
RenameTypeOK ==
    /\ {tree, original} \subseteq [Paths -> Contents]
    /\ temps \subseteq Edited /\ tracked \subseteq Edited
    /\ phase \in {"staging", "writing", "renaming", "undoing moves", "undoing writes", "cleaning", "done",
                 "copied", "upstream", "printing", "restoring"}
    /\ outcome \in {"none", "rejected", "printed", "renamed", "failed"}
    /\ written \in 0..Len(EditOrder) /\ moved \in 0..Len(MoveOrder)
    /\ {dryRun, raced, undone, preview, silenced} \subseteq BOOLEAN
    /\ scratch \in {"none", "copy", "renamed"}
    /\ faults \in 0..MaxFaults /\ writes \in 0..MaxWrites

EditedTree == [p \in Paths |-> IF p \in Edited THEN "new" ELSE original[p]]
SourceOf(to) == (CHOOSE m \in {MoveOrder[i] : i \in DOMAIN MoveOrder} : m[2] = to)[1]
RenamedTree ==
    [p \in Paths |-> IF p \in Destinations THEN EditedTree[SourceOf(p)]
                     ELSE IF p \in From THEN "absent" ELSE EditedTree[p]]

\* A run renames the whole project or leaves it as it was, also files that are
\* both edited and moved, whichever operation fails - unless the roll-back
\* itself fails or another process wrote into the project after it was read
\* (rename-project.cjs:211-233).
AllOrNothing ==
    phase = "done" /\ ~raced =>
        /\ outcome = "renamed" => tree = RenamedTree
        /\ outcome \in {"rejected", "printed"} \/ (outcome = "failed" /\ undone) => tree = original

\* A run leaves no temporary file behind but one whose own write failed half-way
\* or whose removal failed (rename-project.cjs:215-219, 231-233); a dry run
\* leaves no copy, gives standard output back on every path, and prints only
\* what the rename did to the copy (cli.cjs:364-433).
NoTempLeft ==
    /\ phase = "done" /\ undone => temps \subseteq half /\ scratch = "none"
    /\ phase \in {"printing", "done"} => ~silenced
    /\ preview /\ outcome = "printed" /\ phase # "done" => scratch = "renamed"

=============================================================================
