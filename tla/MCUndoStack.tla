---------------------------- MODULE MCUndoStack ----------------------------
EXTENDS UndoStack

CONSTANTS c1, c2, v1, v2

MCNameSum(p) == IF IsItem(p) THEN 100 * (p[2] + 1) ELSE IF p = DocPath THEN 7 ELSE 11
MCPayloadSum(v) == CASE v \in {c1, c2} -> 1 [] v = v1 -> 3 [] v = v2 -> 5 [] OTHER -> 0

Workload(kinds, clients, updates, nest) ==
  [kinds |-> kinds, clients |-> clients, updates |-> updates, nest |-> nest]

EveryWorkload ==
  { Workload({"undo", "redo", "upload", "interim"}, {c1}, 8, 1),
    Workload({"undo", "redo", "upload"}, {c1, c2}, 6, 1),
    Workload({"undo", "redo", "add", "delete"}, {c1}, 7, 2),
    Workload({"undo", "add", "subtree", "move"}, {c1}, 6, 1),
    Workload({"undo", "upload", "add", "deleteList"}, {c1, c2}, 5, 1),
    Workload({"upload", "reset"}, {c1, c2}, 4, 1) }

AddingOnly == {Workload({"undo", "add"}, {c1, c2}, 5, 1)}

AddingAndResetting == {Workload({"add", "reset"}, {c1}, 4, 1)}
===========================================================================
