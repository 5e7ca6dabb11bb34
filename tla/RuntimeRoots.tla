---------------------------- MODULE RuntimeRoots ----------------------------
(***************************************************************************)
(* The runtime root and its migration (RuntimeRootManager): one pointer     *)
(* file names the directory every mutable file lives under; a migration     *)
(* copies the tree next to its destination, compares the two, moves the     *)
(* copies into place and then replaces the pointer file.                    *)
(***************************************************************************)
EXTENDS Naturals, FiniteSets

CONSTANTS
    Roots,     \* directories a user may choose
    FirstRoot, \* the default
    Children,  \* what lies directly under a root
    Loose,     \* children whose files may change and keep their sizes (SQLite)
    Content    \* what a child holds at first

ASSUME RootsAssumption == FirstRoot \in Roots
ASSUME ChildrenAssumption == Children # {} /\ Loose \subseteq Children

VARIABLES
    pointer,   \* config/runtime.json
    present,   \* present[r]: the children there are under r
    tree,      \* tree[r][c]: what they hold
    staged,    \* staged[r]: the children under r/.scalp-staging
    copies,    \* copies[r][c]: what they hold
    migration  \* the call of migrate that is running

rootVars == <<pointer, present, tree, staged, copies, migration>>

NewTree == [c \in Children |-> Content[c]]
NoMigration == [step |-> "none", source |-> FirstRoot, dest |-> FirstRoot, result |-> "NONE"]

InitRoots == /\ pointer = FirstRoot
             /\ present = [r \in Roots |-> IF r = FirstRoot THEN Children ELSE {}]
             /\ tree = [r \in Roots |-> NewTree]
             /\ staged = [r \in Roots |-> {}]
             /\ copies = [r \in Roots |-> NewTree]
             /\ migration = NoMigration

Migrating == migration.step # "none"
Returned(result) == [migration EXCEPT !.step = "none", !.result = result]

-----------------------------------------------------------------------------
\* The destination must be new and empty; a stage alone is removed.
BeginMigration(dest) ==
    /\ ~Migrating
    /\ \/ /\ dest = pointer
          /\ migration' = Returned("UNCHANGED")
          /\ UNCHANGED staged
       \/ /\ dest # pointer /\ present[dest] # {}
          /\ migration' = Returned("REFUSED")
          /\ UNCHANGED staged
       \/ /\ dest # pointer /\ present[dest] = {}
          /\ migration' = [step |-> "copy", source |-> pointer, dest |-> dest, result |-> "NONE"]
          /\ staged' = [staged EXCEPT ![dest] = {}]
    /\ UNCHANGED <<pointer, present, tree, copies>>

\* copytree: each child as it is when its turn comes.
CopyChild(c) ==
    LET m == migration IN
    /\ m.step = "copy" /\ c \notin staged[m.dest]
    /\ staged' = [staged EXCEPT ![m.dest] = @ \cup {c}]
    /\ copies' = [copies EXCEPT ![m.dest][c] = tree[m.source][c]]
    /\ UNCHANGED <<pointer, present, tree, migration>>

\* _verify: names and sizes; a database may have changed and kept its size.
Verify ==
    LET m == migration
        copied == copies[m.dest]
        same == \A c \in Children \ Loose : copied[c] = tree[m.source][c]
    IN /\ m.step = "copy" /\ staged[m.dest] = Children
       /\ \/ same /\ migration' = [m EXCEPT !.step = "move"]
          \/ copied # tree[m.source] /\ migration' = Returned("FAILED")
       /\ UNCHANGED <<pointer, present, tree, staged, copies>>

MoveChild(c) ==
    LET m == migration IN
    /\ m.step = "move" /\ c \in staged[m.dest]
    /\ present' = [present EXCEPT ![m.dest] = @ \cup {c}]
    /\ tree' = [tree EXCEPT ![m.dest][c] = copies[m.dest][c]]
    /\ staged' = [staged EXCEPT ![m.dest] = @ \ {c}]
    /\ UNCHANGED <<pointer, copies, migration>>

\* Slip: the pointer is replaced before the children are in place.
SwitchEarly ==
    LET m == migration IN
    /\ m.step = "move"
    /\ pointer' = m.dest
    /\ migration' = Returned("COMPLETE")
    /\ UNCHANGED <<present, tree, staged, copies>>

\* Slip: the old tree is removed.
SwitchRemoving ==
    LET m == migration IN
    /\ m.step = "move" /\ staged[m.dest] = {}
    /\ pointer' = m.dest
    /\ present' = [present EXCEPT ![m.source] = {}]
    /\ migration' = Returned("COMPLETE")
    /\ UNCHANGED <<tree, staged, copies>>

Switch ==
    LET m == migration IN
    /\ m.step = "move" /\ staged[m.dest] = {}
    /\ pointer' = m.dest
    /\ migration' = Returned("COMPLETE")
    /\ UNCHANGED <<present, tree, staged, copies>>

\* An OSError: what was copied or moved stays.
MigrationFails == /\ Migrating
                  /\ migration' = Returned("FAILED")
                  /\ UNCHANGED <<pointer, present, tree, staged, copies>>

MigrationProceeds == \/ \E c \in Children : CopyChild(c) \/ MoveChild(c)
                     \/ Verify \/ Switch

-----------------------------------------------------------------------------
Steps == {"none", "copy", "move"}
Results == {"NONE", "UNCHANGED", "REFUSED", "FAILED", "COMPLETE"}

RootsOK == /\ pointer \in Roots
           /\ present \in [Roots -> SUBSET Children]
           /\ migration \in [step : Steps, source : Roots, dest : Roots, result : Results]
           /\ staged \in [Roots -> SUBSET Children]

(* Whatever fails or crashes, the pointer names a directory that has every
   child, and not the one that is being filled.                              *)
PointerIsComplete == present[pointer] = Children /\ (Migrating => migration.dest # pointer)

=============================================================================
