\* Three pages of two addresses, so a start address may be misaligned; two
\* changes of the target's map during the walk.
CONSTANTS
    NPages = 3
    PageSize = 2
    MaxChanges = 2
SPECIFICATION Spec
INVARIANT WalkCoversSpace
PROPERTY ImplementsWalk
\* The walk ends at the last page and the target changes its map a bounded
\* number of times.
CHECK_DEADLOCK FALSE
