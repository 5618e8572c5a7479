----------------------------- MODULE MCGroupKey -----------------------------
\* GroupKey with three keys, three positions and arrays that grow by two.
EXTENDS GroupKey

MCKeys == 0..2
MCPositions == 0..2
\* Memory that has never been used reads as zero; recycled memory holds the
\* values and offsets of whatever was there before.
CleanMemory == {0}
RecycledMemory == 0..3
=============================================================================
