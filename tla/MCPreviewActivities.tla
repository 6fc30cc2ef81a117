------------------------- MODULE MCPreviewActivities -------------------------
EXTENDS PreviewActivities

CONSTANT m1
MCKeys == Objects \X {"object", "activity"}
\* Every object has the same image.
MCAttached == [o \in Objects |-> {m1}]
=============================================================================
