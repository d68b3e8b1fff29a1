\* One writer; a code page and a data page in one allocation.
CONSTANTS
    w1 = w1
    w2 = w2
    Writers = {w1}
    NPages = 5
    InitProt <- MixedProt
    AllocOf <- MCAlloc
    NoProt = NoProt
SPECIFICATION Spec
PROPERTY RestoresFirstPage
\* A single writer may stop calling.
CHECK_DEADLOCK FALSE
