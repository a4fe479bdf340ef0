--------------------------- MODULE MCOllamaWalls ---------------------------
EXTENDS OllamaWalls

\* No accelerator, unified memory, one GPU that the model may or may not fit, two.
MCMachines ==
    [kind: {"none", "apple"}, gpus: {1}, sys: {10}, acc: {0}]
    \cup [kind: {"nvidia"}, gpus: {1, 2}, sys: {10}, acc: {9}]

MCModels == [size: {2, Missing}, perToken: {1, Missing}]

MCAllocations == {a \in [size: {1, 5, 6, 7}, vram: {0, 3, 5, 6, 7}] : a.vram <= a.size}

MCOtherUses == [sys: {1, 2, 3, 5}, acc: {1, 2, 3, 5}]
=============================================================================
