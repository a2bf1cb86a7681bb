----------------------------- MODULE MCStateSync -----------------------------
\* Devices and contents are interchangeable: no action and no property names
\* one of them.
EXTENDS StateSync, TLC

Interchangeable == Permutations(Device) \union Permutations(Content)
=============================================================================
