------------------------------- MODULE MCUcos -------------------------------
\* The kernel for TLC.
EXTENDS UcosQ

Zero == [x \in Sem |-> 0]

=============================================================================
