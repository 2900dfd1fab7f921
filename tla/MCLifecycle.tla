---------------------------- MODULE MCLifecycle ----------------------------
EXTENDS Lifecycle

MCHeapPtrs == {NULL, Wild}
=============================================================================
