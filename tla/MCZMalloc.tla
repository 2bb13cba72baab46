----------------------------- MODULE MCZMalloc -----------------------------
EXTENDS ZMalloc
SlotRequestsDef == {<<3, 20>>}
=============================================================================
