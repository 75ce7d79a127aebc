----------------------------- MODULE MCBlobStore -----------------------------
(* Instances of BlobStore for TLC.                                         *)
EXTENDS BlobStore

CONSTANTS i1, i2

\* A body below the cap and one above it.
Bodies == {<<1>>, <<2, 3, 4>>}

\* Both blocks, in the order that is not the one of staging.
Lists == {<<i2, i1>>}
=============================================================================
