------------------------- MODULE MCStorageProvision -------------------------
EXTENDS StorageProvision

\* The card is new, or carried the same layout before.
MCLeftovers == {"blank", "fat"}
=============================================================================
