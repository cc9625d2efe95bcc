------------------------- MODULE MCPowerTransaction -------------------------
EXTENDS PowerTransaction

MCSelections == {"s1", "s2"}
MCAllFaults == FaultKinds
\* The failures the scripts recover from: a quiesce or commit that fails after
\* the unmount, or a user partition that cannot be mounted again, is not.
MCRecoverable == {"marker", "umount", "sd2", "remount"}
=============================================================================
