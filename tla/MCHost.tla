------------------------------- MODULE MCHost -------------------------------
EXTENDS MgmtHost
\* Any frame may hold MGMT_SOF again as its second byte.
MCLookalikes == Kinds \X {2}
=============================================================================
