\* Every bundle variant over an unedited tree; two edits of a right tree;
\* wrong drafts and releases over unedited trees.
SPECIFICATION Spec
CONSTANTS
  Definition <- MCDefinition
  Documents <- MCDocuments
  Drafts <- MCDrafts
  Bundles <- MCBundles
  Worlds <- MCWorlds
  Edits <- MCEdits
  Missing <- MCMissing
INVARIANTS
  GoIsBacked
  PinsWereSeen
  CustodyIsSequential
  RightEvidenceIsAccepted
