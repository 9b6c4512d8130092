\* Two concurrent acceptances over a schedule of two of the three on the roster,
\* two candidate directories, in turn or not; the operator may pass two
\* acceptance times for the first index, the earlier of which can be followed.
CONSTANTS
  alice = alice
  bob = bob
  carol = carol
  k1 = k1
  k2 = k2
  d1 = d1
  d2 = d2
  Genesis = Genesis
  None = None
  Acceptors = {k1, k2}
  Participants = {alice, bob, carol}
  Schedule <- MCSchedule
  MaxParticipants = 2
  Dirs = {d1, d2}
  ContributedAt = {1, 4}
  DestroyedAt = {2, 5}
  AcceptedAt = {3, 6}
SYMMETRY Symmetry
SPECIFICATION Spec
INVARIANTS NoFork LoadsIfInTurn Resumable
