\* One typed message beside the voice, three inputs or changes of phone and network.
SPECIFICATION FairSpec
CONSTANTS
  m1 = m1
  m2 = m2
  Typed <- MCTyped1
  MaxEvents = 3
INVARIANTS TypeOK InterruptIsHeld SilencedUnlessSlipped
PROPERTIES CommandsAreHandled
CHECK_DEADLOCK FALSE
