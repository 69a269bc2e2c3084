\* Three undecryptable messages over a map for two counts; two faults and a
\* registration by somebody else.  A thread in a group and a direct message.
\* Texts of up to 5 units in segments of 3.  No symmetry: liveness is checked.
\* Run stops for good after a cancellation, a reply once it is sent.
SPECIFICATION MCSpec
CONSTANTS
  Messages = {m1, m2, m3}
  MaxRetries = 3
  MaxKeys = 2
  MaxBackoff = 3
  MaxFaults = 2
  MaxRotations = 1
  Users = {u1}
  Groups = {g1}
  Threads = {t1}
  ParentOf <- AnyGroup
  MaxUnits = 3
  MaxLength = 5
INVARIANTS
  NoNeedlessRegister
  LossHasCause
  
  ReplyIntact
PROPERTIES
  EvictionSparesLeader
  ShutdownEnds
  Recovers
CHECK_DEADLOCK FALSE
