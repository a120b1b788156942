SPECIFICATION Spec
CONSTANTS
  Users = {u1, u2}
  Sockets = {s1, s2}
  Requests = {r1}
  Messages = {m1}
  NoUser = NoUser
  NoSocket = NoSocket
  NoMessage = NoMessage
  MaxWire = 1
  Stalling = {}
SYMMETRY Symmetry
INVARIANTS
  RegistrySound
  FramesOnlyToAuthor
  NoOrphanRows
  TabsAgree
PROPERTIES
  ImplementsChatLog
CHECK_DEADLOCK FALSE
