SPECIFICATION Spec
CONSTANTS
  Users = {u1}
  Sockets = {s1}
  Requests = {r1, r2}
  Messages = {m1}
  NoUser = NoUser
  NoSocket = NoSocket
  NoMessage = NoMessage
  MaxWire = 1
  Stalling = {}
SYMMETRY Symmetry
INVARIANTS
  DeletionToldOnce
CHECK_DEADLOCK FALSE
