SPECIFICATION FairSpec
CONSTANTS
  Users = {u1}
  Sockets = {s1}
  Requests = {r1}
  Messages = {m1}
  NoUser = NoUser
  NoSocket = NoSocket
  NoMessage = NoMessage
  MaxWire = 1
  Stalling = {}
PROPERTIES
  StoredIsPushed
CHECK_DEADLOCK FALSE
