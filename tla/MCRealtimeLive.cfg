SPECIFICATION FairSpec
CONSTANTS
  Users = {u1}
  Sockets = {s1}
  Requests = {r1}
  Messages = {m1}
  NoUser = NoUser
  NoSocket = NoSocket
  NoMessage = NoMessage
  MaxWire = 2
  Stalling = {s1}
PROPERTIES
  HandshakeResolves
  NoSilentDrop
  DeadSocketsReaped
  WritersFinish
  DeadOnesDropped
CHECK_DEADLOCK FALSE
