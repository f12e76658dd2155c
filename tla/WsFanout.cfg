SPECIFICATION Spec
CONSTANTS
  near = near
  far = far
  Processes = {near, far}
  Sockets = {s, t}
  Events = {e1, e2}
  Home <- MCHome
INVARIANTS AtMostOnce Membership Reaches RemoteOrder
SYMMETRY Swap
CHECK_DEADLOCK FALSE
