SPECIFICATION MCSpec
CONSTANTS
  NULL = NULL
  Users = {1, 2}
  Nonces = {n1, n2, n3}
  Procs = {p1, p2}
  MaxAccepted = 4
SYMMETRY Symmetry
INVARIANT AvatarTypeOK
INVARIANT PictureOnDisk
INVARIANT NothingLeftBehind
CHECK_DEADLOCK FALSE
