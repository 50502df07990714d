CONSTANTS
  Kinds = {"sendto", "sendmsg", "recvfrom", "recvmsg", "getsockopt", "recvmmsg"}
  Values = {p, q}
  None = none
  Lens = {1}
  Iovs <- MCIovs
  MaxMsgs = 3
  MAX_IOVEC_ENTRIES = 1
  MAX_MMSGHDR_ENTRIES = 2
  Hazards = {"race", "absent"}
SPECIFICATION Spec
INVARIANTS CapturedTrue TransferExact TransferCovers RequestBounded RequestExact
SYMMETRY Symmetry
