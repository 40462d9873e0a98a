CONSTANTS
  Size = 2
  Buffer = 3
  MaxPkgs = 2
  MaxNtfs = 2
SPECIFICATION Spec
CHECK_DEADLOCK FALSE
INVARIANTS SessionIoTypeOK OneReplyAtATime RepliesWhole IntactWhileKeepingUp
PROPERTY ChainGoesOn
