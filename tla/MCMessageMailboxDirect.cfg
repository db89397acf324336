SPECIFICATION MailboxSpec
CONSTANTS
  Tag = {t1, t2}
  NoTag = NoTag
  Capacity = 3
  MaxMessages = 4
  DirectPush = TRUE
INVARIANTS

  NoStrandedMessage

