SPECIFICATION FairSpec
CONSTANTS
  Users = {u1, u2}
  Invitations = {i1, i2}
  Founders = {u1}
  Connections = {w1, w2}
  Null = Null
  InviteRoles = {"admin"}
  ChangeRoles = {"member"}
  MaxRetries = 1
INVARIANTS TypeOK OneOwner OnePending TokenUsedOnce MailedIsCommitted
PROPERTIES JoinsByInvitation SettledInvitation InvitationSettles
CHECK_DEADLOCK FALSE
