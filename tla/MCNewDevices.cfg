\* Two auth requests of one device, two approvers and two log-ins; or two
\* registrations with one invite and an administrator who disposes of both.
SPECIFICATION HostSpec
CONSTANTS
  i1 = i1
  i2 = i2
  d1 = d1
  c1 = c1
  c2 = c2
  a1 = a1
  a2 = a2
  a3 = a3
  a4 = a4
  l1 = l1
  l2 = l2
  Ids <- TwoIds
  NoId = NoId
  Devices <- OneDevice
  NoDevice = NoDevice
  Creators <- TwoCreators
  Approvers <- TwoApprovers
  Logins <- TwoLogins
  Types <- LoginTypes
  Expiration = 2
  MaxTime = 3
  Accounts <- FourAccounts
  NoAccount = NoAccount
  Emails <- TwoIds
  NoEmail = NoEmail
  Invites <- OneDevice
  NoInvite = NoInvite
  Registrars <- TwoCreators
  Admins <- OneDevice
  MaxFailures = 1
SYMMETRY HostSymmetry
INVARIANTS
  TypeOK SessionsBounded
  OneActiveAdmin InviteMakesOne NoInviteLost
PROPERTIES AnswerIsFinal NewestIsAnswered
