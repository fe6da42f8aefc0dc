CONSTANTS
  h1 = h1
  h2 = h2
  plus = plus
  pro = pro
  Handlers = {h1, h2}
  Channels = {plus, pro}
  Subjects <- TwoSubjects
  LimitByChatId <- SharedTiers
  Default = 1
  Faults = {"ask", "limits", "ban", "unban"}
  MaxFaults = 1
  MaxChanges = 3
SPECIFICATION FairSpec
CHECK_DEADLOCK FALSE
INVARIANTS TypeOK PaidIsGranted UnpaidIsReset ToldIsTrue OneChannel
PROPERTY Settles
