SPECIFICATION Spec
CONSTANTS
  t1 = t1
  t2 = t2
  g = g
  y = y
  em = em
  en = en
  Tabs <- TwoTabs
  Idents <- TwoIdents
  Mails <- TwoMails
  MailOf <- Addresses
  MaxUsers = 2
  MaxTokens = 3
  k1 = k1
  k2 = k2
  Slots <- TwoSlots
  MaxFails = 2
  Events <- AllEvents
  MaxEvents = 1
INVARIANTS
  TypeOK
  SessionKept
  OneLivePerSignIn
  TokenOfOwner
  CounterHasExpiry
SYMMETRY Symmetry
CHECK_DEADLOCK FALSE
