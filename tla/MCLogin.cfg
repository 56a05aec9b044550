CONSTANTS
  Requests = {r1, r2, r3}
  Kinds = {"request", "verify", "logout", "me", "create", "post"}
  MaxAttempts = 2
  Member = Member
  Old = Old
  NoCode = NoCode
  NoToken = NoToken
  NoUser = NoUser
  Mistyped = Mistyped
SPECIFICATION Spec
SYMMETRY Symmetry
INVARIANTS
  TypeOK
  MailedCodeWorks
  SpentCodeIsGone
  MailsSpaced
  EndedStaysOut
  LoginSticks
  RoomsReachable
PROPERTIES
  MemberRowsStay
CHECK_DEADLOCK FALSE
