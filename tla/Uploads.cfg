CONSTANTS
  u1 = u1
  u2 = u2
  u3 = u3
  Uploads = {u1, u2, u3}
  KindsOf <- TwoOrThreeWait
  Ids = {1, 2}
  Capacity = 1
SPECIFICATION Spec
INVARIANTS TypeOK WaitersAgree ConfirmedExactly
PROPERTY LostToNamesakeOnly
