CONSTANTS
  User = {u1, u2}
  StaffUser = {u2}
  Slot = {s1, s2}
  MaxToken = 4
  MaxDevToken = 3
SPECIFICATION StoresSpec
SYMMETRY Interchangeable
INVARIANTS
  SpentOnce
  OneLivePerLogin
  SellerTokensAreOfSellers
PROPERTIES
  EndedLoginsStayEnded
  ImplementsLoginChain
