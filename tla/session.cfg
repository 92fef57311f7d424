\* Two tabs over one localStorage, expiring tokens and a failing backend.
SPECIFICATION FairSpec
CONSTANTS
  Users = {admin, viewer}
  Active = {admin, viewer}
  Nobody = Nobody
  Tabs = {t1, t2}
  MaxLogins = 2
  MaxOpens = 2
INVARIANTS TypeOK SessionsAreWhole
PROPERTIES StaysLoggedOut LoadingEnds
