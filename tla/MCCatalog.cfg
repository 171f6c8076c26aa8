SPECIFICATION Spec
CONSTANTS
  None = None
  home = home
  away = away
  t1 = t1
  t2 = t2
  op_row = op_row
  ci = ci
  insecure = insecure
  pkg = pkg
  archive = archive
  Actor = {x, y, z}
  Org = {home, away}
  Token = {t1, t2}
  Operator = op_row
  Name <- MCName
  Scope <- MCScope
  Role <- MCRole
  Expires = {t1}
  Minted = {t1}
  Standing = {home}
  Package = {pkg}
  Version = {1, 2}
  Home = home
  Released <- MCReleased
  Yankable <- MCYankable
  Blob = {archive}
  ArtifactOf <- MCArtifactOf
  Open = {TRUE, FALSE}
SYMMETRY MCSymmetry
VIEW MCView
INVARIANTS RevokedTokenActsNoMore OperatorRaceIsHarmless TrailFollowsFlags SummaryNotAheadOfVersions LatestStaysFetchable
CHECK_DEADLOCK FALSE
