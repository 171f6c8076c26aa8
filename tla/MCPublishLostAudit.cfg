SPECIFICATION FairSpec
CONSTANTS
  None = None
  c1 = c1 c2 = c2 c3 = c3 p1 = p1 p2 = p2 o1 = o1 o2 = o2 o3 = o3
  t1 = t1 t2 = t2 t3 = t3 t4 = t4 m1 = m1 m2 = m2 r1 = r1 r2 = r2 r3 = r3
  Backend = "s3"
  Content = {c1, c2}
  Format = {"tar.gz"}
  Size <- MCSize
  MaxBytes = 2
  Writer = {r1, r2}
  Package = {p1}
  Version = {"1.0.0"}
  Org = {o1, o2}
  OrgOf <- MCOrgOf
  Token = {t1}
  Scope <- MCScope
  RoleOf <- MCRoleOf
  Meta = {m1, m2}
  Restarts = TRUE
PROPERTIES AuditWriteIsLogged
