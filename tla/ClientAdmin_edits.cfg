SPECIFICATION Spec
CONSTANTS
  Tenant = {t1, t2}
  TenantCode = {d1}
  Client = {c1}
  Uri = {u1}
  Secret = {x1, x2, x3}
  Field = {f1, f2}
  Value = {v1, v2}
  Admin = {a1, a2}
INVARIANTS
  TypeOK
  TenantCodesAreUnique
PROPERTIES
  ForgottenSecretsStayDead
  RemovedClientsStayOut
  AtomicButForLostUpdates
SYMMETRY Symmetric
