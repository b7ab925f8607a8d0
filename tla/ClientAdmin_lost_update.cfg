SPECIFICATION Spec
CONSTANTS
  Tenant = {t1}
  TenantCode = {d1}
  Client = {c1}
  Uri = {}
  Secret = {x1, x2}
  Field = {f1}
  Value = {v1}
  Admin = {a1}
PROPERTIES
  DeadSecretsStayDead
