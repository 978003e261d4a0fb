\* Two keys, three secrets, two changes at a time.
SPECIFICATION KeySpec
CONSTANTS
    Keys = {k1, k2}
    Secrets = {s1, s2, s3}
    NoSecret = NoSecret
    Never = Never
    Permissions <- SomePermissions
    Grants <- SmallGrants
    Callers = {c1, c2}
    MaxTime = 2
INVARIANTS KeyTypeOK SecretsOpenTheirKey RevokedKeysStayRevoked OnlyTheNewestSecret KeyTestsAgree
SYMMETRY KeySymmetry
CHECK_DEADLOCK FALSE
