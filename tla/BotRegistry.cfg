SPECIFICATION Spec
CONSTANTS
    Telegram = {t1}
    Id = {i1, i2}
    User = {ann, bob}
    Admin = {bob}
    Request = {r1, r2, r3}
    MaxAttempts = 2
    None = None
SYMMETRY RegistrySymmetry
INVARIANTS
    RegisteredBotIsServed
    NoStrayWebhook
PROPERTY
    OwnerDecides
