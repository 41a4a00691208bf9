SPECIFICATION Spec
CONSTANTS
    Quiz = {q1}
    User = {ann}
    Content = {c1, c2}
    Request = {r1, r2}
    MaxVersion = 1
    None = None
CHECK_DEADLOCK FALSE
PROPERTIES
    PublishedIsImmutable
