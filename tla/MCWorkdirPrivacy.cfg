CONSTANTS
    Runner = runner
    Nobody = nobody
    Resumers = {r1, r2}
SPECIFICATION Spec
PROPERTIES
    LockedWorkdirIsPrivate
