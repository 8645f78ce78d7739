\* open("/nonexistent") fails with -ENOENT, then geterrno twice.
CONSTANTS
    Returns <- MCReturns
    ENOSYS = 38
SPECIFICATION Spec
PROPERTIES
    ErrnoPersists
