SPECIFICATION Spec
CONSTANTS
    HALF_ORDER = 128
    MAX_OPS_PER_SCRIPT = 5
    MAX_STACK_SIZE = 5
    MAX_PUBKEYS_PER_MULTISIG = 3
    MAX_SCRIPT_ELEMENT_SIZE = 40
    SEQUENCE_MAX = 1000
    LOCK_TIME_THRESHOLD = 100
    SEQUENCE_TYPE_FLAG = 128
    SEQUENCE_MASK = 64
    Verifies <- MCVerifies
    Cases <- MCCases
INVARIANTS BranchesTaken NumbersExact MultisigExact SignaturesStrict VerifiedInFull
CHECK_DEADLOCK FALSE
