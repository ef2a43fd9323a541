SPECIFICATION MachineSpecification
CONSTANTS
    ByteBits = 2
    WordBytes = 2
    AddressBytes = 1
    UsizeMax = 13
    STACK_SIZE = 9
    MEMORY_CAPACITY = 4
    MAX_MEMORY_SIZE = 8
    CallData <- MCCallData
    ReturnData <- MCReturnData
    ContractCode <- MCContractCode
    Environment <- MCEnvironment
    Backend <- MCBackend
    keccak <- MCkeccak
INVARIANT EmulatedAsExecuted
 
CHECK_DEADLOCK FALSE
