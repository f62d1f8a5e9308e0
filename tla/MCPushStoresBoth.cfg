SPECIFICATION Spec
CONSTANTS
    Width = 2
    WORD_SIZE = 1
    RegCount = 2
    STACK_SIZE = 1
    ROM_ADDRESS = 1
    IDT_ADDRESS = 0
    Lines = {0}
    Pcs = {0}
    Readable <- MCReadable
    Writable <- MCWritable
    Code <- MCCode
    Images <- MCImages
PROPERTY
    PushStoresBoth
CHECK_DEADLOCK FALSE
