SPECIFICATION StartupSpec
CONSTANTS
    Width = 6
    WORD_SIZE = 1
    RegCount = 255
    STACK_SIZE = 9
    ROM_ADDRESS = 49
    ROM_SIZE = 15
    INTERRUPT_MASK_ADDRESS = 47
    VIDEO_META_ADDRESS = 48
    Garbage = {0, 40}
    Unset <- MCUnset
    IDT_ADDRESS = 24
    LINE_CHUNK = 4
    HALT_WORD = 1
    Lines = {0, 1}
    Pcs = {}
    Images = {}
    Encoded <- MCEncoded
    Readable <- MCReadable
    Writable <- MCWritable
    Code <- EncodedCode
    StackArea <- MCStackArea
    Typed <- MCTyped
    Texts <- MCTexts
    Lists <- MCLists
    CommandLines <- MCCommandLines
INVARIANT
    PcIsInitial
CHECK_DEADLOCK FALSE
