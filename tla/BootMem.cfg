SPECIFICATION Spec
CONSTANTS
    PAGE_SIZE = 4
    BOOT_MAP_LIM = 40
    WORD = 64
    KERNEL_LMA = 8
    end = 10
    StructSize = 1
    boot_info = 29
    elf_hdr = 4
    MemMaps <- MCMemMaps
    FREE = FREE
    RESERVED = RESERVED
INVARIANTS
    TypeOK
    FreedOnce
    FreedUsable
    NothingForgotten
PROPERTIES
    PageInitCompletes
    BootEnds
CHECK_DEADLOCK FALSE
